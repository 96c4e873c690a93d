---------------------------- MODULE Market_proofs -----------------------------
(***************************************************************************)
(* Theorems about the market on show: about OrderBook, that the orders of  *)
(* the store are those of the node once all is quiet and that the rows are *)
(* built anew whenever they must be, for any orders and any number of      *)
(* changes; and about MarketFeed, which feeds it.                          *)
(***************************************************************************)
EXTENDS MarketFeed, OrderBook, SequenceTheorems, FiniteSetTheorems, TLAPS

-----------------------------------------------------------------------------
(* The inductive invariant of OrderBook.                                   *)

Books == UNION {[ids -> Nat] : ids \in SUBSET Orders}

Messages ==
    {Change} \cup [kind : {"cancel"}, order : Orders]
             \cup [kind : {"limits"}, failed : BOOLEAN, orders : Books]
             \cup [kind : {"rest"}, failed : BOOLEAN]

Results == [failed : BOOLEAN, orders : Books]

BookType ==
    /\ created \subseteq Orders
    /\ node \in Books /\ DOMAIN node \subseteq created
    /\ changes \in Nat
    /\ toNode \in Seq({"limits", "rest"}) /\ toClient \in Seq(Messages)
    /\ results \in Seq(Results)
    /\ dispatchSubTimeout \in BOOLEAN /\ dispatchCancelTimeout \in BOOLEAN
    /\ cancelBatchIDs \subseteq Orders /\ lost \in BOOLEAN

\* The orders of a batch are in front of the i-th message and nothing that answers is
\* in between: on the socket, or kept for the other answers.
Limits(i) == toClient[i].kind = "limits"
Answers(i) == toClient[i].kind \in {"limits", "rest"}

OrdersBefore(i) ==
    \/ \E k \in 1..i-1 : Limits(k) /\ \A j \in k+1..i-1 : ~ Answers(j)
    \/ results # <<>> /\ \A j \in 1..i-1 : ~ Answers(j)

\* Batches are answered in two steps, one batch after the other.
Paired ==
    /\ \A i \in 1..Len(toClient) : toClient[i].kind = "rest" => OrdersBefore(i)
    /\ toNode # <<>> /\ toNode[1] = "rest" => OrdersBefore(Len(toClient) + 1)
    /\ \A i \in 2..Len(toNode) : toNode[i] = "rest" => toNode[i-1] = "limits"

\* The node will be asked for its orders after all that it has changed so far.
WillAsk ==
    \/ dispatchSubTimeout
    \/ \E i \in 1..Len(toClient) : toClient[i].kind = "change"
    \/ \E i \in 1..Len(toNode) : toNode[i] = "limits"

\* An answer is a failure or has what the node would answer now.
IsCurrent(answer) == answer.failed \/ answer.orders \in Listings(node)

\* An answer with no change behind it is as good as one of now.
AnswersAreCurrent ==
    \A i \in 1..Len(toClient) :
        Limits(i) /\ (\A j \in i+1..Len(toClient) : toClient[j].kind # "change")
            => IsCurrent(toClient[i])

\* The node will be asked, or it was and the answer is on its way, or it is kept, or the
\* store has the orders; if the question was not lost.
LastIsCurrent ==
    ~ lost /\ ~ WillAsk /\ (\A i \in 1..Len(toClient) : ~ Limits(i)) =>
        /\ results # <<>> => IsCurrent(results[Len(results)])
        /\ results = <<>> => marketLimitOrders \in Listings(node)

\* Only orders that the node no longer has are removed, and they never come back.
CancelledAreGone ==
    /\ cancelBatchIDs \subseteq created \ DOMAIN node
    /\ \A i \in 1..Len(toClient) :
          toClient[i].kind = "cancel" => toClient[i].order \in created \ DOMAIN node

BookInv == BookType /\ Paired /\ AnswersAreCurrent /\ LastIsCurrent /\ CancelledAreGone

-----------------------------------------------------------------------------
(* The queue of the client.                                                *)

\* The last element of what is left of a sequence, or of what is added to.
LEMMA LastOfTail ==
    ASSUME NEW S, NEW s \in Seq(S), s # <<>>
    PROVE  /\ Tail(s) \in Seq(S) /\ s[1] \in S
           /\ Tail(s) = <<>> => s[Len(s)] = s[1]
           /\ Tail(s) # <<>> => Tail(s)[Len(Tail(s))] = s[Len(s)]
<1>1. /\ Tail(s) \in Seq(S) /\ s[1] \in S /\ Len(s) \in Nat \ {0}
      /\ Len(Tail(s)) = Len(s) - 1
      /\ \A i \in 1..Len(s) - 1 : Tail(s)[i] = s[i+1]
  OBVIOUS
<1>2. Tail(s) = <<>> <=> Len(s) = 1
  <2>1. Tail(s) = <<>> <=> Len(Tail(s)) = 0
    BY <1>1, EmptySeq
  <2> QED BY <1>1, <2>1
<1>3. ASSUME Len(s) # 1 PROVE Tail(s)[Len(Tail(s))] = s[Len(s)]
  <2>1. Len(s) - 1 \in 1..Len(s) - 1 /\ (Len(s) - 1) + 1 = Len(s)
    BY <1>1, <1>3
  <2>2. Tail(s)[Len(s) - 1] = s[(Len(s) - 1) + 1]
    BY <1>1, <2>1
  <2> QED BY <1>1, <2>1, <2>2
<1> QED BY <1>1, <1>2, <1>3

\* The element that is appended comes last.
LEMMA LastAppended ==
    ASSUME NEW S, NEW s \in Seq(S), NEW e \in S
    PROVE  /\ Append(s, e) \in Seq(S) /\ Append(s, e) # <<>>
           /\ Append(s, e)[Len(Append(s, e))] = e
OBVIOUS

\* What is in front of a message stays there when messages are added behind it.
LEMMA OrdersBeforeKept ==
    ASSUME NEW i \in Nat, OrdersBefore(i),
           \A j \in 1..i-1 : toClient'[j].kind = toClient[j].kind,
           results # <<>> => results' # <<>>
    PROVE  OrdersBefore(i)'
<1>1. \A j \in 1..i-1 : (Answers(j)' <=> Answers(j)) /\ (Limits(j)' <=> Limits(j))
  BY DEF Answers, Limits
<1>2. CASE \E k \in 1..i-1 : Limits(k) /\ \A j \in k+1..i-1 : ~ Answers(j)
  <2>1. PICK k \in 1..i-1 : Limits(k) /\ \A j \in k+1..i-1 : ~ Answers(j)
    BY <1>2
  <2>2. \A j \in k+1..i-1 : j \in 1..i-1
    BY <2>1
  <2>3. Limits(k)' /\ \A j \in k+1..i-1 : ~ Answers(j)'
    BY <1>1, <2>1, <2>2
  <2> QED BY <2>1, <2>3 DEF OrdersBefore
<1>3. CASE results # <<>> /\ \A j \in 1..i-1 : ~ Answers(j)
  BY <1>1, <1>3 DEF OrdersBefore
<1> QED BY <1>2, <1>3 DEF OrdersBefore

\* The first message is taken.
LEMMA TailType ==
    ASSUME BookType, toClient # <<>>, toClient' = Tail(toClient)
    PROVE  /\ toClient[1] \in Messages /\ toClient' \in Seq(Messages)
           /\ Len(toClient) \in Nat \ {0} /\ Len(toClient') = Len(toClient) - 1
           /\ \A i \in 1..Len(toClient) - 1 : toClient'[i] = toClient[i+1]
BY DEF BookType

\* An answer that is taken first is still in front of what was behind it: the orders are
\* kept for the rest of their batch.
LEMMA TailKeepsPaired ==
    ASSUME BookType, Paired, toClient # <<>>, toClient' = Tail(toClient), UNCHANGED toNode,
           Limits(1) => results' # <<>>, ~ Answers(1) => results' = results
    PROVE  Paired'
<1>1. /\ Len(toClient) \in Nat \ {0} /\ Len(toClient') = Len(toClient) - 1
      /\ \A i \in 1..Len(toClient) - 1 : toClient'[i] = toClient[i+1]
  BY TailType
<1>2. \A j \in 1..Len(toClient) - 1 : (Answers(j)' <=> Answers(j+1))
                                    /\ (Limits(j)' <=> Limits(j+1))
  BY <1>1 DEF Answers, Limits
<1>3. ASSUME NEW i \in 1..Len(toClient), OrdersBefore(i+1) PROVE OrdersBefore(i)'
  <2>1. CASE \E k \in 1..(i+1)-1 : Limits(k) /\ \A j \in k+1..(i+1)-1 : ~ Answers(j)
    <3>1. PICK k \in 1..i : Limits(k) /\ \A j \in k+1..i : ~ Answers(j)
      BY <1>1, <2>1
    <3>2. \A j \in k..i-1 : ~ Answers(j)'
      <4> TAKE j \in k..i-1
      <4>1. j \in 1..Len(toClient) - 1 /\ j + 1 \in k+1..i
        BY <1>1, <3>1
      <4> QED BY <1>2, <3>1, <4>1
    <3>3. CASE k = 1
      BY <3>1, <3>2, <3>3 DEF OrdersBefore
    <3>4. CASE k # 1
      <4>1. k - 1 \in 1..i-1 /\ k - 1 \in 1..Len(toClient) - 1 /\ (k - 1) + 1 = k
        BY <1>1, <3>1, <3>4
      <4>2. Limits(k - 1)'
        BY <1>2, <3>1, <4>1
      <4> QED BY <3>2, <4>1, <4>2 DEF OrdersBefore
    <3> QED BY <3>3, <3>4
  <2>2. CASE results # <<>> /\ \A j \in 1..(i+1)-1 : ~ Answers(j)
    <3>1. ~ Answers(1)
      BY <1>1, <2>2
    <3>2. \A j \in 1..i-1 : ~ Answers(j)'
      <4> TAKE j \in 1..i-1
      <4>1. j \in 1..Len(toClient) - 1 /\ j + 1 \in 1..(i+1)-1
        BY <1>1
      <4> QED BY <1>2, <2>2, <4>1
    <3> QED BY <2>2, <3>1, <3>2 DEF OrdersBefore
  <2> QED BY <1>3, <2>1, <2>2 DEF OrdersBefore
<1>4. ASSUME NEW i \in 1..Len(toClient'), toClient'[i].kind = "rest" PROVE OrdersBefore(i)'
  <2>1. i \in 1..Len(toClient) /\ i + 1 \in 1..Len(toClient) /\ toClient'[i] = toClient[i+1]
    BY <1>1
  <2> QED BY <1>3, <1>4, <2>1 DEF Paired
<1>5. ASSUME toNode # <<>>, toNode[1] = "rest" PROVE OrdersBefore(Len(toClient) + 1)'
  <2>1. OrdersBefore(Len(toClient) + 1)
    BY <1>5 DEF Paired
  <2>2. Len(toClient) \in 1..Len(toClient) /\ Len(toClient') + 1 = Len(toClient)
    BY <1>1
  <2>3. ASSUME NEW i \in 1..Len(toClient), i = Len(toClient), i = Len(toClient')+ 1
        PROVE  OrdersBefore(Len(toClient) + 1)'
    <3>1. OrdersBefore(i)'
      BY <1>3, <2>1, <2>3
    <3> QED BY <2>3, <3>1
  <2> QED BY <2>2, <2>3
<1> QED BY <1>4, <1>5 DEF Paired

\* Batches stay paired while nothing is sent or taken.
LEMMA PairedUnchanged ==
    ASSUME Paired, UNCHANGED <<toNode, toClient, results>>
    PROVE  Paired'
<1>1. ASSUME NEW i, OrdersBefore(i) PROVE OrdersBefore(i)'
  BY <1>1 DEF OrdersBefore, Answers, Limits
<1>2. ASSUME NEW i \in 1..Len(toClient), toClient[i].kind = "rest" PROVE OrdersBefore(i)'
  <2>1. OrdersBefore(i)
    BY <1>2 DEF Paired
  <2> QED BY <1>1, <2>1
<1>3. ASSUME toNode # <<>>, toNode[1] = "rest" PROVE OrdersBefore(Len(toClient) + 1)'
  <2>1. PICK i : i = Len(toClient) + 1
    OBVIOUS
  <2>2. OrdersBefore(i)
    BY <1>3, <2>1 DEF Paired
  <2>3. OrdersBefore(i)'
    BY <1>1, <2>2
  <2> QED BY <2>1, <2>3
<1> QED BY <1>2, <1>3 DEF Paired

\* What is removed is gone from the orders of the node after a message is taken too.
LEMMA TailKeepsGone ==
    ASSUME BookType, CancelledAreGone, toClient # <<>>, toClient' = Tail(toClient),
           UNCHANGED <<created, node>>
    PROVE  /\ \A i \in 1..Len(toClient') : toClient'[i].kind = "cancel" =>
                   toClient'[i].order \in created \ DOMAIN node
           /\ UNCHANGED cancelBatchIDs => CancelledAreGone'
<1>1. \A i \in 1..Len(toClient') : i + 1 \in 1..Len(toClient) /\ toClient'[i] = toClient[i+1]
  BY TailType
<1>2. \A i \in 1..Len(toClient') : toClient'[i].kind = "cancel" =>
          toClient'[i].order \in created \ DOMAIN node
  BY <1>1 DEF CancelledAreGone
<1> QED BY <1>2 DEF CancelledAreGone

\* No orders are on the way after a message is taken: none were behind it.
LEMMA TailNone ==
    ASSUME BookType, toClient # <<>>, toClient' = Tail(toClient),
           \A i \in 1..Len(toClient') : ~ Limits(i)'
    PROVE  \A i \in 2..Len(toClient) : ~ Limits(i)
<1>1. \A i \in 2..Len(toClient) : /\ i - 1 \in 1..Len(toClient') /\ (i-1) + 1 = i
                                 /\ toClient'[i-1] = toClient[(i-1)+1]
  BY TailType
<1> QED BY <1>1 DEF Limits

\* Answers with no change behind them stay so when the first message is taken.
LEMMA TailKeepsAnswers ==
    ASSUME BookType, AnswersAreCurrent, toClient # <<>>, toClient' = Tail(toClient),
           UNCHANGED node
    PROVE  AnswersAreCurrent'
<1> SUFFICES ASSUME NEW i \in 1..Len(toClient'), Limits(i)',
                    \A j \in i+1..Len(toClient') : toClient'[j].kind # "change"
             PROVE  IsCurrent(toClient[i])'
  BY DEF AnswersAreCurrent
<1>1. i + 1 \in 1..Len(toClient) /\ toClient'[i] = toClient[i+1]
  BY TailType
<1>2. \A j \in (i+1)+1..Len(toClient) : toClient[j].kind # "change"
  <2>1. \A j \in (i+1)+1..Len(toClient) :
           /\ j - 1 \in 1..Len(toClient) - 1 /\ j - 1 \in i+1..Len(toClient')
           /\ (j-1) + 1 = j /\ toClient'[j-1] = toClient[(j-1)+1]
    BY TailType
  <2> QED BY <2>1
<1>3. IsCurrent(toClient[i+1])
  BY <1>1, <1>2 DEF Limits, AnswersAreCurrent
<1> QED BY <1>1, <1>3 DEF IsCurrent

\* If the node will be asked, it will be after a message is taken that is no change.
LEMMA TailKeepsAsked ==
    ASSUME BookType, toClient # <<>>, toClient' = Tail(toClient), toClient[1].kind # "change",
           UNCHANGED <<toNode, dispatchSubTimeout>>
    PROVE  WillAsk => WillAsk'
<1>1. ASSUME NEW i \in 1..Len(toClient), toClient[i].kind = "change"
      PROVE  \E j \in 1..Len(toClient') : toClient'[j].kind = "change"
  <2>1. i # 1
    BY <1>1
  <2>2. i - 1 \in 1..Len(toClient') /\ toClient'[i-1] = toClient[(i-1)+1] /\ (i-1)+1 = i
    BY <2>1, TailType
  <2> QED BY <1>1, <2>2
<1> QED BY <1>1 DEF WillAsk

\* Taking a message that brings no orders loses nothing.
LEMMA TailKeepsLast ==
    ASSUME BookType, LastIsCurrent, toClient # <<>>, toClient' = Tail(toClient),
           toClient[1].kind # "change", ~ Limits(1),
           UNCHANGED <<toNode, dispatchSubTimeout, node, results, marketLimitOrders, lost>>
    PROVE  LastIsCurrent'
<1> SUFFICES ASSUME ~ lost, ~ WillAsk', \A i \in 1..Len(toClient') : ~ Limits(i)'
             PROVE  /\ results # <<>> => IsCurrent(results[Len(results)])
                    /\ results = <<>> => marketLimitOrders \in Listings(node)
  BY DEF LastIsCurrent, IsCurrent
<1>1. ~ WillAsk
  BY TailKeepsAsked
<1>2. \A i \in 1..Len(toClient) : i = 1 \/ i \in 2..Len(toClient)
  BY TailType
<1>3. \A i \in 1..Len(toClient) : ~ Limits(i)
  BY <1>2, TailNone
<1> QED BY <1>1, <1>3 DEF LastIsCurrent

\* What the node tells and does not answer comes behind everything.
LEMMA ChangeKeeps ==
    ASSUME BookInv, NEW told \in Seq(Messages), toClient' = toClient \o told,
           \E i \in 1..Len(told) : told[i].kind = "change",
           \A i \in 1..Len(told) :
               /\ told[i].kind \notin {"limits", "rest"}
               /\ told[i].kind = "cancel" => told[i].order \in created' \ DOMAIN node',
           created' \subseteq Orders, node' \in Books, DOMAIN node' \subseteq created',
           created \ DOMAIN node \subseteq created' \ DOMAIN node', changes' \in Nat,
           UNCHANGED <<toNode, actionVars, marketLimitOrders>>
    PROVE  BookInv'
<1>0. PICK m \in Nat, n \in Nat : m = Len(toClient) /\ n = Len(told)
  <2>1. Len(toClient) \in Nat /\ Len(told) \in Nat
    BY DEF BookInv, BookType
  <2> QED BY <2>1, Zenon
<1>1. /\ toClient \in Seq(Messages) /\ m \in Nat /\ n \in Nat /\ toClient' \in Seq(Messages)
      /\ Len(toClient') = m + n
      /\ \A i \in 1..m : toClient'[i] = toClient[i]
      /\ \A i \in m+1..m+n : i - m \in 1..n /\ toClient'[i] = told[i-m]
      /\ \A i \in 1..n : i + m \in m+1..m+n /\ toClient'[i+m] = told[i]
  BY <1>0 DEF BookInv, BookType
<1>2. UNCHANGED <<results, dispatchSubTimeout, dispatchCancelTimeout, cancelBatchIDs, lost>>
  BY DEF actionVars, removalVars, askVars
<1>3. BookType'
  BY <1>1, <1>2 DEF BookInv, BookType
<1>4. WillAsk'
  <2>1. PICK i \in 1..n : told[i].kind = "change"
    BY <1>0
  <2>2. i + m \in m+1..m+n /\ toClient'[i+m].kind = "change"
    BY <1>1, <2>1
  <2>3. i + m \in 1..m+n
    BY <2>2
  <2> QED BY <1>1, <2>2, <2>3 DEF WillAsk
<1>5. CancelledAreGone'
  <2>1. ASSUME NEW i \in 1..m+n, toClient'[i].kind = "cancel"
        PROVE  toClient'[i].order \in created' \ DOMAIN node'
    <3>1. CASE i \in 1..m
      BY <1>0, <1>1, <2>1, <3>1 DEF BookInv, CancelledAreGone
    <3>2. CASE i \in m+1..m+n
      BY <1>0, <1>1, <2>1, <3>2
    <3> QED BY <1>1, <3>1, <3>2
  <2>2. cancelBatchIDs \subseteq created \ DOMAIN node
    BY DEF BookInv, CancelledAreGone
  <2> QED BY <1>1, <1>2, <2>1, <2>2 DEF CancelledAreGone
<1>6. Paired'
  <2>1. ASSUME NEW i \in 1..m+1, OrdersBefore(i) PROVE OrdersBefore(i)'
    <3>1. i \in Nat /\ \A j \in 1..i-1 : toClient'[j].kind = toClient[j].kind
      <4>1. i \in Nat /\ \A j \in 1..i-1 : j \in 1..m
        OBVIOUS
      <4> QED BY <1>1, <4>1
    <3> QED BY <1>2, <2>1, <3>1, OrdersBeforeKept
  <2>2. ASSUME NEW i \in 1..Len(toClient'), toClient'[i].kind = "rest" PROVE OrdersBefore(i)'
    <3>1. CASE i \in 1..m
      <4>1. OrdersBefore(i) /\ i \in 1..m+1
        BY <1>0, <1>1, <2>2, <3>1 DEF BookInv, Paired
      <4> QED BY <2>1, <4>1
    <3>2. CASE i \in m+1..m+n
      BY <1>0, <1>1, <2>2, <3>2
    <3> QED BY <1>1, <3>1, <3>2
  <2>3. ASSUME OrdersBefore(m+1)' PROVE OrdersBefore(m+n+1)'
    <3>1. \A j \in m+1..m+n : ~ Answers(j)'
      BY <1>0, <1>1 DEF Answers
    <3>2. CASE \E k \in 1..(m+1)-1 : Limits(k)' /\ \A j \in k+1..(m+1)-1 : ~ Answers(j)'
      <4>1. PICK k \in 1..m : Limits(k)' /\ \A j \in k+1..m : ~ Answers(j)'
        BY <1>1, <3>2
      <4>2. k \in 1..(m+n+1)-1 /\ \A j \in k+1..(m+n+1)-1 : ~ Answers(j)'
        BY <1>1, <3>1, <4>1
      <4> QED BY <4>1, <4>2 DEF OrdersBefore
    <3>3. CASE results' # <<>> /\ \A j \in 1..(m+1)-1 : ~ Answers(j)'
      <4>1. \A j \in 1..(m+n+1)-1 : ~ Answers(j)'
        BY <1>1, <3>1, <3>3
      <4> QED BY <3>3, <4>1 DEF OrdersBefore
    <3> QED BY <2>3, <3>2, <3>3 DEF OrdersBefore
  <2>4. m + 1 \in 1..m+1
    BY <1>1
  <2>5. toNode # <<>> /\ toNode[1] = "rest" => OrdersBefore(m+1)
    BY <1>0 DEF BookInv, Paired
  <2>6. toNode' # <<>> /\ toNode'[1] = "rest" => OrdersBefore(m+n+1)'
    BY <2>1, <2>3, <2>4, <2>5
  <2> QED BY <1>1, <2>2, <2>6 DEF BookInv, Paired
<1>7. AnswersAreCurrent'
  <2> SUFFICES ASSUME NEW i \in 1..m+n, Limits(i)',
                      \A j \in i+1..m+n : toClient'[j].kind # "change"
               PROVE  FALSE
    BY <1>1 DEF AnswersAreCurrent
  <2>1. PICK k \in 1..n : told[k].kind = "change"
    BY <1>0
  <2>2. k + m \in m+1..m+n /\ toClient'[k+m].kind = "change"
    BY <1>1, <2>1
  <2>3. i \in m+1..m+n
    <3>1. ASSUME i \in 1..m PROVE FALSE
      <4>1. k + m \in i+1..m+n
        BY <3>1
      <4> QED BY <2>2, <4>1
    <3> QED BY <3>1
  <2>4. i - m \in 1..n /\ toClient'[i] = told[i-m]
    BY <1>1, <2>3
  <2> QED BY <1>0, <2>4 DEF Limits
<1> QED BY <1>3, <1>4, <1>5, <1>6, <1>7 DEF BookInv, LastIsCurrent

-----------------------------------------------------------------------------
(* The node.                                                               *)

\* The book of the node: its orders with their amounts.
LEMMA NodeIsBook ==
    ASSUME BookInv
    PROVE  /\ node \in [DOMAIN node -> Nat] /\ DOMAIN node \subseteq created
           /\ created \subseteq Orders /\ changes \in Nat /\ toClient \in Seq(Messages)
BY DEF BookInv, BookType, Books

\* No orders are a book.
LEMMA EmptyIsBook == <<>> \in Books
<1>1. <<>> \in [{} -> Nat] /\ {} \in SUBSET Orders
  OBVIOUS
<1> QED BY <1>1 DEF Books

\* What the node answers is a part of its orders.
LEMMA ListingIsPart ==
    ASSUME NEW orders \in Books, NEW listed \in Listings(orders)
    PROVE  /\ listed \in Books /\ DOMAIN listed \subseteq DOMAIN orders
           /\ listed \in [DOMAIN listed -> Nat]
<1>1. PICK ids \in SUBSET DOMAIN orders : listed = Restrict(orders, ids)
  BY DEF Listings
<1>2. listed = [o \in ids |-> orders[o]] /\ DOMAIN listed = ids
  BY <1>1 DEF Restrict
<1>3. orders \in [DOMAIN orders -> Nat] /\ DOMAIN orders \subseteq Orders
  BY DEF Books
<1>4. listed \in [ids -> Nat] /\ ids \in SUBSET Orders
  BY <1>2, <1>3
<1> QED BY <1>2, <1>4 DEF Books

\* One notification comes behind everything.
LEMMA ChangeTold ==
    ASSUME BookInv, toClient' = Append(toClient, Change),
           created' \subseteq Orders, node' \in Books, DOMAIN node' \subseteq created',
           created \ DOMAIN node \subseteq created' \ DOMAIN node', changes' \in Nat,
           UNCHANGED <<toNode, actionVars, marketLimitOrders>>
    PROVE  BookInv'
<1>1. Change \in Messages /\ Change.kind = "change"
  BY DEF Change, Messages
<1>2. PICK told \in Seq(Messages) : told = <<Change>>
  <2>1. <<Change>> \in Seq(Messages)
    BY <1>1
  <2> QED BY <2>1, Zenon
<1>3. /\ Len(told) = 1 /\ told[1].kind = "change"
  BY <1>1, <1>2
<1>4. toClient' = toClient \o told
  BY <1>1, <1>2, NodeIsBook
<1>5. \E i \in 1..Len(told) : told[i].kind = "change"
  BY <1>3
<1>6. \A i \in 1..Len(told) :
         /\ told[i].kind \notin {"limits", "rest"}
         /\ told[i].kind = "cancel" => told[i].order \in created' \ DOMAIN node'
  BY <1>3
<1> QED BY <1>4, <1>5, <1>6, ChangeKeeps

\* An order is made.
LEMMA CreateKeeps == BookInv /\ Create => BookInv'
<1> SUFFICES ASSUME BookInv, Create PROVE BookInv'
  OBVIOUS
<1>0. PICK o \in Orders \ created : \E amount \in 1..Terms[o].amount :
         /\ created' = created \cup {o}
         /\ node' = [p \in DOMAIN node \cup {o} |-> IF p = o THEN amount ELSE node[p]]
         /\ toClient' = Append(toClient, Change)
         /\ UNCHANGED <<toNode, actionVars, marketLimitOrders, bookVars>>
  BY DEF Create
<1>1. PICK amount \in 1..Terms[o].amount :
         /\ created' = created \cup {o}
         /\ node' = [p \in DOMAIN node \cup {o} |-> IF p = o THEN amount ELSE node[p]]
         /\ toClient' = Append(toClient, Change)
         /\ UNCHANGED <<toNode, actionVars, marketLimitOrders, bookVars>>
  BY <1>0
<1>2. changes' \in Nat
  BY NodeIsBook DEF Create
<1>3. node' \in [DOMAIN node \cup {o} -> Nat] /\ DOMAIN node' = DOMAIN node \cup {o}
  BY <1>1, NodeIsBook, OrderBookAssumption DEF OrderBookAssumption
<1>4. node' \in Books /\ DOMAIN node' \subseteq created' /\ created' \subseteq Orders
      /\ created \ DOMAIN node \subseteq created' \ DOMAIN node'
  BY <1>1, <1>3, NodeIsBook DEF Books
<1> QED BY <1>1, <1>2, <1>4, ChangeTold

\* An order is filled in part.
LEMMA FillKeeps == BookInv /\ Fill => BookInv'
<1> SUFFICES ASSUME BookInv, Fill PROVE BookInv'
  OBVIOUS
<1>1. PICK o \in DOMAIN node : \E amount \in 1..(node[o] - 1) :
         /\ node' = [node EXCEPT ![o] = amount]
         /\ toClient' = Append(toClient, Change)
         /\ UNCHANGED <<created, toNode, actionVars, marketLimitOrders, bookVars>>
  BY DEF Fill
<1>2. PICK amount \in 1..(node[o] - 1) :
         /\ node' = [node EXCEPT ![o] = amount]
         /\ toClient' = Append(toClient, Change)
         /\ UNCHANGED <<created, toNode, actionVars, marketLimitOrders, bookVars>>
  BY <1>1
<1>3. changes' \in Nat
  BY NodeIsBook DEF Fill
<1>4. node' \in [DOMAIN node -> Nat] /\ DOMAIN node' = DOMAIN node
  <2>1. node[o] \in Nat
    BY NodeIsBook
  <2>2. amount \in Nat
    BY <2>1
  <2> QED BY <1>2, <2>2, NodeIsBook
<1>5. node' \in Books /\ DOMAIN node' \subseteq created' /\ created' \subseteq Orders
      /\ created \ DOMAIN node \subseteq created' \ DOMAIN node'
  BY <1>2, <1>4, NodeIsBook DEF Books
<1> QED BY <1>2, <1>3, <1>5, ChangeTold

\* An order is removed; the client is told of it once or twice.
LEMMA CancelKeeps == BookInv /\ Cancel => BookInv'
<1> SUFFICES ASSUME BookInv, Cancel PROVE BookInv'
  OBVIOUS
<1>1. PICK o \in DOMAIN node :
         /\ node' = Restrict(node, DOMAIN node \ {o})
         /\ \E told \in {<<Change>>, <<[kind |-> "cancel", order |-> o], Change>>,
                         <<Change, [kind |-> "cancel", order |-> o]>>} :
                toClient' = toClient \o told
         /\ UNCHANGED <<created, toNode, actionVars, marketLimitOrders, bookVars>>
  BY DEF Cancel
<1>2. PICK told \in {<<Change>>, <<[kind |-> "cancel", order |-> o], Change>>,
                     <<Change, [kind |-> "cancel", order |-> o]>>} :
         toClient' = toClient \o told
  BY <1>1
<1>3. changes' \in Nat
  BY NodeIsBook DEF Cancel
<1>4. /\ node' \in [DOMAIN node \ {o} -> Nat] /\ DOMAIN node' = DOMAIN node \ {o}
  BY <1>1, NodeIsBook DEF Restrict
<1>5. /\ node' \in Books /\ DOMAIN node' \subseteq created' /\ created' \subseteq Orders
      /\ created \ DOMAIN node \subseteq created' \ DOMAIN node'
      /\ o \in Orders /\ o \in created' \ DOMAIN node'
  BY <1>1, <1>4, NodeIsBook DEF Books
<1>6. Change \in Messages /\ Change.kind = "change"
  BY DEF Change, Messages
<1>7. PICK removed \in Messages : removed = [kind |-> "cancel", order |-> o]
  BY <1>5 DEF Messages
<1>8. removed.kind = "cancel" /\ removed.order = o
  BY <1>7
<1>9. /\ told \in Seq(Messages) /\ \E i \in 1..Len(told) : told[i].kind = "change"
      /\ \A i \in 1..Len(told) :
            told[i].kind \in {"change", "cancel"}
            /\ (told[i].kind = "cancel" => told[i].order = o)
  <2>1. CASE told = <<Change>>
    BY <1>6, <2>1
  <2>2. CASE told = <<removed, Change>>
    BY <1>6, <1>8, <2>2
  <2>3. CASE told = <<Change, removed>>
    BY <1>6, <1>8, <2>3
  <2> QED BY <1>2, <1>7, <2>1, <2>2, <2>3
<1> QED BY <1>1, <1>2, <1>3, <1>5, <1>9, ChangeKeeps

\* The node answers: its orders as they are now, or the rest of a batch.
LEMMA AnswerKeeps == BookInv /\ Answer => BookInv'
<1> SUFFICES ASSUME BookInv, Answer PROVE BookInv'
  OBVIOUS
<1>0. PICK m \in Nat : m = Len(toClient)
  <2>1. Len(toClient) \in Nat
    BY DEF BookInv, BookType
  <2> QED BY <2>1, Zenon
<1>1. PICK failed \in BOOLEAN, orders \in Listings(node) :
         toClient' = Append(toClient,
               IF toNode[1] = "limits"
               THEN [kind |-> "limits", failed |-> failed,
                     orders |-> IF failed THEN <<>> ELSE orders]
               ELSE [kind |-> "rest", failed |-> failed])
  BY DEF Answer
<1>2. /\ toNode # <<>> /\ toNode' = Tail(toNode)
      /\ UNCHANGED <<created, node, changes, results, dispatchSubTimeout, lost,
                     dispatchCancelTimeout, cancelBatchIDs, marketLimitOrders>>
  BY DEF Answer, nodeVars, removalVars, askVars
<1>3. /\ toNode[1] \in {"limits", "rest"} /\ toNode' \in Seq({"limits", "rest"})
      /\ Len(toNode) \in Nat \ {0} /\ Len(toNode') = Len(toNode) - 1
      /\ \A i \in 1..Len(toNode) - 1 : toNode'[i] = toNode[i+1]
  BY <1>2 DEF BookInv, BookType
<1>4. PICK answer \in Messages :
         /\ toClient' = Append(toClient, answer) /\ answer.kind = toNode[1]
         /\ answer.kind = "limits" => IsCurrent(answer)
  <2>1. CASE toNode[1] = "limits"
    <3>1. PICK sent \in Books : sent = IF failed THEN <<>> ELSE orders
      <4>1. node \in Books
        BY DEF BookInv, BookType
      <4>2. orders \in Books
        BY <4>1, ListingIsPart
      <4>3. <<>> \in Books
        BY EmptyIsBook
      <4> QED BY <4>2, <4>3
    <3>2. PICK a \in Messages : a = [kind |-> "limits", failed |-> failed, orders |-> sent]
      BY <3>1 DEF Messages
    <3>3. a.kind = "limits" /\ a.failed = failed /\ a.orders = sent
      BY <3>2
    <3>4. IsCurrent(a)
      BY <3>1, <3>3 DEF IsCurrent
    <3>5. toClient' = Append(toClient, a)
      BY <1>1, <2>1, <3>1, <3>2
    <3> QED BY <2>1, <3>3, <3>4, <3>5
  <2>2. CASE toNode[1] = "rest"
    <3>1. PICK a \in Messages : a = [kind |-> "rest", failed |-> failed]
      BY DEF Messages
    <3>2. a.kind = "rest" /\ toClient' = Append(toClient, a)
      BY <1>1, <2>2, <3>1
    <3> QED BY <2>2, <3>2
  <2> QED BY <1>3, <2>1, <2>2
<1>5. /\ toClient' \in Seq(Messages) /\ Len(toClient') = m + 1 /\ toClient'[m+1] = answer
      /\ \A i \in 1..m : toClient'[i] = toClient[i]
  BY <1>0, <1>4 DEF BookInv, BookType
<1>6. BookType'
  BY <1>2, <1>3, <1>5 DEF BookInv, BookType
<1>7. CancelledAreGone'
  <2>1. ASSUME NEW i \in 1..m+1, toClient'[i].kind = "cancel"
        PROVE  toClient'[i].order \in created \ DOMAIN node
    <3>1. i # m + 1
      BY <1>3, <1>4, <1>5, <2>1
    <3> QED BY <1>0, <1>5, <2>1, <3>1 DEF BookInv, CancelledAreGone
  <2> QED BY <1>2, <1>5, <2>1 DEF BookInv, CancelledAreGone
<1>8. Paired'
  <2>1. ASSUME NEW i \in 1..m+1, OrdersBefore(i) PROVE OrdersBefore(i)'
    <3>1. i \in Nat /\ \A j \in 1..i-1 : toClient'[j].kind = toClient[j].kind
      BY <1>5
    <3> QED BY <1>2, <2>1, <3>1, OrdersBeforeKept
  <2>2. ASSUME NEW i \in 1..m+1, toClient'[i].kind = "rest" PROVE OrdersBefore(i)'
    <3>1. CASE i \in 1..m
      <4>1. OrdersBefore(i)
        BY <1>0, <1>5, <2>2, <3>1 DEF BookInv, Paired
      <4> QED BY <2>1, <4>1
    <3>2. CASE i = m + 1
      <4>1. OrdersBefore(m + 1)
        BY <1>0, <1>2, <1>4, <1>5, <2>2, <3>2 DEF BookInv, Paired
      <4> QED BY <2>1, <3>2, <4>1
    <3> QED BY <3>1, <3>2
  <2>3. ASSUME toNode' # <<>>, toNode'[1] = "rest" PROVE OrdersBefore(m + 2)'
    <3>1. 2 \in 2..Len(toNode) /\ toNode[2] = "rest"
      BY <1>3, <2>3
    <3>2. toNode[2-1] = "limits"
      BY <3>1 DEF BookInv, Paired
    <3>3. Limits(m + 1)'
      BY <1>4, <1>5, <3>2 DEF Limits
    <3>4. m + 1 \in 1..(m+2)-1 /\ \A j \in (m+1)+1..(m+2)-1 : ~ Answers(j)'
      OBVIOUS
    <3> QED BY <3>3, <3>4 DEF OrdersBefore
  <2>4. ASSUME NEW i \in 2..Len(toNode'), toNode'[i] = "rest" PROVE toNode'[i-1] = "limits"
    <3>1. i + 1 \in 2..Len(toNode) /\ i \in 1..Len(toNode) - 1 /\ i - 1 \in 1..Len(toNode) - 1
      BY <1>3
    <3>2. toNode[i+1] = "rest" /\ toNode'[i-1] = toNode[(i-1)+1]
      BY <1>3, <2>4, <3>1
    <3>3. toNode[(i+1)-1] = "limits"
      BY <3>1, <3>2 DEF BookInv, Paired
    <3> QED BY <3>2, <3>3
  <2>5. Len(toClient') + 1 = m + 2
    BY <1>5
  <2> QED BY <1>5, <2>2, <2>3, <2>4, <2>5 DEF Paired
<1>9. AnswersAreCurrent'
  <2> SUFFICES ASSUME NEW i \in 1..m+1, Limits(i)',
                      \A j \in i+1..m+1 : toClient'[j].kind # "change"
               PROVE  IsCurrent(toClient'[i])
    BY <1>2, <1>5 DEF AnswersAreCurrent, IsCurrent
  <2>1. CASE i = m + 1
    BY <1>4, <1>5, <2>1 DEF Limits
  <2>2. CASE i \in 1..m
    <3>1. toClient'[i] = toClient[i] /\ \A j \in i+1..m : toClient[j].kind # "change"
      BY <1>5, <2>2
    <3> QED BY <1>0, <2>2, <3>1 DEF BookInv, AnswersAreCurrent, Limits
  <2> QED BY <2>1, <2>2
<1>10. LastIsCurrent'
  <2> SUFFICES ASSUME ~ lost, ~ WillAsk', \A i \in 1..m+1 : ~ Limits(i)'
               PROVE  /\ results # <<>> => IsCurrent(results[Len(results)])
                      /\ results = <<>> => marketLimitOrders \in Listings(node)
    BY <1>2, <1>5 DEF LastIsCurrent, IsCurrent
  <2>1. m + 1 \in 1..m+1
    OBVIOUS
  <2>2. answer.kind = "rest"
    BY <1>3, <1>4, <1>5, <2>1 DEF Limits
  <2>3. \A i \in 1..m : ~ Limits(i)
    BY <1>5 DEF Limits
  <2>4. \A i \in 1..Len(toNode) : toNode[i] = "limits" =>
             \E j \in 1..Len(toNode') : toNode'[j] = "limits"
    <3> TAKE i \in 1..Len(toNode)
    <3> HAVE toNode[i] = "limits"
    <3>1. i # 1
      BY <1>4, <2>2
    <3>2. i - 1 \in 1..Len(toNode') /\ toNode'[i-1] = toNode[(i-1)+1] /\ (i-1)+1 = i
      BY <1>3, <3>1
    <3> QED BY <3>2
  <2>5. \A i \in 1..m : toClient'[i].kind = toClient[i].kind /\ i \in 1..m+1
    BY <1>5
  <2>6. ~ WillAsk
    BY <1>0, <1>2, <1>5, <2>4, <2>5 DEF WillAsk
  <2> QED BY <1>0, <2>3, <2>6 DEF BookInv, LastIsCurrent
<1> QED BY <1>6, <1>7, <1>8, <1>9, <1>10 DEF BookInv

-----------------------------------------------------------------------------
(* The client.                                                             *)

\* A notification is heard: the timer that it starts stands for it.
LEMMA SubscriptionKeeps == BookInv /\ changeNotified => BookInv'
<1> SUFFICES ASSUME BookInv, changeNotified PROVE BookInv'
  OBVIOUS
<1>1. /\ toClient # <<>> /\ toClient[1].kind = "change" /\ toClient' = Tail(toClient)
      /\ dispatchSubTimeout' = TRUE
      /\ UNCHANGED <<created, node, changes, toNode, results, lost, dispatchCancelTimeout,
                     cancelBatchIDs, marketLimitOrders>>
  BY DEF changeNotified, Heard, nodeVars, removalVars
<1>2. /\ toClient' \in Seq(Messages)
      /\ Len(toClient) \in Nat \ {0} /\ Len(toClient') = Len(toClient) - 1
      /\ \A i \in 1..Len(toClient) - 1 : toClient'[i] = toClient[i+1]
  BY <1>1, TailType DEF BookInv
<1>3. BookType'
  BY <1>1, <1>2 DEF BookInv, BookType
<1>4. Paired'
  BY <1>1, TailKeepsPaired DEF BookInv, Limits, Answers
<1>5. LastIsCurrent'
  BY <1>1 DEF LastIsCurrent, WillAsk
<1>6. CancelledAreGone'
  BY <1>1, <1>2, TailKeepsGone DEF BookInv
<1>7. AnswersAreCurrent'
  BY <1>1, TailKeepsAnswers DEF BookInv
<1> QED BY <1>3, <1>4, <1>5, <1>6, <1>7 DEF BookInv

\* A batch is asked for, whatever happens to the timers: nothing is lost.
LEMMA AskedKeeps ==
    ASSUME BookInv, toNode' = toNode \o Batch, lost' = FALSE,
           dispatchSubTimeout' \in BOOLEAN, dispatchCancelTimeout' \in BOOLEAN,
           UNCHANGED <<created, node, changes, toClient, results, cancelBatchIDs,
                       marketLimitOrders>>
    PROVE  BookInv'
<1>1. /\ toNode' = toNode \o Batch
      /\ UNCHANGED <<created, node, changes, toClient, results, cancelBatchIDs,
                     marketLimitOrders>>
  OBVIOUS
<1>2. PICK n \in Nat : n = Len(toNode)
  <2>1. Len(toNode) \in Nat
    BY DEF BookInv, BookType
  <2> QED BY <2>1, Zenon
<1>3. /\ toNode' \in Seq({"limits", "rest"}) /\ Len(toNode') = n + 2
      /\ \A i \in 1..n : toNode'[i] = toNode[i]
      /\ toNode'[n+1] = "limits" /\ toNode'[n+2] = "rest"
  BY <1>1, <1>2 DEF BookInv, BookType, Batch
<1>4. BookType'
  BY <1>1, <1>3 DEF BookInv, BookType
<1>5. LastIsCurrent'
  <2>1. n + 1 \in 1..n+2
    OBVIOUS
  <2> QED BY <1>3, <2>1 DEF LastIsCurrent, WillAsk
<1>6. CancelledAreGone'
  BY <1>1 DEF BookInv, CancelledAreGone
<1>7. Paired'
  <2>1. ASSUME NEW i \in Nat, OrdersBefore(i) PROVE OrdersBefore(i)'
    BY <1>1, <2>1, OrdersBeforeKept
  <2>2. ASSUME NEW i \in 1..Len(toClient), toClient[i].kind = "rest" PROVE OrdersBefore(i)'
    <3>1. OrdersBefore(i) /\ i \in Nat
      BY <2>2 DEF BookInv, Paired
    <3> QED BY <2>1, <3>1
  <2>3. ASSUME toNode' # <<>>, toNode'[1] = "rest" PROVE OrdersBefore(Len(toClient) + 1)'
    <3>1. n # 0 /\ toNode # <<>> /\ toNode[1] = "rest"
      BY <1>2, <1>3, <2>3 DEF BookInv, BookType
    <3>2. OrdersBefore(Len(toClient) + 1)
      BY <3>1 DEF BookInv, Paired
    <3>3. PICK i \in Nat : i = Len(toClient) + 1
      BY DEF BookInv, BookType
    <3>4. OrdersBefore(i)'
      BY <2>1, <3>2, <3>3
    <3> QED BY <1>1, <3>3, <3>4
  <2>4. ASSUME NEW i \in 2..n+2, toNode'[i] = "rest" PROVE toNode'[i-1] = "limits"
    <3>1. CASE i \in 2..n
      <4>1. toNode[i-1] = "limits" /\ i - 1 \in 1..n
        BY <1>2, <1>3, <2>4, <3>1 DEF BookInv, Paired
      <4> QED BY <1>3, <4>1
    <3>2. CASE i = n + 1
      BY <1>3, <2>4, <3>2
    <3>3. CASE i = n + 2
      BY <1>3, <3>3
    <3>4. i \in 2..n \/ i = n + 1 \/ i = n + 2
      OBVIOUS
    <3> QED BY <3>1, <3>2, <3>3, <3>4
  <2>5. UNCHANGED Len(toClient)
    BY <1>1
  <2> QED BY <1>1, <1>3, <2>2, <2>3, <2>4, <2>5 DEF Paired
<1>8. AnswersAreCurrent'
  BY <1>1 DEF BookInv, AnswersAreCurrent, IsCurrent, Limits
<1> QED BY <1>4, <1>5, <1>6, <1>7, <1>8 DEF BookInv

\* The timer fires: the node is asked.
LEMMA AskBatchKeeps == BookInv /\ askBatch => BookInv'
<1> SUFFICES ASSUME BookInv, askBatch PROVE BookInv'
  OBVIOUS
<1>1. dispatchSubTimeout' \in BOOLEAN /\ dispatchCancelTimeout' \in BOOLEAN
  BY DEF askBatch, removalVars, BookInv, BookType
<1> QED BY <1>1, AskedKeeps DEF askBatch, nodeVars, removalVars

\* A later subscription asks too, and clears the timers.
LEMMA SubscribeKeeps == BookInv /\ marketSubscribed => BookInv'
<1> SUFFICES ASSUME BookInv, marketSubscribed PROVE BookInv'
  OBVIOUS
<1> QED BY AskedKeeps DEF marketSubscribed, nodeVars

\* The timers are cleared: a batch that was due is lost, unless one follows anyway.
LEMMA ClearedKeeps == BookInv /\ batchTimeoutsCleared => BookInv'
<1> SUFFICES ASSUME BookInv, batchTimeoutsCleared PROVE BookInv'
  OBVIOUS
<1>1. /\ dispatchSubTimeout' = FALSE /\ dispatchCancelTimeout' = FALSE
      /\ lost' = (lost \/ (dispatchSubTimeout /\ NoneFollows(toNode, toClient)))
      /\ UNCHANGED <<created, node, changes, toNode, toClient, results, cancelBatchIDs,
                     marketLimitOrders>>
  BY DEF batchTimeoutsCleared, nodeVars
<1>2. lost' \in BOOLEAN
  BY <1>1
<1>3. BookType'
  BY <1>1, <1>2 DEF BookInv, BookType
<1>4. Paired'
  BY <1>1, PairedUnchanged DEF BookInv
<1>5. AnswersAreCurrent' /\ CancelledAreGone'
  BY <1>1 DEF BookInv, AnswersAreCurrent, IsCurrent, Limits, CancelledAreGone
<1>6. LastIsCurrent'
  <2> SUFFICES ASSUME ~ lost', ~ WillAsk', \A i \in 1..Len(toClient) : ~ Limits(i)'
               PROVE  /\ results # <<>> => IsCurrent(results[Len(results)])
                      /\ results = <<>> => marketLimitOrders \in Listings(node)
    BY <1>1 DEF LastIsCurrent, IsCurrent
  <2>1. \A i \in 1..Len(toClient) : ~ Limits(i)
    BY <1>1 DEF Limits
  <2>2. \A i \in 1..Len(toNode) : toNode[i] # "limits"
    BY <1>1 DEF WillAsk
  <2>3. NoneFollows(toNode, toClient)
    <3>1. DOMAIN toNode = 1..Len(toNode) /\ DOMAIN toClient = 1..Len(toClient)
      BY DEF BookInv, BookType
    <3> QED BY <2>1, <2>2, <3>1 DEF NoneFollows, Limits
  <2>4. ~ lost /\ ~ dispatchSubTimeout
    BY <1>1, <2>3
  <2>5. ~ WillAsk
    BY <1>1, <2>4 DEF WillAsk
  <2> QED BY <2>1, <2>4, <2>5 DEF BookInv, LastIsCurrent
<1> QED BY <1>3, <1>4, <1>5, <1>6 DEF BookInv

\* The orders of a batch are kept for its other answers.
LEMMA LimitsAnsweredKeeps == BookInv /\ limitsAnswered => BookInv'
<1> SUFFICES ASSUME BookInv, limitsAnswered PROVE BookInv'
  OBVIOUS
<1>1. /\ toClient # <<>> /\ toClient[1].kind = "limits" /\ toClient' = Tail(toClient)
      /\ results' = Append(results, [failed |-> toClient[1].failed,
                                     orders |-> toClient[1].orders])
      /\ UNCHANGED <<created, node, changes, toNode, dispatchSubTimeout, lost,
                     dispatchCancelTimeout, cancelBatchIDs, marketLimitOrders>>
  BY DEF limitsAnswered, Heard, nodeVars, removalVars, askVars
<1>2. /\ toClient[1] \in Messages /\ toClient' \in Seq(Messages)
      /\ Len(toClient) \in Nat \ {0} /\ Len(toClient') = Len(toClient) - 1
      /\ \A i \in 1..Len(toClient) - 1 : toClient'[i] = toClient[i+1]
  BY <1>1, TailType DEF BookInv
<1>3. toClient[1].failed \in BOOLEAN /\ toClient[1].orders \in Books
  BY <1>1, <1>2 DEF Messages, Change
<1>4. PICK kept \in Results :
         /\ results' = Append(results, kept)
         /\ kept.failed = toClient[1].failed /\ kept.orders = toClient[1].orders
  <2>1. PICK kept \in Results : kept = [failed |-> toClient[1].failed,
                                        orders |-> toClient[1].orders]
    BY <1>3 DEF Results
  <2> QED BY <1>1, <2>1
<1>4a. /\ results' \in Seq(Results) /\ results' # <<>>
       /\ results'[Len(results')] = kept
  <2>1. results \in Seq(Results)
    BY DEF BookInv, BookType
  <2> QED BY <1>4, <2>1, LastAppended
<1>5. BookType'
  BY <1>1, <1>2, <1>4a DEF BookInv, BookType
<1>6. Paired'
  BY <1>1, <1>4a, TailKeepsPaired DEF BookInv, Limits, Answers
<1>7. CancelledAreGone'
  BY <1>1, TailKeepsGone DEF BookInv
<1>8. AnswersAreCurrent'
  BY <1>1, TailKeepsAnswers DEF BookInv
<1>9. LastIsCurrent'
  <2> SUFFICES ASSUME ~ WillAsk' PROVE IsCurrent(kept)
    BY <1>1, <1>4a DEF LastIsCurrent, IsCurrent
  <2>1. ~ WillAsk
    BY <1>1, TailKeepsAsked DEF BookInv
  <2>2. 1 \in 1..Len(toClient) /\ Limits(1)
    BY <1>1, <1>2 DEF Limits
  <2>3. \A j \in 1+1..Len(toClient) : toClient[j].kind # "change"
    BY <2>1 DEF WillAsk
  <2>4. IsCurrent(toClient[1])
    BY <2>2, <2>3 DEF BookInv, AnswersAreCurrent
  <2> QED BY <1>4, <2>4 DEF IsCurrent
<1> QED BY <1>5, <1>6, <1>7, <1>8, <1>9 DEF BookInv

\* The removal of an order is heard.
LEMMA CancelHeardKeeps == BookInv /\ cancelLimitOrderSuccess => BookInv'
<1> SUFFICES ASSUME BookInv, cancelLimitOrderSuccess PROVE BookInv'
  OBVIOUS
<1>1. /\ toClient # <<>> /\ toClient[1].kind = "cancel" /\ toClient' = Tail(toClient)
      /\ cancelBatchIDs' = cancelBatchIDs \cup {toClient[1].order}
      /\ dispatchCancelTimeout' = TRUE
      /\ UNCHANGED <<created, node, changes, toNode, results, dispatchSubTimeout, lost,
                     marketLimitOrders>>
  BY DEF cancelLimitOrderSuccess, Heard, nodeVars, askVars
<1>2. /\ toClient' \in Seq(Messages)
      /\ Len(toClient) \in Nat \ {0} /\ Len(toClient') = Len(toClient) - 1
      /\ \A i \in 1..Len(toClient) - 1 : toClient'[i] = toClient[i+1]
  BY <1>1, TailType DEF BookInv
<1>3. toClient[1].order \in created \ DOMAIN node
  <2>1. 1 \in 1..Len(toClient)
    BY <1>2
  <2> QED BY <1>1, <2>1 DEF BookInv, CancelledAreGone
<1>4. CancelledAreGone'
  <2>1. cancelBatchIDs \subseteq created \ DOMAIN node
    BY DEF BookInv, CancelledAreGone
  <2>2. \A i \in 1..Len(toClient') : toClient'[i].kind = "cancel" =>
            toClient'[i].order \in created \ DOMAIN node
    BY <1>1, TailKeepsGone DEF BookInv
  <2> QED BY <1>1, <1>3, <2>1, <2>2 DEF CancelledAreGone
<1>5. BookType'
  BY <1>1, <1>2, <1>3 DEF BookInv, BookType
<1>6. Paired'
  BY <1>1, TailKeepsPaired DEF BookInv, Limits, Answers
<1>7. LastIsCurrent'
  BY <1>1, TailKeepsLast DEF BookInv, Limits
<1>8. AnswersAreCurrent'
  BY <1>1, TailKeepsAnswers DEF BookInv
<1> QED BY <1>4, <1>5, <1>6, <1>7, <1>8 DEF BookInv

\* The last answer of a batch is heard: its first one is there.
LEMMA BatchEnds ==
    ASSUME BookInv, Heard("rest"), results' = Tail(results),
           UNCHANGED <<created, node, changes, toNode, dispatchSubTimeout,
                       dispatchCancelTimeout, cancelBatchIDs>>,
           lost' \in BOOLEAN
    PROVE  /\ results # <<>> /\ results[1] \in Results
           /\ results' = <<>> => results[Len(results)] = results[1]
           /\ results' # <<>> => results'[Len(results')] = results[Len(results)]
           /\ BookType' /\ Paired' /\ AnswersAreCurrent' /\ CancelledAreGone'
           /\ WillAsk => WillAsk'
           /\ (\A i \in 1..Len(toClient') : ~ Limits(i)')
                  => \A i \in 1..Len(toClient) : ~ Limits(i)
<1>1. toClient # <<>> /\ toClient[1].kind = "rest" /\ toClient' = Tail(toClient)
  BY DEF Heard
<1>2. /\ toClient' \in Seq(Messages)
      /\ Len(toClient) \in Nat \ {0} /\ Len(toClient') = Len(toClient) - 1
      /\ \A i \in 1..Len(toClient) - 1 : toClient'[i] = toClient[i+1]
  BY <1>1, TailType DEF BookInv
<1>3. results # <<>>
  <2>1. 1 \in 1..Len(toClient)
    BY <1>2
  <2>2. OrdersBefore(1)
    BY <1>1, <2>1 DEF BookInv, Paired
  <2> QED BY <2>2 DEF OrdersBefore
<1>4. /\ results' \in Seq(Results) /\ results[1] \in Results
      /\ results' = <<>> => results[Len(results)] = results[1]
      /\ results' # <<>> => results'[Len(results')] = results[Len(results)]
  <2>1. results \in Seq(Results)
    BY DEF BookInv, BookType
  <2> QED BY <1>3, <2>1, LastOfTail
<1>5. BookType'
  BY <1>2, <1>4 DEF BookInv, BookType
<1>6. Paired'
  BY <1>1, TailKeepsPaired DEF BookInv, Limits, Answers
<1>7. CancelledAreGone'
  BY <1>1, TailKeepsGone DEF BookInv
<1>8. AnswersAreCurrent'
  BY <1>1, TailKeepsAnswers DEF BookInv
<1>9. WillAsk => WillAsk'
  BY <1>1, TailKeepsAsked DEF BookInv
<1>10. ASSUME \A i \in 1..Len(toClient') : ~ Limits(i)'
       PROVE  \A i \in 1..Len(toClient) : ~ Limits(i)
  <2>1. \A i \in 2..Len(toClient) : ~ Limits(i)
    BY <1>1, <1>10, TailNone DEF BookInv
  <2>2. \A i \in 1..Len(toClient) : i = 1 \/ i \in 2..Len(toClient)
    BY <1>2
  <2>3. ~ Limits(1)
    BY <1>1 DEF Limits
  <2> QED BY <2>1, <2>2, <2>3
<1> QED BY <1>3, <1>4, <1>5, <1>6, <1>7, <1>8, <1>9, <1>10

\* Its orders become those of the store.
LEMMA OrdersTakenKeeps == BookInv /\ restAnswered => BookInv'
<1> SUFFICES ASSUME BookInv, restAnswered PROVE BookInv'
  OBVIOUS
<1>1. /\ Heard("rest") /\ ~ results[1].failed
      /\ marketLimitOrders' = results[1].orders /\ results' = Tail(results)
      /\ UNCHANGED <<created, node, changes, toNode, dispatchSubTimeout, lost,
                     dispatchCancelTimeout, cancelBatchIDs>>
  BY DEF restAnswered, nodeVars, removalVars, askVars
<1>2. lost' \in BOOLEAN
  BY <1>1 DEF BookInv, BookType
<1>3. LastIsCurrent'
  <2> SUFFICES ASSUME ~ lost, ~ WillAsk', \A i \in 1..Len(toClient') : ~ Limits(i)'
               PROVE  /\ results' # <<>> => IsCurrent(results'[Len(results')])
                      /\ results' = <<>> => results[1].orders \in Listings(node)
    BY <1>1 DEF LastIsCurrent, IsCurrent
  <2>1. ~ WillAsk /\ \A i \in 1..Len(toClient) : ~ Limits(i)
    BY <1>1, <1>2, BatchEnds
  <2>2. results # <<>>
    BY <1>1, <1>2, BatchEnds
  <2>3. IsCurrent(results[Len(results)])
    BY <2>1, <2>2 DEF BookInv, LastIsCurrent
  <2>4. CASE results' = <<>>
    <3>1. results[Len(results)] = results[1]
      BY <1>1, <1>2, <2>4, BatchEnds
    <3> QED BY <1>1, <2>3, <2>4, <3>1 DEF IsCurrent
  <2>5. CASE results' # <<>>
    <3>1. results'[Len(results')] = results[Len(results)]
      BY <1>1, <1>2, <2>5, BatchEnds
    <3> QED BY <2>3, <2>5, <3>1
  <2> QED BY <2>4, <2>5
<1>4. BookType' /\ Paired' /\ AnswersAreCurrent' /\ CancelledAreGone'
  BY <1>1, <1>2, BatchEnds
<1> QED BY <1>3, <1>4 DEF BookInv

\* A batch that failed is given up: it is lost unless another one follows.
LEMMA BatchFailedKeeps == BookInv /\ batchFailed => BookInv'
<1> SUFFICES ASSUME BookInv, batchFailed PROVE BookInv'
  OBVIOUS
<1>1. /\ Heard("rest") /\ results' = Tail(results)
      /\ lost' = (lost \/ NoneFollows(toNode, toClient'))
      /\ UNCHANGED <<created, node, changes, toNode, dispatchSubTimeout,
                     dispatchCancelTimeout, cancelBatchIDs, marketLimitOrders>>
  BY DEF batchFailed, nodeVars, removalVars
<1>2. lost' \in BOOLEAN
  BY <1>1
<1>3. BookType' /\ Paired' /\ AnswersAreCurrent' /\ CancelledAreGone'
  BY <1>1, <1>2, BatchEnds
<1>4. LastIsCurrent'
  <2> SUFFICES ASSUME ~ lost', ~ WillAsk', \A i \in 1..Len(toClient') : ~ Limits(i)'
               PROVE  FALSE
    BY DEF LastIsCurrent
  <2>1. \A i \in 1..Len(toNode) : toNode[i] # "limits"
    BY <1>1 DEF WillAsk
  <2>2. DOMAIN toNode = 1..Len(toNode) /\ DOMAIN toClient' = 1..Len(toClient')
    BY <1>1, <1>3 DEF BookType
  <2>3. NoneFollows(toNode, toClient')
    BY <2>1, <2>2 DEF NoneFollows, Limits
  <2> QED BY <1>1, <2>3
<1> QED BY <1>3, <1>4 DEF BookInv

\* The timer of the removals fires: the orders it removes are not the node's.
LEMMA OrdersRemovedKeeps == BookInv /\ onCancelLimitOrderSuccess => BookInv'
<1> SUFFICES ASSUME BookInv, onCancelLimitOrderSuccess PROVE BookInv'
  OBVIOUS
<1>1. /\ marketLimitOrders' = Restrict(marketLimitOrders,
                                       DOMAIN marketLimitOrders \ cancelBatchIDs)
      /\ dispatchCancelTimeout' = FALSE /\ cancelBatchIDs' = {}
      /\ UNCHANGED <<created, node, changes, toNode, toClient, results, dispatchSubTimeout,
                     lost>>
  BY DEF onCancelLimitOrderSuccess, nodeVars, askVars
<1>2. BookType'
  BY <1>1 DEF BookInv, BookType
<1>3. Paired'
  BY <1>1, PairedUnchanged DEF BookInv
<1>4. CancelledAreGone'
  BY <1>1 DEF BookInv, CancelledAreGone
<1>5. AnswersAreCurrent'
  BY <1>1 DEF BookInv, AnswersAreCurrent, IsCurrent, Limits
<1>6. ASSUME marketLimitOrders \in Listings(node) PROVE UNCHANGED marketLimitOrders
  <2>1. node \in Books /\ cancelBatchIDs \cap DOMAIN node = {}
    BY DEF BookInv, BookType, CancelledAreGone
  <2>2. /\ DOMAIN marketLimitOrders \subseteq DOMAIN node
        /\ marketLimitOrders \in [DOMAIN marketLimitOrders -> Nat]
    BY <1>6, <2>1, ListingIsPart
  <2>3. DOMAIN marketLimitOrders \ cancelBatchIDs = DOMAIN marketLimitOrders
    BY <2>1, <2>2
  <2>4. Restrict(marketLimitOrders, DOMAIN marketLimitOrders) = marketLimitOrders
    BY <2>2 DEF Restrict
  <2> QED BY <1>1, <2>3, <2>4
<1>7. LastIsCurrent'
  <2> SUFFICES ASSUME ~ lost, ~ WillAsk', \A i \in 1..Len(toClient) : ~ Limits(i)'
               PROVE  /\ results # <<>> => IsCurrent(results[Len(results)])
                      /\ results = <<>> => marketLimitOrders' \in Listings(node)
    BY <1>1 DEF LastIsCurrent, IsCurrent
  <2>1. ~ WillAsk /\ \A i \in 1..Len(toClient) : ~ Limits(i)
    BY <1>1 DEF WillAsk, Limits
  <2> QED BY <1>6, <2>1 DEF BookInv, LastIsCurrent
<1> QED BY <1>2, <1>3, <1>4, <1>5, <1>7 DEF BookInv

-----------------------------------------------------------------------------
(* The theorems about the order book.                                      *)

\* At first the node is asked for everything.
LEMMA BookInvInit == BookInit => BookInv
<1> SUFFICES ASSUME BookInit PROVE BookInv
  OBVIOUS
<1>1. toNode = <<"limits", "rest">> /\ toClient = <<>> /\ results = <<>>
  BY DEF BookInit, Batch
<1>2. BookType
  <2>1. created \subseteq Orders /\ node \in [created -> UNION {1..Terms[o].amount : o \in created}]
    BY OrderBookAssumption DEF BookInit, OrderBookAssumption
  <2>2. node \in [created -> Nat] /\ DOMAIN node = created
    BY <2>1, OrderBookAssumption DEF OrderBookAssumption
  <2>3. node \in Books
    BY <2>1, <2>2 DEF Books
  <2>4. toNode \in Seq({"limits", "rest"}) /\ toClient \in Seq(Messages)
        /\ results \in Seq(Results)
    BY <1>1
  <2> QED BY <2>1, <2>2, <2>3, <2>4 DEF BookInit, BookType
<1>3. Paired
  BY <1>1 DEF Paired
<1>4. WillAsk
  BY <1>1 DEF WillAsk
<1>5. CancelledAreGone
  BY <1>1 DEF BookInit, CancelledAreGone
<1> QED BY <1>1, <1>2, <1>3, <1>4, <1>5 DEF BookInv, LastIsCurrent, AnswersAreCurrent

\* The invariant is a function of the state.
LEMMA BookInvUnchanged == BookInv /\ UNCHANGED orderBookVars => BookInv'
BY DEF BookInv, BookType, Paired, OrdersBefore, LastIsCurrent, WillAsk, CancelledAreGone,
       AnswersAreCurrent, IsCurrent, Limits, Answers, orderBookVars, nodeVars, actionVars,
       removalVars, askVars

\* Every step keeps it.
LEMMA BookInvStep == BookInv /\ [BookNext]_orderBookVars => BookInv'
BY CreateKeeps, FillKeeps, CancelKeeps, AnswerKeeps, SubscriptionKeeps, AskBatchKeeps,
   LimitsAnsweredKeeps, CancelHeardKeeps, OrdersTakenKeeps, OrdersRemovedKeeps,
   ClearedKeeps, SubscribeKeeps, BatchFailedKeeps,
   BookInvUnchanged DEF BookNext

\* It holds of every order of notifications, answers and timers.
LEMMA BookInvariant == BookSpec => []BookInv
<1> QED BY BookInvInit, BookInvStep, PTL DEF BookSpec

\* Once all is quiet the store has what the node would answer (MarketsActions.js:203-379,
\* MarketsStore.js:278-381): whatever order notifications, answers and timers come in,
\* no change of an order is missed and no removed order stays.  Answers may fail and timers
\* may be cleared; only where nothing was asked again since is the store out of date.
THEOREM StoreCatchesUp == BookSpec => []QuietIsCurrent
<1>1. ASSUME BookInv PROVE QuietIsCurrent
  <2> SUFFICES ASSUME toNode \o toClient \o results = <<>>, ~ dispatchSubTimeout, ~ lost
               PROVE  marketLimitOrders \in Listings(node)
    BY DEF QuietIsCurrent
  <2>1. toNode = <<>> /\ toClient = <<>> /\ results = <<>>
    BY <1>1 DEF BookInv, BookType
  <2>2. ~ WillAsk
    BY <2>1 DEF WillAsk
  <2>3. \A i \in 1..Len(toClient) : ~ Limits(i)
    BY <2>1
  <2> QED BY <1>1, <2>1, <2>2, <2>3 DEF BookInv, LastIsCurrent
<1> QED BY <1>1, BookInvariant, PTL

-----------------------------------------------------------------------------
(* When the rows are built anew.                                           *)

\* didOrdersChange compares the number of orders, and looks only for orders that are new
\* or differ: of finite books that is enough.
LEMMA DidOrdersChangeIsDifference ==
    ASSUME NEW new \in Books, NEW old \in Books
    PROVE  didOrdersChange(new, old) <=> new # old
<1>1. /\ new \in [DOMAIN new -> Nat] /\ DOMAIN new \subseteq Orders
      /\ old \in [DOMAIN old -> Nat] /\ DOMAIN old \subseteq Orders
  BY DEF Books
<1>2. ASSUME ~ didOrdersChange(new, old) PROVE new = old
  <2>1. /\ Cardinality(DOMAIN new) = Cardinality(DOMAIN old)
        /\ DOMAIN new \subseteq DOMAIN old
        /\ \A o \in DOMAIN new : new[o] = old[o]
    BY <1>2 DEF didOrdersChange
  <2>2. PICK ids : ids = DOMAIN new
    OBVIOUS
  <2>3. PICK others : others = DOMAIN old
    OBVIOUS
  <2>4. IsFiniteSet(others)
    BY <1>1, <2>3, FS_Subset, OrderBookAssumption DEF OrderBookAssumption
  <2>5. ids \subseteq others /\ Cardinality(ids) = Cardinality(others)
    BY <2>1, <2>2, <2>3
  <2>6. ids = others
    BY <2>4, <2>5, FS_Subset
  <2> QED BY <1>1, <2>1, <2>2, <2>3, <2>6
<1>3. ASSUME new = old PROVE ~ didOrdersChange(new, old)
  BY <1>3 DEF didOrdersChange
<1> QED BY <1>2, <1>3

\* The store has a book too.
StoreInv == BookInv /\ marketLimitOrders \in Books

\* The orders of a batch are there when its last answer comes.
LEMMA OrdersTakenAreABook ==
    ASSUME BookInv, restAnswered
    PROVE  marketLimitOrders' \in Books
<1>1. /\ Heard("rest") /\ results' = Tail(results) /\ marketLimitOrders' = results[1].orders
      /\ UNCHANGED <<created, node, changes, toNode, dispatchSubTimeout, lost,
                     dispatchCancelTimeout, cancelBatchIDs>>
  BY DEF restAnswered, nodeVars, removalVars, askVars
<1>2. results[1] \in Results
  BY <1>1, BatchEnds DEF BookInv, BookType
<1> QED BY <1>1, <1>2 DEF Results

\* A removal leaves a book, the same one if it removes none.
LEMMA OrdersLeftAreABook ==
    ASSUME NEW ids,
           marketLimitOrders \in Books,
           marketLimitOrders' = Restrict(marketLimitOrders, DOMAIN marketLimitOrders \ ids)
    PROVE  /\ marketLimitOrders' \in Books
           /\ ids \cap DOMAIN marketLimitOrders = {} => UNCHANGED marketLimitOrders
<1>1. /\ marketLimitOrders \in [DOMAIN marketLimitOrders -> Nat]
      /\ DOMAIN marketLimitOrders \subseteq Orders
  BY DEF Books
<1>2. PICK left : left = DOMAIN marketLimitOrders \ ids
  OBVIOUS
<1>3. marketLimitOrders' = [o \in left |-> marketLimitOrders[o]]
  BY <1>2 DEF Restrict
<1>4. left \subseteq DOMAIN marketLimitOrders
  BY <1>2
<1>5. marketLimitOrders' \in [left -> Nat] /\ left \in SUBSET Orders
  BY <1>1, <1>3, <1>4
<1>6. ASSUME ids \cap DOMAIN marketLimitOrders = {} PROVE UNCHANGED marketLimitOrders
  <2>1. left = DOMAIN marketLimitOrders
    BY <1>2, <1>6
  <2> QED BY <1>1, <1>3, <2>1
<1> QED BY <1>5, <1>6 DEF Books

\* What changes the orders of the store builds the rows.
LEMMA StoreStep ==
    ASSUME StoreInv, [BookNext]_orderBookVars
    PROVE  /\ marketLimitOrders' \in Books
           /\ ~ UNCHANGED marketLimitOrders => _orderBook(marketLimitOrders')
<1>1. CASE restAnswered
  <2>1. marketLimitOrders' \in Books
    BY <1>1, OrdersTakenAreABook DEF StoreInv
  <2>2. PICK new \in Books : new = marketLimitOrders'
    BY <2>1
  <2>3. PICK old \in Books : old = marketLimitOrders
    BY DEF StoreInv
  <2>4. didOrdersChange(new, old) <=> new # old
    BY DidOrdersChangeIsDifference
  <2>5. didOrdersChange(marketLimitOrders', marketLimitOrders)
            => _orderBook(marketLimitOrders')
    BY <1>1 DEF restAnswered
  <2> QED BY <2>1, <2>2, <2>3, <2>4, <2>5
<1>2. CASE onCancelLimitOrderSuccess
  <2>1. /\ marketLimitOrders' = Restrict(marketLimitOrders,
                                         DOMAIN marketLimitOrders \ cancelBatchIDs)
        /\ cancelBatchIDs \cap DOMAIN marketLimitOrders # {} => _orderBook(marketLimitOrders')
    BY <1>2 DEF onCancelLimitOrderSuccess
  <2>2. PICK ids : ids = cancelBatchIDs
    OBVIOUS
  <2> QED BY <2>1, <2>2, OrdersLeftAreABook DEF StoreInv
<1>3. CASE UNCHANGED marketLimitOrders
  BY <1>3 DEF StoreInv
<1> QED BY <1>1, <1>2, <1>3
        DEF BookNext, orderBookVars, Create, Fill, Cancel, Answer, changeNotified, askBatch,
            batchTimeoutsCleared, marketSubscribed, limitsAnswered, batchFailed,
            cancelLimitOrderSuccess

\* The store holds a book at any time.
LEMMA StoreInvariant == BookSpec => []StoreInv
<1>1. BookInit => StoreInv
  <2>1. ASSUME BookInit PROVE marketLimitOrders \in Books
    <3>1. marketLimitOrders = <<>>
      BY <2>1 DEF BookInit
    <3>2. <<>> \in [{} -> Nat] /\ {} \in SUBSET Orders
      OBVIOUS
    <3> QED BY <3>1, <3>2 DEF Books
  <2> QED BY <2>1, BookInvInit DEF StoreInv
<1>2. StoreInv /\ [BookNext]_orderBookVars => StoreInv'
  BY StoreStep, BookInvStep DEF StoreInv
<1> QED BY <1>1, <1>2, PTL DEF BookSpec

\* The orders of the store never change without the rows, the totals and the chart being
\* built from the new ones in the same step (MarketsStore.js:332-381, 491-497): on answers
\* because didOrdersChange tells every difference, on removals because what removes
\* nothing changes nothing.
THEOREM RowsFollowOrders ==
    BookSpec => [][~ UNCHANGED marketLimitOrders => _orderBook(marketLimitOrders')]_orderBookVars
<1>1. StoreInv /\ [BookNext]_orderBookVars
          => [~ UNCHANGED marketLimitOrders => _orderBook(marketLimitOrders')]_orderBookVars
  BY StoreStep
<1> QED BY <1>1, StoreInvariant, PTL DEF BookSpec

-----------------------------------------------------------------------------
(* MarketFeed: one market on show.                                         *)

\* Nothing is needed beyond the properties themselves, all at once.
FeedInv == TypeOK /\ BatchIsCurrent /\ OneMarketShown

-----------------------------------------------------------------------------
(* The invariant.                                                          *)

\* A request that is sent leaves the requests with their types.
LEMMA RequestsSent ==
    ASSUME TypeOK, NEW kind \in {"subscribe", "batch", "unsubscribe"}, NEW m \in Markets,
           NEW fills \in BOOLEAN, Send(kind, m, fills)
    PROVE  request' \in [Requests -> {Free} \cup Pending]
<1>1. [kind |-> kind, market |-> m, fills |-> fills] \in Pending
  BY DEF Pending
<1> QED BY <1>1 DEF TypeOK, Send

\* A fresh page satisfies the invariant.
LEMMA FeedInvInit == Init => FeedInv
BY DEF Init, FeedInv, TypeOK, BatchIsCurrent, OneMarketShown

\* Taking over the data of a market leaves one market on show, whatever was shown.
LEMMA MarketTaken ==
    ASSUME FeedInv, NEW m \in Markets, NEW fills \in BOOLEAN, onSubscribeMarket(m, fills)
    PROVE  /\ activeMarket' \in Markets /\ limits' \in Markets
           /\ history' \in Markets \cup {None}
           /\ marketReady' \in BOOLEAN /\ restored' \in BOOLEAN
           /\ OneMarketShown'
BY MarketFeedAssumption DEF MarketFeedAssumption, FeedInv, TypeOK, OneMarketShown,
                            onSubscribeMarket

\* Every step keeps the invariant: one case for each action.
LEMMA FeedInvStep == FeedInv /\ [Next]_feedVars => FeedInv'
<1> SUFFICES ASSUME FeedInv, [Next]_feedVars PROVE FeedInv'
  OBVIOUS
<1>1. ASSUME NEW m \in Markets, NEW o \in Options, subscribeMarket(m, o) PROVE FeedInv'
  <2>1. CASE m \notin subs \/ options # o
    <3>0. Send("subscribe", m, TRUE)
      BY <1>1, <2>1 DEF subscribeMarket
    <3>1. request' \in [Requests -> {Free} \cup Pending]
      BY <3>0, RequestsSent DEF FeedInv
    <3>2. TypeOK'
      BY <1>1, <2>1, <3>1 DEF FeedInv, TypeOK, subscribeMarket, clearBatchTimeouts
    <3>3. BatchIsCurrent' /\ OneMarketShown'
      BY <1>1 DEF FeedInv, BatchIsCurrent, OneMarketShown, subscribeMarket, clearBatchTimeouts
    <3> QED BY <3>2, <3>3 DEF FeedInv
  <2>2. CASE ~ (m \notin subs \/ options # o)
    BY <1>1, <2>2 DEF FeedInv, TypeOK, BatchIsCurrent, OneMarketShown, subscribeMarket,
                      clearBatchTimeouts
  <2> QED BY <2>1, <2>2
<1>2. ASSUME NEW m \in Markets, unSubscribeMarket(m) PROVE FeedInv'
  <2>1. notified' \subseteq Markets /\ request' \in [Requests -> {Free} \cup Pending]
    <3>1. CASE m \in subs
      <4>1. Send("unsubscribe", m, FALSE) /\ notified' = notified \ {m}
        BY <1>2, <3>1 DEF unSubscribeMarket
      <4> QED BY <4>1, RequestsSent DEF FeedInv, TypeOK
    <3>2. CASE m \notin subs
      BY <1>2, <3>2 DEF FeedInv, TypeOK, unSubscribeMarket
    <3> QED BY <3>1, <3>2
  <2>2. TypeOK'
    BY <1>2, <2>1 DEF FeedInv, TypeOK, unSubscribeMarket, clearBatchTimeouts, storeVars
  <2>3. BatchIsCurrent' /\ OneMarketShown'
    BY <1>2 DEF FeedInv, BatchIsCurrent, OneMarketShown, unSubscribeMarket,
                clearBatchTimeouts, storeVars
  <2> QED BY <2>2, <2>3 DEF FeedInv
<1>3. CASE switchMarket
  BY <1>3 DEF FeedInv, TypeOK, BatchIsCurrent, OneMarketShown, switchMarket, feedActionVars
<1>4. ASSUME NEW m \in Markets, NEW kind \in {"limitOrder", "fill"}, subscription(m, kind)
      PROVE FeedInv'
  BY <1>4 DEF FeedInv, TypeOK, BatchIsCurrent, OneMarketShown, subscription, storeVars
<1>5. CASE sendBatch
  <2>1. request' \in [Requests -> {Free} \cup Pending]
    <3>1. PICK m : m = timer
      OBVIOUS
    <3>2. m \in Markets
      BY <1>5, <3>1 DEF FeedInv, TypeOK, sendBatch
    <3>3. ("fill" \in batch) = TRUE \/ ("fill" \in batch) = FALSE
      OBVIOUS
    <3>4. Send("batch", m, TRUE) \/ Send("batch", m, FALSE)
      BY <1>5, <3>1, <3>3, Zenon DEF sendBatch
    <3> QED BY <3>2, <3>4, RequestsSent DEF FeedInv
  <2> QED
    BY <1>5, <2>1 DEF FeedInv, TypeOK, BatchIsCurrent, OneMarketShown, sendBatch,
                      clearBatchTimeouts, storeVars
<1>6. ASSUME NEW r \in Requests, subscribeAnswer(r) PROVE FeedInv'
  <2>1. request[r] \in Pending /\ request' \in [Requests -> {Free} \cup Pending]
    BY <1>6 DEF FeedInv, TypeOK, subscribeAnswer, Answered, Pending, Free
  <2>2. onSubscribeMarket(request[r].market, TRUE) /\ request[r].market \in Markets
    BY <1>6, <2>1 DEF subscribeAnswer, Pending
  <2>3. /\ activeMarket' \in Markets /\ limits' \in Markets /\ history' \in Markets \cup {None}
        /\ marketReady' \in BOOLEAN /\ restored' \in BOOLEAN /\ OneMarketShown'
    BY <2>2, MarketTaken
  <2> QED
    BY <1>6, <2>1, <2>2, <2>3 DEF FeedInv, TypeOK, BatchIsCurrent, subscribeAnswer
<1>7. ASSUME NEW r \in Requests, batchAnswer(r) PROVE FeedInv'
  <2>1. request[r] \in Pending /\ request' \in [Requests -> {Free} \cup Pending]
    BY <1>7 DEF FeedInv, TypeOK, batchAnswer, Answered, Pending, Free
  <2>2. /\ onSubscribeMarket(request[r].market, request[r].fills)
        /\ request[r].market \in Markets /\ request[r].fills \in BOOLEAN
    BY <1>7, <2>1 DEF batchAnswer, Pending
  <2>3. /\ activeMarket' \in Markets /\ limits' \in Markets /\ history' \in Markets \cup {None}
        /\ marketReady' \in BOOLEAN /\ restored' \in BOOLEAN /\ OneMarketShown'
    BY <2>2, MarketTaken
  <2> QED
    BY <1>7, <2>1, <2>3 DEF FeedInv, TypeOK, BatchIsCurrent, batchAnswer
<1>8. ASSUME NEW r \in Requests, unsubscribeAnswer(r) PROVE FeedInv'
  <2>1. request' \in [Requests -> {Free} \cup Pending]
    BY <1>8 DEF FeedInv, TypeOK, unsubscribeAnswer, Answered
  <2> QED
    BY <1>8, <2>1 DEF FeedInv, TypeOK, BatchIsCurrent, OneMarketShown, unsubscribeAnswer
<1>9. ASSUME NEW r \in Requests, requestFails(r) PROVE FeedInv'
  <2>1. request[r] \in Pending /\ request' \in [Requests -> {Free} \cup Pending]
    BY <1>9 DEF FeedInv, TypeOK, requestFails, Answered
  <2>2. request[r].market \in Markets
    BY <2>1 DEF Pending
  <2>3. notified' \subseteq Markets
    BY <1>9, <2>2 DEF FeedInv, TypeOK, requestFails
  <2>4. CASE request[r].kind = "unsubscribe"
    BY <1>9, <2>1, <2>2, <2>3, <2>4 DEF FeedInv, TypeOK, BatchIsCurrent, OneMarketShown,
                                        requestFails
  <2>5. CASE request[r].kind # "unsubscribe"
    BY <1>9, <2>1, <2>3, <2>5 DEF FeedInv, TypeOK, BatchIsCurrent, OneMarketShown,
                                  requestFails
  <2> QED BY <2>4, <2>5
<1>10. CASE UNCHANGED feedVars
  BY <1>10 DEF FeedInv, TypeOK, BatchIsCurrent, OneMarketShown, feedVars, feedActionVars, storeVars
<1> QED
  BY <1>1, <1>2, <1>3, <1>4, <1>5, <1>6, <1>7, <1>8, <1>9, <1>10 DEF Next

\* FeedInv is an invariant.
LEMMA FeedInvariant == Spec => []FeedInv
BY FeedInvInit, FeedInvStep, PTL DEF Spec

-----------------------------------------------------------------------------
(* The theorems.                                                           *)

\* Actions and store keep their types for any number of requests under way.
THEOREM FeedTypes == Spec => []TypeOK
<1>1. FeedInv => TypeOK BY DEF FeedInv
<1> QED BY FeedInvariant, <1>1, PTL

\* A batch that will be asked for is of the market subscribed last, however pages
\* subscribe and unsubscribe.
THEOREM BatchCurrent == Spec => []BatchIsCurrent
<1>1. FeedInv => BatchIsCurrent BY DEF FeedInv
<1> QED BY FeedInvariant, <1>1, PTL

\* The limit orders, the history and the active market of the store are of one
\* market, in whatever order answers arrive, until an unsubscribe fails.
THEOREM OneMarket == Spec => []OneMarketShown
<1>1. FeedInv => OneMarketShown BY DEF FeedInv
<1> QED BY FeedInvariant, <1>1, PTL
=============================================================================
