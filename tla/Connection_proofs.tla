--------------------------- MODULE Connection_proofs ---------------------------
(***************************************************************************)
(* Theorems about NodePing: its types, that no node is asked twice and the *)
(* update resolves once, and that it resolves only when it may, for any    *)
(* nodes, regions and size of the batches.                                 *)
(*                                                                         *)
(* Theorems about NodeTransition: however many calls overlap, one at most  *)
(* loads the stores, from the database of its chain, and the retry after a *)
(* failed reconnect does not begin with the node that failed.              *)
(***************************************************************************)
EXTENDS NodePing, NodeTransition, SequenceTheorems, FiniteSetTheorems, TLAPS

-----------------------------------------------------------------------------
(* The latency update: the inductive invariant.                            *)

\* A node is in the list once.
Unrepeated(list) == \A j, k \in 1..Len(list) : list[j] = list[k] => j = k

\* What was asked is what the pinger has passed, and the batch that is on its way.
Passed(n) == \E k \in 1..current : nodeURLs[k] = n

AskedIsPassed ==
    /\ pinging = {} \/ pinging = Batch(nodeURLs, current)
    /\ tick => pinging = {}
    /\ \A n \in Urls : asked[n] = IF Passed(n) \/ n \in pinging THEN 1 ELSE 0

\* The update goes on, waits to start the background pings, or is in the background,
\* where nothing calls the strategy back.
Phase ==
    \/ done = 0 /\ ~ called /\ ~ starter /\ callback \in Stages
    \/ done = 1 /\ starter /\ ~ tick /\ pinging = {}
    \/ done = 1 /\ ~ starter /\ callback = "background_done"

\* The strategy ends with the rest of the nodes.
RestIsAll == callback = "done_pinging" => Urls \subseteq Listed

NodePingInv == PingTypeOK /\ Unrepeated(nodeURLs) /\ AskedIsPassed /\ Phase /\ RestIsAll

-----------------------------------------------------------------------------
(* Batches and lists.                                                      *)

\* The numbers after a up to b.
LEMMA IntervalSize ==
    ASSUME NEW a \in Int, NEW b \in Int, a <= b
    PROVE  IsFiniteSet(a + 1 .. b) /\ Cardinality(a + 1 .. b) = b - a
<1>1. \A i \in Int : /\ IsFiniteSet(i..b)
                    /\ Cardinality(i..b) = IF i > b THEN 0 ELSE b - i + 1
  BY FS_Interval
<1>2. IsFiniteSet(a + 1 .. b)
  BY <1>1
<1>3. Cardinality(a + 1 .. b) = IF a + 1 > b THEN 0 ELSE b - (a + 1) + 1
  BY <1>1
<1> QED BY <1>2, <1>3

\* A batch is the part of the list from the nodes that were passed to those that will
\* be when it is answered.
LEMMA BatchPasses ==
    ASSUME NEW list \in Seq(Urls), Unrepeated(list), NEW from \in 0..Len(list)
    PROVE  /\ Batch(list, from) \subseteq Urls
           /\ Cardinality(Batch(list, from)) \in Nat
           /\ from + Cardinality(Batch(list, from)) <= Len(list)
           /\ \A n : n \in Batch(list, from) <=>
                  \E k \in from + 1 .. from + Cardinality(Batch(list, from)) : list[k] = n
<1> DEFINE B == Batch(list, from)
           to == IF from + range <= Len(list) THEN from + range ELSE Len(list)
           I == from + 1 .. to
           at == [k \in I |-> list[k]]
<1>1. Len(list) \in Nat /\ range \in Nat \ {0} /\ to \in from..Len(list)
  BY NodePingAssumption
<1>2. I = {j \in 1..Len(list) : from < j /\ j <= from + range}
  BY <1>1
<1>3. B = {list[k] : k \in I}
  BY <1>2 DEF Batch
<1>4. IsFiniteSet(I) /\ Cardinality(I) = to - from
  BY <1>1, IntervalSize
<1>5. at \in Bijection(I, B)
  <2>1. at \in [I -> B] /\ \A n \in B : \E k \in I : at[k] = n
    BY <1>3
  <2>2. \A j, k \in I : at[j] = at[k] => j = k
    BY <1>1 DEF Unrepeated
  <2> HIDE DEF at, B, I
  <2> QED BY <2>1, <2>2 DEF Bijection, Injection, Surjection, IsInjective
<1>6. IsFiniteSet(B) /\ Cardinality(B) = to - from
  BY <1>4, <1>5, FS_Bijection DEF ExistsBijection
<1>7. B \subseteq Urls
  <2>1. \A k \in I : list[k] \in Urls
    BY <1>1
  <2> QED BY <1>3, <2>1
<1>8. from + Cardinality(B) = to
  BY <1>1, <1>6
<1>9. \A n : n \in B <=> \E k \in from + 1 .. from + Cardinality(B) : list[k] = n
  BY <1>3, <1>8
<1> QED BY <1>1, <1>6, <1>7, <1>8, <1>9

\* New nodes in any order make a list without repetitions that begins as it did and has
\* all of them.
LEMMA OrderExtends ==
    ASSUME nodeURLs \in Seq(Urls), Unrepeated(nodeURLs),
           NEW S \in SUBSET (Urls \ Listed), NEW order \in Orders(S)
    PROVE  /\ nodeURLs \o order \in Seq(Urls)
           /\ Unrepeated(nodeURLs \o order)
           /\ Len(nodeURLs) <= Len(nodeURLs \o order)
           /\ \A k \in 1..Len(nodeURLs) : (nodeURLs \o order)[k] = nodeURLs[k]
           /\ \A n \in S \cup Listed :
                  \E k \in 1..Len(nodeURLs \o order) : (nodeURLs \o order)[k] = n
<1> DEFINE list == nodeURLs \o order
           size == Len(nodeURLs)
           more == Cardinality(S)
<1>1. IsFiniteSet(S) /\ more \in Nat
  <2>1. S \in SUBSET Urls /\ IsFiniteSet(Urls)
    BY NodePingAssumption
  <2> QED BY <2>1, FS_Subset, FS_CardinalityType
<1>2. /\ order \in [1..more -> S]
      /\ \A j, k \in 1..more : order[j] = order[k] => j = k
  BY DEF Orders
<1>3. order \in Seq(S) /\ order \in Seq(Urls) /\ Len(order) = more
  BY <1>1, <1>2, SeqDef, LenProperties
<1>4. /\ list \in Seq(Urls) /\ Len(list) = size + more /\ size \in Nat
      /\ \A k \in 1..size : list[k] = nodeURLs[k]
      /\ \A k \in size + 1 .. size + more : list[k] = order[k - size]
  BY <1>1, <1>3
<1>5. \A n \in S : \E k \in 1..more : order[k] = n
  <2>1. order \in Injection(1..more, S)
    BY <1>2 DEF Injection, IsInjective
  <2>2. Cardinality(1..more) = more
    BY <1>1, FS_Interval
  <2>3. order \in Surjection(1..more, S)
    BY <1>1, <2>1, <2>2, FS_Injection
  <2> QED BY <2>3 DEF Surjection
<1> HIDE DEF list, more, size
<1>6. Unrepeated(list)
  <2> SUFFICES ASSUME NEW j \in 1..Len(list), NEW k \in 1..Len(list), list[j] = list[k]
               PROVE  j = k
    BY DEF Unrepeated
  <2>1. \A i \in 1..size : list[i] \in Listed
    BY <1>4 DEF Listed, size
  <2>2. \A i \in size + 1 .. size + more :
           i - size \in 1..more /\ list[i] = order[i - size] /\ list[i] \notin Listed
    BY <1>1, <1>2, <1>4
  <2>3. CASE j \in 1..size /\ k \in 1..size
    BY <1>4, <2>3 DEF Unrepeated, size
  <2>4. CASE j \in size + 1 .. size + more /\ k \in size + 1 .. size + more
    <3>1. j - size = k - size
      BY <1>2, <2>2, <2>4
    <3> QED BY <1>1, <1>4, <2>4, <3>1
  <2> QED BY <1>1, <1>4, <2>1, <2>2, <2>3, <2>4
<1>7. \A n \in S \cup Listed : \E k \in 1..Len(list) : list[k] = n
  <2>1. ASSUME NEW n \in S PROVE \E k \in 1..Len(list) : list[k] = n
    <3>1. PICK k \in 1..more : order[k] = n
      BY <1>5
    <3>2. size + k \in size + 1 .. size + more /\ size + k \in 1..Len(list)
          /\ (size + k) - size = k
      BY <1>1, <1>4
    <3> QED BY <1>4, <3>1, <3>2
  <2>2. ASSUME NEW n \in Listed PROVE \E k \in 1..Len(list) : list[k] = n
    <3>1. PICK k \in 1..Len(nodeURLs) : nodeURLs[k] = n
      BY DEF Listed
    <3>2. k \in 1..size /\ k \in 1..Len(list)
      BY <1>1, <1>4, <3>1 DEF size
    <3> QED BY <1>4, <3>1, <3>2
  <2> QED BY <2>1, <2>2
<1> QED BY <1>1, <1>4, <1>6, <1>7 DEF list, size

-----------------------------------------------------------------------------
(* The pinger.                                                             *)

\* The next batch of the list, longer or not, is of nodes that were not asked.
LEMMA PingAsksNew ==
    ASSUME PingTypeOK, Unrepeated(nodeURLs), AskedIsPassed, pinging = {},
           NEW list \in Seq(Urls), Unrepeated(list), Len(nodeURLs) <= Len(list),
           \A k \in 1..Len(nodeURLs) : list[k] = nodeURLs[k],
           Ping(list), current' = current
    PROVE  /\ nodeURLs' \in Seq(Urls) /\ current' \in 0..Len(nodeURLs')
           /\ pinging' \subseteq Urls /\ tick' = FALSE /\ asked' \in [Urls -> Nat]
           /\ Unrepeated(nodeURLs)' /\ AskedIsPassed'
<1>1. /\ nodeURLs' = list /\ pinging' = Batch(list, current) /\ tick' = FALSE
      /\ asked' = [n \in Urls |-> IF n \in pinging' THEN asked[n] + 1 ELSE asked[n]]
  BY DEF Ping
<1>2. /\ current \in 0..Len(nodeURLs) /\ asked \in [Urls -> Nat]
      /\ Len(nodeURLs) \in Nat /\ Len(list) \in Nat /\ current \in 0..Len(list)
  BY DEF PingTypeOK
<1>3. /\ pinging' \subseteq Urls /\ Cardinality(pinging') \in Nat
      /\ current + Cardinality(pinging') <= Len(list)
      /\ \A n : n \in pinging' <=>
             \E k \in current + 1 .. current + Cardinality(pinging') : list[k] = n
  BY <1>1, <1>2, BatchPasses
<1>4. \A n \in Urls : Passed(n)' <=> Passed(n)
  <2>1. \A k \in 1..current : list[k] = nodeURLs[k]
    BY <1>2
  <2> QED BY <1>1, <2>1 DEF Passed
<1>5. ASSUME NEW n \in pinging' PROVE ~ Passed(n)
  <2>1. PICK k \in current + 1 .. current + Cardinality(pinging') : list[k] = n
    BY <1>3
  <2>2. \A j \in 1..current : j \in 1..Len(list) /\ list[j] = nodeURLs[j] /\ j # k
    BY <1>2, <1>3, <2>1
  <2>3. k \in 1..Len(list)
    BY <1>2, <1>3, <2>1
  <2> QED BY <2>1, <2>2, <2>3 DEF Passed, Unrepeated
<1>6. \A n \in Urls : asked'[n] = IF Passed(n)' \/ n \in pinging' THEN 1 ELSE 0
  BY <1>1, <1>2, <1>3, <1>4, <1>5 DEF AskedIsPassed
<1>7. AskedIsPassed'
  BY <1>1, <1>6 DEF AskedIsPassed
<1> QED BY <1>1, <1>2, <1>3, <1>7

\* An answered batch has been passed.
LEMMA AnsweredIsPassed ==
    ASSUME PingTypeOK, Unrepeated(nodeURLs), AskedIsPassed, pinging # {},
           current' = current + Cardinality(pinging), pinging' = {},
           UNCHANGED <<nodeURLs, asked>>
    PROVE  current' \in 0..Len(nodeURLs') /\ AskedIsPassed'
<1>1. /\ pinging = Batch(nodeURLs, current) /\ nodeURLs \in Seq(Urls)
      /\ current \in 0..Len(nodeURLs) /\ Len(nodeURLs) \in Nat
  BY DEF AskedIsPassed, PingTypeOK
<1>2. /\ Cardinality(pinging) \in Nat /\ current + Cardinality(pinging) <= Len(nodeURLs)
      /\ \A n : n \in pinging <=>
             \E k \in current + 1 .. current + Cardinality(pinging) : nodeURLs[k] = n
  BY <1>1, BatchPasses
<1>3. \A n : Passed(n)' <=> Passed(n) \/ n \in pinging
  <2>1. \A k : k \in 1..current' <=>
               k \in 1..current \/ k \in current + 1 .. current + Cardinality(pinging)
    BY <1>1, <1>2
  <2> QED BY <1>2, <2>1 DEF Passed
<1>4. AskedIsPassed'
  BY <1>3 DEF AskedIsPassed
<1> QED BY <1>1, <1>2, <1>4

-----------------------------------------------------------------------------
(* The strategy.                                                           *)

\* What follows a callback ends with the rest of the nodes; nothing follows the last
\* callback.
LEMMA FollowingEnds ==
    ASSUME NEW c \in Stages
    PROVE  /\ \A k \in 1..Len(Following(c)) : Following(c)[k] \in DOMAIN CallbackOf
           /\ c = "done_pinging" \/ \E k \in 1..Len(Following(c)) : Following(c)[k] = "rest"
<1>1. CASE c = "decideNext"
  BY <1>1 DEF Following, CallbackOf
<1>2. CASE c = "country"
  BY <1>2 DEF Following, CallbackOf
<1>3. CASE c = "region"
  BY <1>3 DEF Following, CallbackOf
<1>4. CASE c = "rest"
  BY <1>4 DEF Following, CallbackOf
<1>5. CASE c = "done_pinging"
  BY <1>5 DEF Following, CallbackOf
<1> QED BY <1>1, <1>2, <1>3, <1>4, <1>5 DEF Stages

\* A set of numbers that is not empty has a least one.
LEMMA SmallestInSet ==
    ASSUME NEW S \in SUBSET Nat, S # {}
    PROVE  \E k \in S : \A j \in S : k <= j
<1>1. PICK m \in S : \A j \in S : <<j, m>> \notin OpToRel(<, Nat)
  BY NatLessThanWellFounded, WFMin
<1>2. \A j \in S : ~ (j < m)
  <2>1. \A j \in S : <<j, m>> \in Nat \X Nat
    OBVIOUS
  <2> QED BY <1>1, <2>1 DEF OpToRel
<1>3. \A j \in S : m <= j
  <2>1. m \in Nat /\ \A j \in S : j \in Nat
    OBVIOUS
  <2> QED BY <1>2, <2>1
<1> QED BY <1>3

\* The callbacks keep the invariant, and end the update only when they may.
LEMMA CallbacksKeep ==
    ASSUME NodePingInv, tick, ~ called, suitable \/ current = Len(nodeURLs),
           callback # "background_done", runCallbacks(callback),
           UNCHANGED <<preferences, latency, other>>
    PROVE  /\ NodePingInv'
           /\ done' # done => suitable \/ \A n \in Urls : asked[n] = 1
<1>1. /\ PingTypeOK /\ Unrepeated(nodeURLs) /\ AskedIsPassed /\ pinging = {}
      /\ done = 0 /\ ~ starter /\ callback \in Stages
  BY DEF NodePingInv, AskedIsPassed, Phase
<1>2. /\ nodeURLs \in Seq(Urls) /\ current \in 0..Len(nodeURLs) /\ Len(nodeURLs) \in Nat
      /\ asked \in [Urls -> Nat] /\ Listed \subseteq Urls
  BY <1>1 DEF PingTypeOK, Listed
<1> DEFINE stages == Following(callback)
<1>3. PICK best \in BestNodes, world \in SUBSET Urls :
         LET new(k) == addNodes(NodesOf(stages[k], best, world))
             open   == {k \in 1..Len(stages) : new(k) # {}}
         IN  IF suitable \/ open = {}
             THEN \E rest \in Orders(Urls \ Listed) : done_pinging(nodeURLs \o rest)
             ELSE LET k == CHOOSE k \in open : \A j \in open : k <= j
                  IN  /\ \E order \in Orders(new(k)) : Ping(nodeURLs \o order)
                      /\ callback' = CallbackOf[stages[k]] /\ called' = FALSE
                      /\ inProgress' = "none"
                      /\ UNCHANGED <<done, starter>>
  BY DEF runCallbacks
<1> DEFINE new(k) == addNodes(NodesOf(stages[k], best, world))
           open == {k \in 1..Len(stages) : new(k) # {}}
<1>4. UNCHANGED <<current, counter, suitable, background>>
  BY DEF runCallbacks
<1>5. callback = "done_pinging" \/ \E k \in 1..Len(stages) : new(k) = Urls \ Listed
  <2>1. \A k : stages[k] = "rest" => new(k) = Urls \ Listed
    BY DEF NodesOf, addNodes
  <2> HIDE DEF stages, new
  <2> QED BY <1>1, <2>1, FollowingEnds DEF stages
<1>6. CASE suitable \/ open = {}
  <2>1. PICK rest \in Orders(Urls \ Listed) : done_pinging(nodeURLs \o rest)
    BY <1>3, <1>6
  <2>2. /\ nodeURLs \o rest \in Seq(Urls) /\ Unrepeated(nodeURLs \o rest)
        /\ Len(nodeURLs) <= Len(nodeURLs \o rest)
        /\ \A k \in 1..Len(nodeURLs) : (nodeURLs \o rest)[k] = nodeURLs[k]
        /\ \A n \in Urls : \E k \in 1..Len(nodeURLs \o rest) : (nodeURLs \o rest)[k] = n
    <3>1. PICK S \in SUBSET (Urls \ Listed) : S = Urls \ Listed /\ S \cup Listed = Urls
      BY <1>2
    <3>2. rest \in Orders(S)
      BY <3>1
    <3>3. /\ nodeURLs \o rest \in Seq(Urls) /\ Unrepeated(nodeURLs \o rest)
          /\ Len(nodeURLs) <= Len(nodeURLs \o rest)
          /\ \A k \in 1..Len(nodeURLs) : (nodeURLs \o rest)[k] = nodeURLs[k]
          /\ \A n \in S \cup Listed :
                 \E k \in 1..Len(nodeURLs \o rest) : (nodeURLs \o rest)[k] = n
      BY <1>1, <1>2, <3>2, OrderExtends
    <3> QED BY <3>1, <3>3
  <2>3. PICK list \in Seq(Urls) : list = nodeURLs \o rest
    BY <2>2
  <2>4. /\ done' = 1 /\ called' = TRUE /\ callback' = "done_pinging" /\ nodeURLs' = list
        /\ tick' = FALSE /\ starter' = TRUE /\ inProgress' = "none" /\ UNCHANGED <<pinging, asked>>
    BY <1>1, <2>1, <2>3 DEF done_pinging
  <2>5. PingTypeOK'
    <3>1. Len(list) \in Nat /\ current \in 0..Len(list)
      BY <1>2, <2>2, <2>3
    <3> QED BY <1>1, <1>4, <2>4, <3>1 DEF PingTypeOK, Stages
  <2>6. Unrepeated(nodeURLs)'
    BY <2>2, <2>3, <2>4
  <2>7. AskedIsPassed'
    <3>1. \A n \in Urls : Passed(n)' <=> Passed(n)
      <4>1. \A k \in 1..current : list[k] = nodeURLs[k]
        BY <1>2, <2>2, <2>3
      <4> QED BY <1>4, <2>4, <4>1 DEF Passed
    <3> QED BY <1>1, <2>4, <3>1 DEF AskedIsPassed
  <2>8. Phase'
    BY <1>1, <2>4 DEF Phase
  <2>9. RestIsAll'
    BY <2>2, <2>3, <2>4 DEF RestIsAll, Listed
  <2>10. ASSUME ~ suitable PROVE \A n \in Urls : asked[n] = 1
    <3>1. Urls \subseteq Listed
      <4>1. CASE callback = "done_pinging"
        BY <4>1 DEF NodePingInv, RestIsAll
      <4>2. CASE callback # "done_pinging"
        <5>1. PICK k \in 1..Len(stages) : new(k) = Urls \ Listed
          BY <1>5, <4>2
        <5>2. new(k) = {}
          BY <1>6, <2>10
        <5> QED BY <5>1, <5>2
      <4> QED BY <4>1, <4>2
    <3>2. \A n \in Urls : Passed(n)
      BY <2>10, <3>1 DEF Listed, Passed
    <3> QED BY <1>1, <3>2 DEF AskedIsPassed
  <2> QED BY <2>5, <2>6, <2>7, <2>8, <2>9, <2>10 DEF NodePingInv
<1>7. CASE ~ (suitable \/ open = {})
  <2> DEFINE first == CHOOSE k \in open : \A j \in open : k <= j
  <2>1. PICK order \in Orders(new(first)) : Ping(nodeURLs \o order)
    BY <1>3, <1>7
  <2>2. /\ callback' = CallbackOf[stages[first]] /\ called' = FALSE /\ inProgress' = "none"
        /\ UNCHANGED <<done, starter>>
    BY <1>3, <1>7
  <2>3. first \in 1..Len(stages)
    <3>1. \A k \in open : k \in Nat
      OBVIOUS
    <3>2. PICK k \in open : \A j \in open : k <= j
      BY <1>7, <3>1, SmallestInSet
    <3>3. first \in open
      BY <3>2
    <3> QED BY <3>3
  <2>4. stages[first] \in DOMAIN CallbackOf
    BY <1>1, <2>3, FollowingEnds
  <2>5. callback' \in Stages /\ (callback' = "done_pinging" => stages[first] = "rest")
    BY <2>2, <2>4 DEF CallbackOf, Stages
  <2>6. new(first) \in SUBSET (Urls \ Listed)
    <3>1. \A s \in DOMAIN CallbackOf : NodesOf(s, best, world) \subseteq Urls
      BY DEF NodesOf, CallbackOf
    <3> QED BY <2>4, <3>1 DEF addNodes
  <2> HIDE DEF first, new, open, stages
  <2>7. /\ nodeURLs \o order \in Seq(Urls) /\ Unrepeated(nodeURLs \o order)
        /\ Len(nodeURLs) <= Len(nodeURLs \o order)
        /\ \A k \in 1..Len(nodeURLs) : (nodeURLs \o order)[k] = nodeURLs[k]
        /\ \A n \in new(first) \cup Listed :
               \E k \in 1..Len(nodeURLs \o order) : (nodeURLs \o order)[k] = n
    BY <1>1, <1>2, <2>6, OrderExtends
  <2>8. /\ nodeURLs' \in Seq(Urls) /\ current' \in 0..Len(nodeURLs')
        /\ pinging' \subseteq Urls /\ tick' = FALSE /\ asked' \in [Urls -> Nat]
        /\ Unrepeated(nodeURLs)' /\ AskedIsPassed'
    BY <1>1, <1>4, <2>1, <2>7, PingAsksNew
  <2>9. PingTypeOK'
    BY <1>1, <1>4, <2>2, <2>5, <2>8 DEF PingTypeOK
  <2>10. Phase'
    BY <1>1, <2>2, <2>5 DEF Phase
  <2>11. RestIsAll'
    <3>1. stages[first] = "rest" => new(first) = Urls \ Listed
      BY DEF new, NodesOf, addNodes
    <3>2. nodeURLs' = nodeURLs \o order
      BY <2>1 DEF Ping
    <3> QED BY <2>5, <2>7, <3>1, <3>2 DEF RestIsAll, Listed
  <2> QED BY <2>2, <2>8, <2>9, <2>10, <2>11 DEF NodePingInv
<1> QED BY <1>6, <1>7

-----------------------------------------------------------------------------
(* Every step keeps the invariant.                                         *)

\* The first batch is on its way.
LEMMA NodePingInvInit == PingInit => NodePingInv
<1> SUFFICES ASSUME PingInit PROVE NodePingInv
  OBVIOUS
<1>1. /\ called = FALSE /\ current = 0 /\ tick = FALSE /\ pinging = Batch(nodeURLs, 0)
      /\ asked = [n \in Urls |-> IF n \in pinging THEN 1 ELSE 0]
      /\ counter = [instant |-> 0, low |-> 0, medium |-> 0]
      /\ suitable = FALSE /\ background = FALSE /\ starter = FALSE
      /\ latency = [n \in Urls |-> "unknown"]
      /\ inProgress = "busy" /\ other = FALSE /\ done = 0
  BY DEF PingInit
<1>2. /\ nodeURLs \in Seq(Urls) /\ Unrepeated(nodeURLs)
      /\ callback \in Stages /\ callback # "done_pinging"
  <2>1. CASE \E last \in Urls : nodeURLs = <<last>> /\ callback = "decideNext"
    BY <2>1 DEF Unrepeated, Stages
  <2>2. ASSUME NEW world \in SUBSET Urls, NEW s \in {"world", "preferredRegion",
               "preferredCountry"}, nodeURLs \in Orders(NodesOf(s, Null, world)),
               callback = CallbackOf[s]
        PROVE  /\ nodeURLs \in Seq(Urls) /\ Unrepeated(nodeURLs)
               /\ callback \in Stages /\ callback # "done_pinging"
    <3>1. callback \in Stages /\ callback # "done_pinging"
      BY <2>2 DEF CallbackOf, Stages
    <3>2. PICK S \in SUBSET Urls : S = NodesOf(s, Null, world)
      BY <2>2 DEF NodesOf
    <3>3. Cardinality(S) \in Nat
      BY NodePingAssumption, FS_Subset, FS_CardinalityType
    <3>4. /\ nodeURLs \in [1..Cardinality(S) -> S]
          /\ \A j, k \in 1..Cardinality(S) : nodeURLs[j] = nodeURLs[k] => j = k
      BY <2>2, <3>2 DEF Orders
    <3>5. nodeURLs \in [1..Cardinality(S) -> Urls]
      BY <3>4
    <3>6. nodeURLs \in Seq(Urls) /\ Len(nodeURLs) = Cardinality(S)
      BY <3>3, <3>5, SeqDef, LenProperties
    <3> QED BY <3>1, <3>4, <3>6 DEF Unrepeated
  <2> QED BY <2>1, <2>2 DEF PingInit
<1>3. /\ pinging \subseteq Urls /\ Len(nodeURLs) \in Nat
  BY <1>1, <1>2, BatchPasses
<1>4. PingTypeOK
  <2>1. /\ preferences \in [region : {Region[n] : n \in Urls} \cup {Null},
                             country : {Country[n] : n \in Urls} \cup {Null}]
    BY DEF PingInit
  <2>2. counter \in [{"instant", "low", "medium"} -> Nat]
    BY <1>1
  <2>3. /\ called \in BOOLEAN /\ tick \in BOOLEAN /\ suitable \in BOOLEAN
        /\ background \in BOOLEAN /\ starter \in BOOLEAN /\ other \in BOOLEAN
    BY <1>1
  <2>4. asked \in [Urls -> Nat] /\ latency \in [Urls -> Answers \cup {"unknown"}]
    BY <1>1
  <2>5. /\ current \in 0..Len(nodeURLs) /\ done \in Nat
        /\ inProgress \in {"none", "busy", "background"}
    BY <1>1, <1>3
  <2> QED BY <1>2, <1>3, <2>1, <2>2, <2>3, <2>4, <2>5 DEF PingTypeOK
<1>5. AskedIsPassed
  BY <1>1 DEF AskedIsPassed, Passed
<1>6. Phase /\ RestIsAll
  BY <1>1, <1>2 DEF Phase, RestIsAll
<1> QED BY <1>2, <1>4, <1>5, <1>6 DEF NodePingInv

\* The counter of answers keeps its type.
LEMMA CountedType ==
    ASSUME counter \in [{"instant", "low", "medium"} -> Nat], pinging \subseteq Urls,
           NEW res \in [pinging -> Answers]
    PROVE  Counted(res) \in [{"instant", "low", "medium"} -> Nat]
<1>1. \A c : Cardinality({n \in DOMAIN res : res[n] = c}) \in Nat
  <2>1. \A c : {n \in DOMAIN res : res[n] = c} \in SUBSET Urls
    OBVIOUS
  <2> QED BY <2>1, NodePingAssumption, FS_Subset, FS_CardinalityType
<1>2. ASSUME NEW a \in Nat, NEW b \in Nat, NEW c \in Nat
      PROVE  [counter EXCEPT !.instant = a, !.low = b, !.medium = c]
                \in [{"instant", "low", "medium"} -> Nat]
  OBVIOUS
<1> DEFINE count(c) == Cardinality({n \in DOMAIN res : res[n] = c})
<1>3. /\ counter.instant + count("instant") + count("none") \in Nat
      /\ counter.low + count("low") \in Nat /\ counter.medium + count("medium") \in Nat
  <2>1. \A c : count(c) \in Nat
    BY <1>1
  <2>2. counter.instant \in Nat /\ counter.low \in Nat /\ counter.medium \in Nat
    OBVIOUS
  <2> HIDE DEF count
  <2> QED BY <2>1, <2>2
<1> QED BY <1>2, <1>3 DEF Counted

\* The answers to a batch.
LEMMA PingResultKeeps == NodePingInv /\ handlePingResult => NodePingInv'
<1> SUFFICES ASSUME NodePingInv, handlePingResult PROVE NodePingInv'
  OBVIOUS
<1>1. /\ PingTypeOK /\ Unrepeated(nodeURLs) /\ AskedIsPassed /\ pinging # {}
      /\ current' = current + Cardinality(pinging) /\ pinging' = {} /\ tick' = TRUE
      /\ UNCHANGED <<preferences, callback, called, nodeURLs, background, starter, inProgress,
                     other, asked, done>>
  BY DEF NodePingInv, handlePingResult
<1>2. PICK res \in [pinging -> Answers] :
          /\ latency' = [n \in Urls |-> IF n \in pinging THEN res[n] ELSE latency[n]]
          /\ counter' = IF background THEN counter ELSE Counted(res)
  BY DEF handlePingResult
<1>3. counter' \in [{"instant", "low", "medium"} -> Nat]
  BY <1>1, <1>2, CountedType DEF PingTypeOK
<1>4. suitable' \in BOOLEAN
  BY DEF handlePingResult
<1>5. current' \in 0..Len(nodeURLs') /\ AskedIsPassed'
  BY <1>1, AnsweredIsPassed
<1>6. PingTypeOK'
  BY <1>1, <1>2, <1>3, <1>4, <1>5 DEF PingTypeOK
<1>7. Phase' /\ RestIsAll'
  BY <1>1 DEF NodePingInv, Phase, RestIsAll, Listed
<1> QED BY <1>1, <1>5, <1>6, <1>7 DEF NodePingInv, Unrepeated

\* The timer of the next batch, or of the background pings: Ping goes on with the list.
LEMMA SameListKeeps ==
    ASSUME NodePingInv, pinging = {}, Ping(nodeURLs), UNCHANGED current
    PROVE  /\ nodeURLs' \in Seq(Urls) /\ current' \in 0..Len(nodeURLs')
           /\ pinging' \subseteq Urls /\ tick' = FALSE /\ asked' \in [Urls -> Nat]
           /\ Unrepeated(nodeURLs)' /\ AskedIsPassed' /\ nodeURLs' = nodeURLs
<1>1. nodeURLs \in Seq(Urls) /\ Len(nodeURLs) <= Len(nodeURLs)
  BY DEF NodePingInv, PingTypeOK
<1>2. nodeURLs' = nodeURLs
  BY DEF Ping
<1> QED BY <1>1, <1>2, PingAsksNew DEF NodePingInv

\* The timer of the pinger: the next batch, or the callback.
LEMMA BatchesKeep ==
    ASSUME NodePingInv, pingNodesInBatches
    PROVE  /\ NodePingInv'
           /\ done' # done => suitable \/ \A n \in Urls : asked[n] = 1
<1>1. tick /\ pinging = {} /\ UNCHANGED <<preferences, latency, other>>
  BY DEF NodePingInv, AskedIsPassed, pingNodesInBatches
<1>2. CASE nextBatch
  <2>1. /\ Ping(nodeURLs)
        /\ UNCHANGED <<callback, called, current, counter, suitable, background, done, starter>>
    BY <1>2 DEF nextBatch
  <2>2. /\ nodeURLs' \in Seq(Urls) /\ current' \in 0..Len(nodeURLs')
        /\ pinging' \subseteq Urls /\ tick' = FALSE /\ asked' \in [Urls -> Nat]
        /\ Unrepeated(nodeURLs)' /\ AskedIsPassed' /\ nodeURLs' = nodeURLs
    BY <1>1, <2>1, SameListKeeps
  <2>3. inProgress' \in {"none", "busy", "background"}
    BY <1>2 DEF nextBatch
  <2>4. PingTypeOK'
    BY <1>1, <2>1, <2>2, <2>3 DEF NodePingInv, PingTypeOK
  <2>5. Phase' /\ RestIsAll'
    BY <1>1, <2>1, <2>2 DEF NodePingInv, Phase, RestIsAll, Listed
  <2> QED BY <2>1, <2>2, <2>4, <2>5 DEF NodePingInv
<1>3. CASE callBack /\ callback = "background_done"
  <2>1. /\ called' = TRUE /\ tick' = FALSE /\ inProgress' = "none"
        /\ UNCHANGED <<callback, nodeURLs, current, pinging, counter, suitable, background,
                       asked, done, starter>>
    BY <1>3 DEF callBack
  <2>2. PingTypeOK'
    BY <1>1, <2>1 DEF NodePingInv, PingTypeOK
  <2>3. Unrepeated(nodeURLs)' /\ AskedIsPassed'
    BY <1>1, <2>1 DEF NodePingInv, Unrepeated, AskedIsPassed, Passed
  <2>4. Phase' /\ RestIsAll'
    BY <1>1, <1>3, <2>1 DEF NodePingInv, Phase, RestIsAll, Stages
  <2> QED BY <2>1, <2>2, <2>3, <2>4 DEF NodePingInv
<1>4. CASE callBack /\ callback # "background_done"
  BY <1>1, <1>4, CallbacksKeep DEF callBack
<1> QED BY <1>2, <1>3, <1>4 DEF pingNodesInBatches

\* The start of the background pings.
LEMMA BackgroundKeeps == NodePingInv /\ enableBackgroundPinging => NodePingInv'
<1> SUFFICES ASSUME NodePingInv, enableBackgroundPinging PROVE NodePingInv'
  OBVIOUS
<1>1. /\ done = 1 /\ pinging = {}
      /\ starter' = FALSE /\ suitable' = FALSE /\ background' = TRUE /\ Ping(nodeURLs)
      /\ counter' = [instant |-> 0, low |-> 0, medium |-> 0]
      /\ callback' = "background_done"
      /\ UNCHANGED <<preferences, latency, current, done, other>>
  BY DEF NodePingInv, Phase, enableBackgroundPinging, BackgroundCallback
<1>2. /\ nodeURLs' \in Seq(Urls) /\ current' \in 0..Len(nodeURLs')
      /\ pinging' \subseteq Urls /\ tick' = FALSE /\ asked' \in [Urls -> Nat]
      /\ Unrepeated(nodeURLs)' /\ AskedIsPassed' /\ nodeURLs' = nodeURLs
  BY <1>1, SameListKeeps
<1>3. called' \in BOOLEAN /\ inProgress' \in {"none", "busy", "background"}
  BY DEF enableBackgroundPinging, BackgroundCallback
<1>4. PingTypeOK'
  <2>1. counter' \in [{"instant", "low", "medium"} -> Nat]
    BY <1>1
  <2>2. starter' \in BOOLEAN /\ suitable' \in BOOLEAN /\ background' \in BOOLEAN
        /\ tick' \in BOOLEAN
    BY <1>1, <1>2
  <2>3. PingTypeOK
    BY DEF NodePingInv
  <2> QED BY <1>1, <1>2, <1>3, <2>1, <2>2, <2>3 DEF PingTypeOK
<1>5. Phase' /\ RestIsAll'
  BY <1>1 DEF Phase, RestIsAll
<1> QED BY <1>2, <1>4, <1>5 DEF NodePingInv

\* Every step keeps the invariant, and ends the update only when it may.
LEMMA NodePingInvStep ==
    ASSUME NodePingInv, [PingNext]_nodePingVars
    PROVE  /\ NodePingInv'
           /\ done' # done => suitable \/ \A n \in Urls : asked[n] = 1
<1>1. CASE pingNodesInBatches
  BY <1>1, BatchesKeep
<1>2. CASE handlePingResult
  BY <1>2, PingResultKeeps DEF handlePingResult
<1>3. CASE enableBackgroundPinging
  BY <1>3, BackgroundKeeps DEF enableBackgroundPinging
<1>4. ASSUME otherTransition \/ otherDone \/ UNCHANGED nodePingVars
      PROVE  /\ NodePingInv'
             /\ done' # done => suitable \/ \A n \in Urls : asked[n] = 1
  <2>1. /\ UNCHANGED <<pingerVars, preferences, starter, latency>>
        /\ other' \in BOOLEAN /\ inProgress' \in {"none", "busy", "background"}
    BY <1>4 DEF otherTransition, otherDone, nodePingVars, NodePingInv, PingTypeOK
  <2>2. PingTypeOK'
    BY <2>1 DEF NodePingInv, PingTypeOK, pingerVars
  <2>3. Unrepeated(nodeURLs)' /\ AskedIsPassed' /\ Phase' /\ RestIsAll'
    BY <2>1 DEF NodePingInv, Unrepeated, AskedIsPassed, Passed, Phase, RestIsAll, Listed,
                pingerVars
  <2> QED BY <2>1, <2>2, <2>3 DEF NodePingInv, pingerVars
<1> QED BY <1>1, <1>2, <1>3, <1>4 DEF PingNext

\* The invariant holds throughout.
LEMMA NodePingInvariant == PingSpec => []NodePingInv
<1>1. NodePingInv /\ [PingNext]_nodePingVars => NodePingInv'
  BY NodePingInvStep
<1> QED BY <1>1, NodePingInvInit, PTL DEF PingSpec

-----------------------------------------------------------------------------
(* The theorems.                                                           *)

\* The state of the pinger and of the strategy keeps its types.
THEOREM NodePingTypes == PingSpec => []PingTypeOK
<1>1. NodePingInv => PingTypeOK
  BY DEF NodePingInv
<1> QED BY <1>1, NodePingInvariant, PTL

\* Whatever the nodes answer and whenever other transitions come between, no node is
\* asked twice by the stages and the background pings, and the update resolves once.
THEOREM NodesAskedOnce == PingSpec => []AtMostOnce
<1>1. NodePingInv => AtMostOnce
  BY DEF NodePingInv, AskedIsPassed, Phase, AtMostOnce
<1> QED BY <1>1, NodePingInvariant, PTL

\* The update resolves only when the pinger is satisfied or every node was asked.
THEOREM DoneOnlyWhenSatisfied == PingSpec => DoneMeansSatisfied
<1>1. NodePingInv /\ [PingNext]_nodePingVars =>
         [done' # done => suitable \/ \A n \in Urls : asked[n] = 1]_nodePingVars
  BY NodePingInvStep
<1> QED BY <1>1, NodePingInvariant, PTL DEF PingSpec, DoneMeansSatisfied

-----------------------------------------------------------------------------
(* The transition: the inductive invariant.                                *)

\* The call that loads has the guard, and no other loads.  What it opens is the
\* database of its chain.
LoaderInv ==
    /\ \A c, d \in Calls : call[c].at \in Loaders /\ call[d].at \in Loaders => c = d
    /\ connectInProgress <=> \E c \in Calls : call[c].at \in Loaders
    /\ \A c \in Calls : call[c].at \in Loaders =>
          /\ oldChain \in {None, call[c].chain}
          /\ db \in IF call[c].at = "opening" THEN {None} ELSE {None, call[c].chain}

\* A chain that is not forgotten is the one whose database is open, if any is.
ChainInv == oldChain # None => db \in {None, oldChain}

\* A reconnect, and the latency update before it, is about a node.
NodeInv == \A c \in Calls : call[c].at \in {"latencyReset", "reset"} => call[c].node \in Nodes

\* A faulty node has no latency.  If it is the last node it was chosen in the
\* settings, and the choice was refused or is yet to be followed.
ChosenIn(url, places) == \E c \in Calls : call[c].node = url /\ call[c].at \in places

FaultyInv ==
    /\ known \cap faulty = {}
    /\ auto /\ apiServer \in Nodes => ChosenIn(apiServer, {"timer", "refused"})
    /\ apiServer \in Nodes \cap faulty => Chosen(apiServer)
    /\ \A c \in Calls :
          call[c].at = "reset" /\ owner = c /\ apiServer \in Nodes /\ apiServer = call[c].node
              => Chosen(apiServer)

TransitionInv == TypeOK /\ LoaderInv /\ ChainInv /\ NodeInv /\ FaultyInv

-----------------------------------------------------------------------------
(* What the actions do, in terms of the call that they move.               *)

Job == [at : Places, node : Nodes \cup {None}, chain : ChainsOfNodes \cup {None}]

\* c alone moves, and this is where.
Moves(c, at, node, chain) ==
    /\ call' \in [Calls -> Job]
    /\ call'[c].at = at /\ call'[c].node = node /\ call'[c].chain = chain
    /\ \A d \in Calls : d # c => call'[d] = call[d]

\* A field or two of the job of c are set.
LEMMA Moved ==
    ASSUME TypeOK, NEW c \in Calls, NEW at \in Places, NEW node \in Nodes \cup {None},
           NEW chain \in ChainsOfNodes \cup {None}
    PROVE  /\ Goto(c, at) => Moves(c, at, call[c].node, call[c].chain)
           /\ End(c) => Moves(c, "ended", None, None)
           /\ call' = [call EXCEPT ![c].at = at, ![c].node = node]
                  => Moves(c, at, node, call[c].chain)
           /\ call' = [call EXCEPT ![c].at = at, ![c].node = node, ![c].chain = chain]
                  => Moves(c, at, node, chain)
<1>1. call \in [Calls -> Job] /\ call[c] \in Job
  BY DEF TypeOK, Job
<1>2. ASSUME NEW job \in Job, call' = [call EXCEPT ![c] = job]
      PROVE  Moves(c, job.at, job.node, job.chain)
  BY <1>1, <1>2 DEF Moves
<1>3. call[c].node \in Nodes \cup {None} /\ call[c].chain \in ChainsOfNodes \cup {None}
  BY <1>1 DEF Job
<1>4. ASSUME NEW a \in Places, NEW n \in Nodes \cup {None}, NEW ch \in ChainsOfNodes \cup {None},
             call' = [call EXCEPT ![c] = [at |-> a, node |-> n, chain |-> ch]]
      PROVE  Moves(c, a, n, ch)
  <2>1. [at |-> a, node |-> n, chain |-> ch] \in Job
    BY DEF Job
  <2> QED BY <2>1, <1>2, <1>4
<1>5. ASSUME Goto(c, at) PROVE Moves(c, at, call[c].node, call[c].chain)
  <2>1. [call[c] EXCEPT !.at = at] = [at |-> at, node |-> call[c].node, chain |-> call[c].chain]
    BY <1>1 DEF Job
  <2>2. call' = [call EXCEPT ![c] = [call[c] EXCEPT !.at = at]]
    BY <1>5 DEF Goto
  <2> QED BY <2>1, <2>2, <1>3, <1>4
<1>6. ASSUME End(c) PROVE Moves(c, "ended", None, None)
  BY <1>4, <1>6 DEF End, Places
<1>7. ASSUME call' = [call EXCEPT ![c].at = at, ![c].node = node]
      PROVE  Moves(c, at, node, call[c].chain)
  <2> DEFINE now == [call[c] EXCEPT !.at = at, !.node = node]
  <2>1. now = [at |-> at, node |-> node, chain |-> call[c].chain]
    <3>1. now = [x \in DOMAIN call[c] |-> IF x = "node" THEN node ELSE
                                          IF x = "at" THEN at ELSE call[c][x]]
      OBVIOUS
    <3>2. DOMAIN call[c] = {"at", "node", "chain"}
      BY <1>1 DEF Job
    <3> QED BY <3>1, <3>2
  <2>2. call' = [call EXCEPT ![c] = [call[c] EXCEPT !.at = at, !.node = node]]
    BY <1>7
  <2> QED BY <2>1, <2>2, <1>3, <1>4
<1>8. ASSUME call' = [call EXCEPT ![c].at = at, ![c].node = node, ![c].chain = chain]
      PROVE  Moves(c, at, node, chain)
  <2> DEFINE now == [call[c] EXCEPT !.at = at, !.node = node, !.chain = chain]
  <2>1. now = [at |-> at, node |-> node, chain |-> chain]
    <3>1. now = [x \in DOMAIN call[c] |-> IF x = "chain" THEN chain ELSE
                                          IF x = "node" THEN node ELSE
                                          IF x = "at" THEN at ELSE call[c][x]]
      OBVIOUS
    <3>2. DOMAIN call[c] = {"at", "node", "chain"}
      BY <1>1 DEF Job
    <3> QED BY <3>1, <3>2
  <2>2. call' = [call EXCEPT ![c] = [call[c] EXCEPT !.at = at, !.node = node, !.chain = chain]]
    BY <1>8
  <2> QED BY <2>1, <2>2, <1>4
<1> QED BY <1>5, <1>6, <1>7, <1>8

\* The nodes that are tried first.
LEMMA FirstNodes ==
    ASSUME TypeOK
    PROVE  /\ \A S \in SUBSET Nodes : FirstUrl(S) \subseteq Nodes /\ (S # {} => FirstUrl(S) = S)
           /\ FirstToTry \subseteq Nodes
           /\ apiServer \in Nodes => FirstToTry = {apiServer}
           /\ apiServer \notin Nodes /\ known # {} => FirstToTry = known
BY DEF TypeOK, FirstUrl, FirstToTry

\* _initiateConnection
LEMMA InitiateDoes ==
    ASSUME TypeOK, NEW c \in Calls, NEW appInit \in BOOLEAN, NEW url \in Nodes \cup {None},
           NEW selectsAuto, initiateConnection(c, appInit, url, selectsAuto)
    PROVE  /\ flag' = "busy"
           /\ IF appInit
              THEN /\ Moves(c, "fallback", None, call[c].chain)
                   /\ UNCHANGED <<apiServer, oldChain, owner>>
              ELSE /\ Moves(c, "reset", url, call[c].chain)
                   /\ apiServer' = IF selectsAuto THEN apiServer ELSE None
                   /\ oldChain' = None /\ owner' = c
<1>1. call[c].chain \in ChainsOfNodes \cup {None}
  BY DEF TypeOK
<1>2. "fallback" \in Places /\ "reset" \in Places
  BY DEF Places
<1> QED BY <1>1, <1>2, Moved DEF initiateConnection

\* willTransitionTo
LEMMA WillDoes ==
    ASSUME TypeOK, NEW c \in Calls, NEW appInit \in BOOLEAN, willTransitionTo(c, appInit)
    PROVE  \/ /\ Moves(c, "refused", call[c].node, call[c].chain)
              /\ UNCHANGED callVars
           \/ /\ auto' = (apiServer = AutoSelect) /\ manager' \in FirstToTry
              /\ flag' = "busy"
              /\ UNCHANGED <<pings, connectInProgress, known, activeNode, db, shown, faulty>>
              /\ \/ /\ known # {} /\ appInit
                    /\ Moves(c, "fallback", None, call[c].chain)
                    /\ UNCHANGED <<apiServer, oldChain, owner>>
                 \/ /\ known # {} /\ ~ appInit
                    /\ Moves(c, "reset", manager', call[c].chain)
                    /\ apiServer' = IF auto' THEN apiServer ELSE None
                    /\ oldChain' = None /\ owner' = c
                 \/ /\ Moves(c, IF appInit THEN "latencyInit" ELSE "latencyReset", manager',
                             call[c].chain)
                    /\ UNCHANGED <<apiServer, oldChain, owner>>
<1>0. /\ call[c].chain \in ChainsOfNodes \cup {None} /\ call[c].node \in Nodes \cup {None}
      /\ {"refused", "latencyInit", "latencyReset"} \subseteq Places
  BY DEF TypeOK, Places
<1>1. CASE refuse(c)
  BY <1>0, <1>1, Moved DEF refuse
<1>2. CASE startTransition(c, appInit)
  <2>1. PICK url \in FirstToTry :
           /\ manager' = url
           /\ \/ /\ known # {}
                 /\ initiateConnection(c, appInit, url, auto')
              \/ /\ flag' = "busy"
                 /\ call' = [call EXCEPT ![c].at = IF appInit THEN "latencyInit"
                                                             ELSE "latencyReset",
                                        ![c].node = url]
                 /\ UNCHANGED <<apiServer, oldChain, owner>>
    BY <1>2 DEF startTransition
  <2>2. url \in Nodes
    BY <2>1, FirstNodes
  <2>3. /\ auto' = (apiServer = AutoSelect)
        /\ UNCHANGED <<pings, connectInProgress, known, activeNode, db, shown, faulty>>
    BY <1>2 DEF startTransition
  <2>4. CASE known # {} /\ initiateConnection(c, appInit, url, auto')
    BY <2>1, <2>2, <2>3, <2>4, InitiateDoes
  <2>5. CASE /\ flag' = "busy"
             /\ call' = [call EXCEPT ![c].at = IF appInit THEN "latencyInit"
                                                         ELSE "latencyReset",
                                    ![c].node = url]
             /\ UNCHANGED <<apiServer, oldChain, owner>>
    <3>1. Moves(c, IF appInit THEN "latencyInit" ELSE "latencyReset", url, call[c].chain)
      BY <2>2, <2>5, <1>0, Moved
    <3> QED BY <3>1, <2>1, <2>3, <2>5
  <2> QED BY <2>1, <2>4, <2>5
<1> QED BY <1>1, <1>2 DEF willTransitionTo

-----------------------------------------------------------------------------
(* The loader and its database.                                            *)

\* A call that does not load moves on beside the one that does.
LEMMA LoaderAside ==
    ASSUME LoaderInv, ChainInv, NEW c \in Calls, NEW at, NEW node, NEW chain,
           Moves(c, at, node, chain), at \notin Loaders, call[c].at \notin Loaders,
           UNCHANGED <<connectInProgress, db>>, oldChain' \in {oldChain, None}
    PROVE  LoaderInv' /\ ChainInv'
<1>1. \A d \in Calls : (call'[d].at \in Loaders <=> call[d].at \in Loaders)
                       /\ (call[d].at \in Loaders => call'[d] = call[d])
  BY DEF Moves
<1>2. LoaderInv'
  BY <1>1 DEF LoaderInv
<1>3. ChainInv'
  BY DEF ChainInv
<1> QED BY <1>2, <1>3

\* _onConnect finds nobody loading.
LEMMA LoaderBegins ==
    ASSUME LoaderInv, ChainInv, NEW c \in Calls, NEW chain, chain # None,
           ~ connectInProgress, connectInProgress', oldChain' = chain,
           \/ Moves(c, "opening", None, chain) /\ db' = None
           \/ Moves(c, "loading", None, chain) /\ db' = db /\ oldChain = chain
    PROVE  LoaderInv' /\ ChainInv'
<1>1. \A d \in Calls : call[d].at \notin Loaders
  BY DEF LoaderInv
<1>2. /\ call'[c].at \in Loaders /\ call'[c].chain = chain
      /\ \A d \in Calls : call'[d].at \in Loaders => d = c
  BY <1>1 DEF Moves, Loaders
<1>3. db' \in IF call'[c].at = "opening" THEN {None} ELSE {None, chain}
  <2>1. CASE Moves(c, "opening", None, chain) /\ db' = None
    BY <2>1 DEF Moves
  <2>2. CASE Moves(c, "loading", None, chain) /\ db' = db /\ oldChain = chain
    BY <2>2 DEF Moves, ChainInv
  <2> QED BY <2>1, <2>2
<1>4. LoaderInv'
  BY <1>2, <1>3 DEF LoaderInv
<1>5. ChainInv'
  BY <1>3 DEF ChainInv
<1> QED BY <1>4, <1>5

\* init_instance throws.
LEMMA LoaderFails ==
    ASSUME LoaderInv, NEW c \in Calls, ~ connectInProgress, ~ connectInProgress',
           Moves(c, "ended", None, None), db' = None
    PROVE  LoaderInv' /\ ChainInv'
<1>1. \A d \in Calls : call'[d].at \notin Loaders
  BY DEF LoaderInv, Moves, Loaders
<1>2. LoaderInv'
  BY <1>1 DEF LoaderInv
<1>3. ChainInv'
  BY DEF ChainInv
<1> QED BY <1>2, <1>3

\* The loader goes on to the stores, with its database or none.
LEMMA LoaderGoesOn ==
    ASSUME LoaderInv, ChainInv, NEW c \in Calls, NEW at \in {"loading", "rejected"}, NEW node,
           Moves(c, at, node, call[c].chain), call[c].at \in Loaders,
           UNCHANGED <<connectInProgress, oldChain>>, db' \in {db, call[c].chain}
    PROVE  LoaderInv' /\ ChainInv'
<1>1. db \in {None, call[c].chain} /\ oldChain \in {None, call[c].chain}
  BY DEF LoaderInv
<1>2. /\ call'[c].at \in Loaders /\ call'[c].at # "opening" /\ call'[c].chain = call[c].chain
      /\ \A d \in Calls : call'[d].at \in Loaders => d = c
  BY DEF Moves, Loaders, LoaderInv
<1>3. connectInProgress
  BY DEF LoaderInv
<1>4. LoaderInv'
  BY <1>1, <1>2, <1>3 DEF LoaderInv
<1>5. ChainInv'
  BY <1>1 DEF ChainInv
<1> QED BY <1>4, <1>5

\* The loader ends, and what is open is its database or none.
LEMMA LoaderEnds ==
    ASSUME LoaderInv, NEW c \in Calls, Moves(c, "ended", None, None), call[c].at \in Loaders,
           ~ connectInProgress', UNCHANGED oldChain, db' \in {None, db, call[c].chain}
    PROVE  LoaderInv' /\ ChainInv'
<1>1. db \in {None, call[c].chain} /\ oldChain \in {None, call[c].chain}
  BY DEF LoaderInv
<1>2. \A d \in Calls : call'[d].at \notin Loaders
  BY DEF Moves, Loaders, LoaderInv
<1>3. LoaderInv'
  BY <1>2 DEF LoaderInv
<1>4. ChainInv'
  BY <1>1 DEF ChainInv
<1> QED BY <1>3, <1>4

-----------------------------------------------------------------------------
(* The nodes that failed.                                                  *)

Witnesses == {"timer", "refused", "latencyReset"}

\* A call that is no reason to try a node moves on, and no node fails.
LEMMA FaultyAside ==
    ASSUME FaultyInv, NEW c \in Calls, NEW at, NEW node, NEW chain,
           Moves(c, at, node, chain), at # "reset", call[c].at \notin Witnesses,
           UNCHANGED apiServer, auto' /\ apiServer \in Nodes => auto,
           owner' \in {owner, c} \/ owner' \notin Calls,
           faulty' \subseteq faulty, known' \cap faulty' = {}
    PROVE  FaultyInv'
<1>1. \A url, d : d \in Calls /\ call[d].node = url /\ call[d].at \in Witnesses
                    => call'[d].node = url /\ call'[d].at = call[d].at
  BY DEF Moves
<1>2. \A url : /\ Chosen(url) => Chosen(url)'
               /\ ChosenIn(url, {"timer", "refused"}) => ChosenIn(url, {"timer", "refused"})'
  BY <1>1 DEF Chosen, ChosenIn, Witnesses
<1>3. \A d \in Calls : call'[d].at = "reset" /\ owner' = d
                         => call[d].at = "reset" /\ owner = d /\ call'[d].node = call[d].node
  BY DEF Moves
<1> QED BY <1>2, <1>3 DEF FaultyInv

\* c has reached the node that is the last one from now on.
LEMMA FaultyReached ==
    ASSUME FaultyInv, NEW c \in Calls, NEW at, NEW node, NEW chain,
           Moves(c, at, node, chain), at # "reset",
           ~ auto', apiServer' \notin faulty', owner' = c, known' \cap faulty' = {}
    PROVE  FaultyInv'
<1>1. \A d \in Calls : call'[d].at = "reset" => owner' # d
  BY DEF Moves
<1> QED BY <1>1 DEF FaultyInv

\* No node is the last one.
LEMMA FaultyForgotten ==
    ASSUME apiServer' \notin Nodes, known' \cap faulty' = {}
    PROVE  FaultyInv'
BY DEF FaultyInv

\* c is the reason to try the last node.
LEMMA FaultyChosen ==
    ASSUME NEW c \in Calls, NEW chain, known' \cap faulty' = {},
           \/ Moves(c, "timer", apiServer', chain)
           \/ Moves(c, "refused", apiServer', chain)
           \/ Moves(c, "latencyReset", apiServer', chain) /\ (auto' => apiServer' \notin Nodes)
    PROVE  FaultyInv'
<1>1. Chosen(apiServer)'
  BY DEF Chosen, Moves
<1>2. auto' /\ apiServer' \in Nodes => ChosenIn(apiServer, {"timer", "refused"})'
  BY DEF ChosenIn, Moves
<1> QED BY <1>1, <1>2 DEF FaultyInv

-----------------------------------------------------------------------------
(* The types that a step leaves.                                           *)

\* The variables other than call that a call changes.
LEMMA MovedTypes ==
    ASSUME TypeOK, NEW c \in Calls, NEW at, NEW node, NEW chain, Moves(c, at, node, chain),
           pings' \in {"none", "waiting", "running"}, flag' \in {"none", "busy", "background"},
           connectInProgress' \in BOOLEAN, auto' \in BOOLEAN,
           oldChain' \in ChainsOfNodes \cup {None}, db' \in ChainsOfNodes \cup {None},
           manager' \in Nodes \cup {None}, activeNode' \in Nodes \cup {None},
           known' \subseteq Nodes, faulty' \subseteq Nodes,
           apiServer' \in Nodes \cup {None, AutoSelect}, owner' \in Calls \cup {None},
           shown' \in {"waiting", "connected", "error", "syncError"}
    PROVE  TypeOK'
BY DEF TypeOK, Moves, Job

\* The nodes of the other calls are what they were.
LEMMA MovedNodes ==
    ASSUME NodeInv, NEW c \in Calls, NEW at, NEW node, NEW chain, Moves(c, at, node, chain),
           at \in {"latencyReset", "reset"} => node \in Nodes
    PROVE  NodeInv'
BY DEF NodeInv, Moves

\* _transitionDone
LEMMA DoneDoes ==
    ASSUME TypeOK, NEW c, NEW outcome \in {"connected", "error", "syncError"},
           transitionDone(c, outcome)
    PROVE  flag' = "none" /\ shown' \in {"waiting", "connected", "error", "syncError"}
BY DEF TypeOK, transitionDone

\* _onConnect
LEMMA ConnectDoes ==
    ASSUME TypeOK, LoaderInv, ChainInv, NEW c \in Calls, call[c].at \notin Loaders,
           NEW url \in Nodes, onConnect(c, url)
    PROVE  /\ LoaderInv' /\ ChainInv'
           /\ \E at \in {"ended", "opening", "loading"} : \E node, chain : Moves(c, at, node, chain)
           /\ faulty' = faulty \ {url}
           /\ known' = known \/ known' = known \cup {url}
           /\ flag' \in {"none", "busy", "background"} /\ connectInProgress' \in BOOLEAN
           /\ oldChain' \in ChainsOfNodes \cup {None} /\ db' \in ChainsOfNodes \cup {None}
           /\ shown' \in {"waiting", "connected", "error", "syncError"}
<1>1. /\ Chain[url] \in ChainsOfNodes /\ Chain[url] # None /\ faulty' = faulty \ {url}
      /\ {"ended", "opening", "loading"} \subseteq Places /\ None \in Nodes \cup {None}
  BY NodeTransitionAssumption DEF ChainsOfNodes, onConnect, Places, Loaders
<1>2. CASE connectInProgress
  <2>1. Moves(c, "ended", None, None)
        /\ UNCHANGED <<flag, connectInProgress, known, oldChain, db, shown>>
    BY <1>1, <1>2, Moved DEF onConnect
  <2>2. LoaderInv' /\ ChainInv'
    BY <2>1, LoaderAside DEF Loaders
  <2> QED BY <1>1, <2>1, <2>2 DEF TypeOK
<1>3. CASE ~ connectInProgress
  <2>1. known' = known \cup {url} /\ oldChain' = Chain[url]
    BY <1>3 DEF onConnect
  <2>2. CASE /\ flag' = "busy" /\ connectInProgress' = TRUE /\ UNCHANGED shown
             /\ IF oldChain # Chain[url] THEN db' = None /\ loadNext(c, "opening", url)
                ELSE UNCHANGED db /\ loadNext(c, "loading", url)
    <3>1. CASE oldChain # Chain[url]
      <4>1. Moves(c, "opening", None, Chain[url]) /\ db' = None
        BY <1>1, <2>2, <3>1, Moved DEF loadNext
      <4>2. LoaderInv' /\ ChainInv'
        BY <1>1, <1>3, <2>1, <2>2, <4>1, LoaderBegins
      <4> QED BY <1>1, <2>1, <2>2, <4>1, <4>2 DEF TypeOK
    <3>2. CASE oldChain = Chain[url]
      <4>1. Moves(c, "loading", None, Chain[url]) /\ db' = db
        BY <1>1, <2>2, <3>2, Moved DEF loadNext
      <4>2. LoaderInv' /\ ChainInv'
        BY <1>1, <1>3, <2>1, <2>2, <3>2, <4>1, LoaderBegins
      <4> QED BY <1>1, <2>1, <2>2, <4>1, <4>2 DEF TypeOK
    <3> QED BY <3>1, <3>2
  <2>3. CASE /\ oldChain # Chain[url] /\ db' = None
             /\ End(c) /\ UNCHANGED connectInProgress
             /\ transitionDone(c, "error")
    <3>1. Moves(c, "ended", None, None)
      BY <1>1, <2>3, Moved
    <3>2. LoaderInv' /\ ChainInv'
      BY <1>3, <2>3, <3>1, LoaderFails
    <3>3. flag' = "none" /\ shown' \in {"waiting", "connected", "error", "syncError"}
      BY <2>3, DoneDoes
    <3> QED BY <1>1, <2>1, <2>3, <3>1, <3>2, <3>3 DEF TypeOK
  <2> QED BY <1>3, <2>2, <2>3 DEF onConnect
<1> QED BY <1>2, <1>3

-----------------------------------------------------------------------------
(* Every step keeps the invariant.                                         *)

\* willTransitionTo
LEMMA WillKeeps ==
    ASSUME TransitionInv, NEW c \in Calls, NEW appInit \in BOOLEAN, willTransitionTo(c, appInit),
           IF appInit THEN call[c].at \in {"idle", "closing"} ELSE call[c].at \in {"idle", "timer"}
    PROVE  TransitionInv'
<1> USE DEF TransitionInv
<1>1. call[c].at \notin Loaders /\ call[c].node \in Nodes \cup {None}
  BY DEF Loaders, TypeOK
<1>2. CASE Moves(c, "refused", call[c].node, call[c].chain) /\ UNCHANGED callVars
  <2>1. TypeOK'
    BY <1>2, MovedTypes DEF TypeOK, callVars
  <2>2. LoaderInv' /\ ChainInv'
    BY <1>1, <1>2, LoaderAside DEF callVars, Loaders
  <2>3. NodeInv'
    BY <1>2, MovedNodes
  <2>4. FaultyInv'
    <3>1. \A url, d : d \in Calls /\ call[d].node = url /\ call[d].at \in Witnesses
              => call'[d].node = url /\ call'[d].at \in {call[d].at, "refused"}
      BY <1>2 DEF Moves, Witnesses
    <3>2. \A url : /\ Chosen(url) => Chosen(url)'
                   /\ ChosenIn(url, {"timer", "refused"}) => ChosenIn(url, {"timer", "refused"})'
      BY <3>1 DEF Chosen, ChosenIn, Witnesses
    <3>3. \A d \in Calls : call'[d].at = "reset" => call'[d] = call[d]
      BY <1>2 DEF Moves
    <3> QED BY <1>2, <3>2, <3>3 DEF FaultyInv, callVars
  <2> QED BY <2>1, <2>2, <2>3, <2>4
<1>3. ASSUME /\ auto' = (apiServer = AutoSelect) /\ manager' \in FirstToTry
             /\ flag' = "busy"
             /\ UNCHANGED <<pings, connectInProgress, known, activeNode, db, shown, faulty>>,
             NEW at \in {"fallback", "reset", "latencyInit", "latencyReset"},
             NEW node \in {None, manager'}, Moves(c, at, node, call[c].chain),
             IF appInit THEN at \in {"fallback", "latencyInit"}
                        ELSE at \in {"reset", "latencyReset"} /\ node = manager',
             IF at = "reset"
             THEN (apiServer' = IF auto' THEN apiServer ELSE None) /\ oldChain' = None /\ owner' = c
             ELSE UNCHANGED <<apiServer, oldChain, owner>>
      PROVE  TransitionInv'
  <2>1. manager' \in Nodes /\ auto' \in BOOLEAN /\ known' \cap faulty' = {}
    BY <1>3, FirstNodes DEF FaultyInv
  <2>2. apiServer' \in {apiServer, None} /\ oldChain' \in {oldChain, None} /\ owner' \in {owner, c}
    BY <1>3
  <2>3. TypeOK'
    BY <1>3, <2>1, <2>2, MovedTypes DEF TypeOK
  <2>4. LoaderInv' /\ ChainInv'
    BY <1>1, <1>3, <2>2, LoaderAside DEF Loaders
  <2>5. NodeInv'
    BY <1>3, <2>1, MovedNodes
  <2>6. auto' => apiServer \notin Nodes
    BY <1>3, NodeTransitionAssumption
  <2>7. FaultyInv'
    <3>1. CASE at = "reset"
      <4>1. apiServer' \notin Nodes
        BY <1>3, <2>6, <3>1, NodeTransitionAssumption
      <4> QED BY <2>1, <4>1, FaultyForgotten
    <3>2. CASE at = "latencyReset" /\ apiServer \in Nodes
      <4>1. node = apiServer' /\ apiServer' = apiServer
        BY <1>3, <3>2, FirstNodes
      <4> QED BY <1>3, <2>1, <2>6, <3>2, <4>1, FaultyChosen
    <3>3. CASE at = "latencyReset" /\ apiServer \notin Nodes
      BY <1>3, <2>1, <3>3, FaultyForgotten
    <3>4. CASE appInit
      <4>1. call[c].at \notin Witnesses /\ at # "reset" /\ UNCHANGED apiServer
        BY <1>3, <3>4 DEF Witnesses
      <4> QED BY <1>3, <2>1, <2>2, <2>6, <4>1, FaultyAside
    <3> QED BY <1>3, <3>1, <3>2, <3>3, <3>4
  <2> QED BY <2>3, <2>4, <2>5, <2>7
<1> HIDE DEF TransitionInv
<1> QED
  <2>1. TypeOK
    BY DEF TransitionInv
  <2> QED BY <1>2, <1>3, <2>1, WillDoes

\* The latency update ends, and the call goes on with its best node.
LEMMA LatencyDoneKeeps ==
    ASSUME TransitionInv, NEW c \in Calls, latencyDone(c)
    PROVE  TransitionInv'
<1> USE DEF TransitionInv
<1>1. /\ known' \in SUBSET Nodes /\ faulty' = faulty \ known'
      /\ pings' = IF pings = "running" THEN pings ELSE "waiting"
      /\ manager' \in IF auto THEN FirstUrl(known') ELSE {call[c].node}
      /\ UNCHANGED <<connectInProgress, auto, activeNode, db, shown>>
  BY DEF latencyDone
<1>2. /\ call[c].at \in {"latencyInit", "latencyReset", "recalculating"}
      /\ call[c].at \notin Loaders /\ manager' \in Nodes \cup {None}
      /\ known' \cap faulty' = {}
  BY <1>1, FirstNodes DEF latencyDone, Starting, Loaders, TypeOK
<1>3. ASSUME NEW at, NEW node, NEW chain, Moves(c, at, node, chain), at \notin Loaders,
             at \in {"latencyReset", "reset"} => node \in Nodes,
             flag' \in {"none", "busy"}, apiServer' \in {apiServer, None},
             oldChain' \in {oldChain, None}, owner' \in {owner, c},
             FaultyInv'
      PROVE  TransitionInv'
  <2>1. TypeOK'
    BY <1>1, <1>2, <1>3, MovedTypes DEF TypeOK
  <2>2. LoaderInv' /\ ChainInv'
    BY <1>1, <1>2, <1>3, LoaderAside
  <2>3. NodeInv'
    BY <1>3, MovedNodes
  <2> QED BY <1>3, <2>1, <2>2, <2>3
<1>4. CASE call[c].at = "recalculating"
  <2>1. /\ flag' = "none" /\ Moves(c, "ended", None, None)
        /\ UNCHANGED <<apiServer, oldChain, owner>>
    BY <1>4, Moved DEF latencyDone, Starting, Places
  <2>2. FaultyInv'
    BY <1>1, <1>2, <1>4, <2>1, FaultyAside DEF Witnesses
  <2> QED BY <1>3, <2>1, <2>2 DEF Loaders
<1>5. CASE call[c].at = "latencyInit"
  <2>1. initiateConnection(c, TRUE, manager', auto)
    BY <1>5 DEF latencyDone, Starting
  <2>2. /\ flag' = "busy" /\ Moves(c, "fallback", None, call[c].chain)
        /\ UNCHANGED <<apiServer, oldChain, owner>>
    BY <1>2, <2>1, InitiateDoes
  <2>3. FaultyInv'
    BY <1>1, <1>2, <1>5, <2>2, FaultyAside DEF Witnesses
  <2> QED BY <1>3, <2>2, <2>3 DEF Loaders
<1>6. CASE call[c].at = "latencyReset"
  <2>1. initiateConnection(c, FALSE, manager', auto)
    BY <1>6 DEF latencyDone, Starting
  <2>2. /\ flag' = "busy" /\ Moves(c, "reset", manager', call[c].chain)
        /\ apiServer' = IF auto THEN apiServer ELSE None
        /\ oldChain' = None /\ owner' = c
    <3>1. Moves(c, "reset", manager', call[c].chain)
      BY <1>2, <2>1, InitiateDoes
    <3> QED BY <2>1, <3>1 DEF initiateConnection
  <2>3. manager' \in Nodes
    BY <1>1, <1>6, FirstNodes DEF NodeInv
  <2>4. FaultyInv'
    <3>1. CASE apiServer' \notin Nodes
      BY <1>2, <3>1, FaultyForgotten
    <3>2. CASE apiServer' \in Nodes
      <4>1. auto /\ apiServer' = apiServer /\ auto'
        BY <1>1, <2>2, <3>2, NodeTransitionAssumption
      <4>2. PICK d \in Calls : call[d].node = apiServer /\ call[d].at \in {"timer", "refused"}
        BY <3>2, <4>1 DEF FaultyInv, ChosenIn
      <4>3. call'[d] = call[d]
        BY <1>6, <2>2, <4>2 DEF Moves
      <4>4. Chosen(apiServer)' /\ ChosenIn(apiServer, {"timer", "refused"})'
        BY <4>1, <4>2, <4>3 DEF Chosen, ChosenIn
      <4> QED BY <1>2, <4>4 DEF FaultyInv
    <3> QED BY <3>1, <3>2
  <2> QED BY <1>3, <2>2, <2>3, <2>4 DEF Loaders
<1> QED BY <1>2, <1>4, <1>5, <1>6

\* The connection of the first transition opens, or fails.
LEMMA FallbackKeeps ==
    ASSUME TransitionInv, NEW c \in Calls, fallbackAnswers(c)
    PROVE  TransitionInv'
<1> USE DEF TransitionInv
<1>1. /\ call[c].at = "fallback" /\ UNCHANGED <<pings, auto>>
      /\ call[c].at \notin Loaders /\ call[c].at \notin Witnesses
  BY DEF fallbackAnswers, Loaders, Witnesses
<1>2. ASSUME NEW url \in Nodes, manager' = url, owner' = c,
             activeNode' = IF url # manager THEN url ELSE activeNode,
             apiServer' = IF auto THEN apiServer ELSE url,
             onConnect(c, url)
      PROVE  TransitionInv'
  <2>1. /\ LoaderInv' /\ ChainInv'
        /\ faulty' = faulty \ {url} /\ (known' = known \/ known' = known \cup {url})
        /\ flag' \in {"none", "busy", "background"} /\ connectInProgress' \in BOOLEAN
        /\ oldChain' \in ChainsOfNodes \cup {None} /\ db' \in ChainsOfNodes \cup {None}
        /\ shown' \in {"waiting", "connected", "error", "syncError"}
    BY <1>1, <1>2, ConnectDoes
  <2>2. PICK at \in {"ended", "opening", "loading"} : \E node, chain : Moves(c, at, node, chain)
    BY <1>1, <1>2, ConnectDoes
  <2>3. TypeOK'
    <3>1. /\ manager' \in Nodes \cup {None} /\ activeNode' \in Nodes \cup {None}
          /\ apiServer' \in Nodes \cup {None, AutoSelect} /\ owner' \in Calls \cup {None}
          /\ known' \subseteq Nodes /\ faulty' \subseteq Nodes
      BY <1>2, <2>1 DEF TypeOK
    <3>2. pings' \in {"none", "waiting", "running"} /\ auto' \in BOOLEAN
      BY <1>1 DEF TypeOK
    <3> QED BY <2>1, <2>2, <3>1, <3>2, MovedTypes
  <2>4. NodeInv'
    BY <2>2, MovedNodes
  <2>5. known' \cap faulty' = {}
    BY <2>1 DEF FaultyInv
  <2>6. FaultyInv'
    <3>1. CASE auto
      BY <1>1, <1>2, <2>1, <2>2, <2>5, <3>1, FaultyAside
    <3>2. CASE ~ auto
      BY <1>1, <1>2, <2>1, <2>2, <2>5, <3>2, FaultyReached
    <3> QED BY <3>1, <3>2
  <2> QED BY <2>1, <2>3, <2>4, <2>6
<1>3. ASSUME transitionDone(c, "error"), owner' = None, End(c),
             UNCHANGED <<connectInProgress, oldChain, manager, known, apiServer, activeNode, db,
                         faulty>>
      PROVE  TransitionInv'
  <2>1. Moves(c, "ended", None, None) /\ flag' = "none"
        /\ shown' \in {"waiting", "connected", "error", "syncError"}
    BY <1>3, Moved, DoneDoes DEF Places
  <2>2. TypeOK'
    BY <1>1, <1>3, <2>1, MovedTypes DEF TypeOK
  <2>3. LoaderInv' /\ ChainInv'
    BY <1>1, <1>3, <2>1, LoaderAside DEF Loaders
  <2>4. NodeInv'
    BY <2>1, MovedNodes
  <2>5. FaultyInv'
    <3>1. known' \cap faulty' = {} /\ owner' \notin Calls
      BY <1>3, NodeTransitionAssumption DEF FaultyInv
    <3> QED BY <1>1, <1>3, <2>1, <3>1, FaultyAside
  <2> QED BY <2>2, <2>3, <2>4, <2>5
<1> HIDE DEF TransitionInv
<1> QED BY <1>2, <1>3 DEF fallbackAnswers

\* The alert about the local storage.
LEMMA NoLocalStorageKeeps ==
    ASSUME TransitionInv, NEW c \in Calls, noLocalStorage(c)
    PROVE  TransitionInv'
<1> USE DEF TransitionInv
<1>1. /\ call[c].at = "fallback" /\ Moves(c, "alerted", call[c].node, call[c].chain)
      /\ UNCHANGED callVars
  <2>1. call[c].chain \in ChainsOfNodes \cup {None} /\ call[c].node \in Nodes \cup {None}
    BY DEF TypeOK
  <2> QED BY <2>1, Moved DEF noLocalStorage, Places
<1>2. TypeOK'
  BY <1>1, MovedTypes DEF TypeOK, callVars
<1>3. LoaderInv' /\ ChainInv'
  BY <1>1, LoaderAside DEF callVars, Loaders
<1>4. NodeInv'
  BY <1>1, MovedNodes
<1>5. FaultyInv'
  BY <1>1, FaultyAside DEF callVars, Witnesses, FaultyInv
<1> QED BY <1>2, <1>3, <1>4, <1>5

\* The reconnect of the call that owns the socket succeeds.
LEMMA ResetAnswersKeeps ==
    ASSUME TransitionInv, NEW c \in Calls, resetAnswers(c)
    PROVE  TransitionInv'
<1> USE DEF TransitionInv
<1> DEFINE url == call[c].node
<1>1. /\ call[c].at = "reset" /\ owner = c /\ onConnect(c, url) /\ url \in Nodes
      /\ apiServer' = IF auto \/ connectInProgress THEN apiServer ELSE url
      /\ UNCHANGED <<pings, auto, manager, activeNode, owner>>
  BY DEF resetAnswers, NodeInv
<1> HIDE DEF url
<1>2. call[c].at \notin Loaders /\ call[c].at \notin Witnesses
  BY <1>1 DEF Loaders, Witnesses
<1>3. /\ LoaderInv' /\ ChainInv'
      /\ faulty' = faulty \ {url} /\ (known' = known \/ known' = known \cup {url})
      /\ flag' \in {"none", "busy", "background"} /\ connectInProgress' \in BOOLEAN
      /\ oldChain' \in ChainsOfNodes \cup {None} /\ db' \in ChainsOfNodes \cup {None}
      /\ shown' \in {"waiting", "connected", "error", "syncError"}
  BY <1>1, <1>2, ConnectDoes
<1>4. PICK at \in {"ended", "opening", "loading"} : \E node, chain : Moves(c, at, node, chain)
  BY <1>1, <1>2, ConnectDoes
<1>5. TypeOK'
  <2>1. /\ apiServer' \in Nodes \cup {None, AutoSelect}
        /\ known' \subseteq Nodes /\ faulty' \subseteq Nodes
        /\ pings' \in {"none", "waiting", "running"} /\ auto' \in BOOLEAN
        /\ manager' \in Nodes \cup {None} /\ activeNode' \in Nodes \cup {None}
        /\ owner' \in Calls \cup {None}
    BY <1>1, <1>3 DEF TypeOK
  <2> QED BY <1>3, <1>4, <2>1, MovedTypes
<1>6. NodeInv'
  BY <1>4, MovedNodes
<1>7. known' \cap faulty' = {}
  BY <1>3 DEF FaultyInv
<1>8. FaultyInv'
  <2>1. CASE auto \/ connectInProgress
    BY <1>1, <1>2, <1>3, <1>4, <1>7, <2>1, FaultyAside
  <2>2. CASE ~ (auto \/ connectInProgress)
    BY <1>1, <1>3, <1>4, <1>7, <2>2, FaultyReached
  <2> QED BY <2>1, <2>2
<1> QED BY <1>3, <1>5, <1>6, <1>8

\* _onResetError
LEMMA OnResetErrorKeeps ==
    ASSUME TransitionInv, NEW c \in Calls, onResetError(c)
    PROVE  TransitionInv'
<1> USE DEF TransitionInv
<1> DEFINE url == call[c].node
<1>1. /\ call[c].at = "reset" /\ url \in Nodes
      /\ flag' = "none" /\ oldChain' = None /\ owner' = None
      /\ known' = known \ {url}
      /\ faulty' = IF owner = c THEN faulty \cup {url} ELSE faulty
      /\ UNCHANGED <<pings, connectInProgress, auto, manager, apiServer, activeNode, db, shown>>
  BY DEF onResetError, NodeInv
<1>2. Moves(c, "closing", url, call[c].chain)
  <2>1. call[c].chain \in ChainsOfNodes \cup {None} /\ call[c].node \in Nodes \cup {None}
    BY DEF TypeOK
  <2> QED BY <2>1, Moved DEF onResetError, Places
<1>3. TypeOK'
  BY <1>1, <1>2, MovedTypes DEF TypeOK
<1>4. LoaderInv' /\ ChainInv'
  BY <1>1, <1>2, LoaderAside DEF Loaders
<1>5. NodeInv'
  BY <1>2, MovedNodes
<1>6. FaultyInv'
  <2>1. \A u, d : d \in Calls /\ call[d].node = u /\ call[d].at \in Witnesses
                    => call'[d].node = u /\ call'[d].at = call[d].at
    BY <1>1, <1>2 DEF Moves, Witnesses
  <2>2. \A u : /\ Chosen(u) => Chosen(u)'
               /\ ChosenIn(u, {"timer", "refused"}) => ChosenIn(u, {"timer", "refused"})'
    BY <2>1 DEF Chosen, ChosenIn, Witnesses
  <2>3. apiServer' \in Nodes \cap faulty' => Chosen(apiServer)
    BY <1>1 DEF FaultyInv
  <2>4. known' \cap faulty' = {} /\ owner' \notin Calls
    BY <1>1, NodeTransitionAssumption DEF FaultyInv
  <2> QED BY <1>1, <2>2, <2>3, <2>4 DEF FaultyInv
<1> QED BY <1>3, <1>4, <1>5, <1>6

\* init_instance opens the database of the chain, or throws.
LEMMA DatabaseOpenedKeeps ==
    ASSUME TransitionInv, NEW c \in Calls, databaseOpened(c)
    PROVE  TransitionInv'
<1> USE DEF TransitionInv
<1>1. /\ call[c].at = "opening" /\ call[c].at \in Loaders /\ call[c].at \notin Witnesses
      /\ call[c].chain \in ChainsOfNodes \cup {None} /\ call[c].node \in Nodes \cup {None}
      /\ UNCHANGED <<pings, oldChain, auto, manager, known, apiServer, activeNode, owner, faulty>>
  BY DEF databaseOpened, Loaders, Witnesses, TypeOK
<1>2. CASE db' = call[c].chain /\ Goto(c, "loading") /\ UNCHANGED <<connectInProgress, flag, shown>>
  <2>1. Moves(c, "loading", call[c].node, call[c].chain)
    BY <1>1, <1>2, Moved DEF Places, Loaders
  <2>2. TypeOK'
    BY <1>1, <1>2, <2>1, MovedTypes DEF TypeOK
  <2>3. LoaderInv' /\ ChainInv'
    BY <1>1, <1>2, <2>1, LoaderGoesOn
  <2>4. NodeInv'
    BY <2>1, MovedNodes
  <2>5. FaultyInv'
    BY <1>1, <1>2, <2>1, FaultyAside DEF FaultyInv
  <2> QED BY <2>2, <2>3, <2>4, <2>5
<1>3. CASE /\ db' \in {None, call[c].chain}
           /\ connectInProgress' = FALSE /\ End(c)
           /\ transitionDone(c, IF db' = None THEN "error" ELSE "syncError")
  <2>1. Moves(c, "ended", None, None) /\ flag' = "none"
        /\ shown' \in {"waiting", "connected", "error", "syncError"}
    BY <1>3, Moved, DoneDoes DEF Places
  <2>2. TypeOK'
    <3>1. connectInProgress' \in BOOLEAN
      BY <1>3
    <3> QED BY <1>1, <1>3, <2>1, <3>1, MovedTypes DEF TypeOK
  <2>3. LoaderInv' /\ ChainInv'
    BY <1>1, <1>3, <2>1, LoaderEnds
  <2>4. NodeInv'
    BY <2>1, MovedNodes
  <2>5. FaultyInv'
    BY <1>1, <2>1, FaultyAside DEF FaultyInv
  <2> QED BY <2>2, <2>3, <2>4, <2>5
<1> HIDE DEF TransitionInv
<1> QED BY <1>2, <1>3 DEF databaseOpened

\* The stores are loaded, or not.
LEMMA LoadStoresKeeps ==
    ASSUME TransitionInv, NEW c \in Calls, loadStores(c)
    PROVE  TransitionInv'
<1> USE DEF TransitionInv
<1>1. /\ call[c].at \in {"loading", "rejected"}
      /\ call[c].at \in Loaders /\ call[c].at \notin Witnesses
      /\ call[c].chain \in ChainsOfNodes \cup {None} /\ call[c].node \in Nodes \cup {None}
      /\ UNCHANGED <<pings, oldChain, auto, manager, known, apiServer, owner, db, faulty>>
  BY DEF loadStores, loadFailed, walletFailed, storesLoaded, Loaders, Witnesses, TypeOK
<1>2. CASE walletFailed(c)
  <2>1. Moves(c, "rejected", call[c].node, call[c].chain) /\ flag' = "none"
        /\ shown' \in {"waiting", "connected", "error", "syncError"}
        /\ UNCHANGED <<connectInProgress, activeNode>>
    BY <1>1, <1>2, Moved, DoneDoes DEF walletFailed, Places, Loaders
  <2>2. TypeOK'
    BY <1>1, <2>1, MovedTypes DEF TypeOK
  <2>3. LoaderInv' /\ ChainInv'
    BY <1>1, <2>1, LoaderGoesOn
  <2>4. NodeInv'
    BY <2>1, MovedNodes
  <2>5. FaultyInv'
    BY <1>1, <2>1, FaultyAside DEF FaultyInv
  <2> QED BY <2>2, <2>3, <2>4, <2>5
<1>3. CASE loadFailed(c) \/ storesLoaded(c)
  <2>1. /\ End(c) /\ connectInProgress' = FALSE /\ activeNode' \in {activeNode, manager}
        /\ \E outcome \in {"connected", "error", "syncError"} : transitionDone(c, outcome)
    BY <1>3 DEF loadFailed, storesLoaded
  <2>2. Moves(c, "ended", None, None) /\ flag' = "none"
        /\ shown' \in {"waiting", "connected", "error", "syncError"}
    BY <2>1, Moved, DoneDoes DEF Places
  <2>3. TypeOK'
    <3>1. connectInProgress' \in BOOLEAN
      BY <2>1
    <3>2. activeNode' \in Nodes \cup {None}
      BY <2>1 DEF TypeOK
    <3> QED BY <1>1, <2>2, <3>1, <3>2, MovedTypes DEF TypeOK
  <2>4. LoaderInv' /\ ChainInv'
    BY <1>1, <2>1, <2>2, LoaderEnds
  <2>5. NodeInv'
    BY <2>2, MovedNodes
  <2>6. FaultyInv'
    BY <1>1, <2>2, FaultyAside DEF FaultyInv
  <2> QED BY <2>3, <2>4, <2>5, <2>6
<1> HIDE DEF TransitionInv
<1> QED BY <1>2, <1>3 DEF loadStores

\* The pings that go on behind the connection.
LEMMA BackgroundPingsKeep ==
    ASSUME TransitionInv, backgroundPings
    PROVE  TransitionInv'
<1> USE DEF TransitionInv
<1>1. /\ known' \subseteq Nodes /\ faulty' \subseteq faulty /\ known' \cap faulty' = {}
      /\ pings' \in {"none", "waiting", "running"} /\ flag' \in {"none", "busy", "background"}
      /\ UNCHANGED <<call, connectInProgress, oldChain, auto, manager, apiServer, activeNode,
                     owner, db, shown>>
  BY DEF backgroundPings, TypeOK, FaultyInv
<1>2. TypeOK'
  BY <1>1 DEF TypeOK
<1>3. LoaderInv' /\ ChainInv' /\ NodeInv'
  BY <1>1 DEF LoaderInv, ChainInv, NodeInv
<1>4. FaultyInv'
  BY <1>1 DEF FaultyInv, Chosen, ChosenIn
<1> QED BY <1>2, <1>3, <1>4

\* The user chooses a node, or the automatic selection.
LEMMA ActivateKeeps ==
    ASSUME TransitionInv, NEW c \in Calls, activate(c)
    PROVE  TransitionInv'
<1> USE DEF TransitionInv
<1>1. PICK url \in Nodes \cup {AutoSelect} :
         /\ apiServer' = url /\ faulty' = faulty \ {url}
         /\ call' = [call EXCEPT ![c].at = IF activeNode # url THEN "timer" ELSE "refused",
                                ![c].node = IF url = AutoSelect THEN None ELSE url]
  BY DEF activate
<1>2. /\ call[c].at = "idle" /\ call[c].at \notin Loaders
      /\ UNCHANGED <<pings, flag, connectInProgress, oldChain, auto, manager, known, activeNode,
                     owner, db, shown>>
  BY DEF activate, Loaders
<1>3. PICK at \in {"timer", "refused"}, node \in Nodes \cup {None} :
         Moves(c, at, node, call[c].chain) /\ (url \in Nodes => node = url)
  <2> DEFINE at == IF activeNode # url THEN "timer" ELSE "refused"
             node == IF url = AutoSelect THEN None ELSE url
  <2>1. /\ at \in {"timer", "refused"} /\ at \in Places /\ node \in Nodes \cup {None}
        /\ call[c].chain \in ChainsOfNodes \cup {None} /\ (url \in Nodes => node = url)
    BY NodeTransitionAssumption DEF TypeOK, Places
  <2>2. call' = [call EXCEPT ![c].at = at, ![c].node = node]
    BY <1>1
  <2> HIDE DEF at, node
  <2> QED BY <2>1, <2>2, Moved
<1>4. TypeOK'
  BY <1>1, <1>2, <1>3, MovedTypes DEF TypeOK
<1>5. LoaderInv' /\ ChainInv'
  BY <1>2, <1>3, LoaderAside DEF Loaders
<1>6. NodeInv'
  BY <1>3, MovedNodes
<1>7. FaultyInv'
  <2>1. known' \cap faulty' = {}
    BY <1>1, <1>2 DEF FaultyInv
  <2>2. CASE url \in Nodes
    BY <1>1, <1>3, <2>1, <2>2, FaultyChosen
  <2>3. CASE url \notin Nodes
    BY <1>1, <2>1, <2>3, FaultyForgotten
  <2> QED BY <2>2, <2>3
<1> QED BY <1>4, <1>5, <1>6, <1>7

\* The user asks for the latencies again.
LEMMA RecalculateKeeps ==
    ASSUME TransitionInv, NEW c \in Calls, recalculateLatency(c)
    PROVE  TransitionInv'
<1> USE DEF TransitionInv
<1>1. /\ call[c].at = "idle" /\ call[c].at \notin Loaders /\ call[c].at \notin Witnesses
      /\ flag' = "busy" /\ known' = {}
      /\ UNCHANGED <<pings, connectInProgress, oldChain, auto, manager, apiServer, activeNode,
                     owner, db, shown, faulty>>
  BY DEF recalculateLatency, Loaders, Witnesses
<1>2. Moves(c, "recalculating", manager, call[c].chain)
  <2>1. call[c].chain \in ChainsOfNodes \cup {None} /\ manager \in Nodes \cup {None}
    BY DEF TypeOK
  <2> QED BY <2>1, Moved DEF recalculateLatency, Places
<1>3. TypeOK'
  BY <1>1, <1>2, MovedTypes DEF TypeOK
<1>4. LoaderInv' /\ ChainInv'
  BY <1>1, <1>2, LoaderAside DEF Loaders
<1>5. NodeInv'
  BY <1>2, MovedNodes
<1>6. FaultyInv'
  BY <1>1, <1>2, FaultyAside
<1> QED BY <1>3, <1>4, <1>5, <1>6

\* The application has just started.
LEMMA TransitionInit == Init => TransitionInv
<1> SUFFICES ASSUME Init PROVE TransitionInv
  OBVIOUS
<1>1. TypeOK
  BY NodeTransitionAssumption DEF Init, TypeOK, Places
<1>2. LoaderInv /\ ChainInv /\ NodeInv
  BY DEF Init, LoaderInv, ChainInv, NodeInv, Loaders
<1>3. FaultyInv
  BY DEF Init, FaultyInv
<1> QED BY <1>1, <1>2, <1>3 DEF TransitionInv

\* Every step keeps the invariant, action by action.
LEMMA TransitionNext == TransitionInv /\ [Next]_nodeTransitionVars => TransitionInv'
<1> SUFFICES ASSUME TransitionInv, [Next]_nodeTransitionVars PROVE TransitionInv'
  OBVIOUS
<1>1. CASE startApplication
  BY <1>1, WillKeeps, NodeTransitionAssumption DEF startApplication
<1>2. CASE backgroundPings
  BY <1>2, BackgroundPingsKeep
<1>3. ASSUME NEW c \in Calls, answers(c) PROVE TransitionInv'
  <2>1. CASE latencyDone(c)
    BY <2>1, LatencyDoneKeeps
  <2>2. CASE fallbackAnswers(c)
    BY <2>2, FallbackKeeps
  <2>3. CASE noLocalStorage(c)
    BY <2>3, NoLocalStorageKeeps
  <2>4. CASE resetAnswers(c)
    BY <2>4, ResetAnswersKeeps
  <2>5. CASE onResetError(c)
    BY <2>5, OnResetErrorKeeps
  <2>6. CASE retry(c)
    BY <2>6, WillKeeps DEF retry
  <2>7. CASE databaseOpened(c)
    BY <2>7, DatabaseOpenedKeeps
  <2>8. CASE loadStores(c)
    BY <2>8, LoadStoresKeeps
  <2>9. CASE activateTimer(c)
    BY <2>9, WillKeeps DEF activateTimer
  <2> QED BY <1>3, <2>1, <2>2, <2>3, <2>4, <2>5, <2>6, <2>7, <2>8, <2>9 DEF answers
<1>4. ASSUME NEW c \in Calls, onResetError(c) PROVE TransitionInv'
  BY <1>4, OnResetErrorKeeps
<1>5. ASSUME NEW c \in Calls, triggerReconnect(c) PROVE TransitionInv'
  BY <1>5, WillKeeps DEF triggerReconnect
<1>6. ASSUME NEW c \in Calls, activate(c) PROVE TransitionInv'
  BY <1>6, ActivateKeeps
<1>7. ASSUME NEW c \in Calls, recalculateLatency(c) PROVE TransitionInv'
  BY <1>7, RecalculateKeeps
<1>8. CASE UNCHANGED nodeTransitionVars
  BY <1>8 DEF nodeTransitionVars, callVars, TransitionInv, TypeOK, LoaderInv, ChainInv, NodeInv,
              FaultyInv, Chosen, ChosenIn
<1> QED BY <1>1, <1>2, <1>3, <1>4, <1>5, <1>6, <1>7, <1>8 DEF Next

\* The invariant holds throughout.
LEMMA TransitionInvariant == Spec => []TransitionInv
<1> QED BY TransitionInit, TransitionNext, PTL DEF Spec

-----------------------------------------------------------------------------
(* The theorems.                                                           *)

\* The transitioner, its calls and the settings keep their types.
THEOREM TransitionTypes == Spec => []TypeOK
<1>1. TransitionInv => TypeOK
  BY DEF TransitionInv
<1> QED BY <1>1, TransitionInvariant, PTL

\* However many calls of willTransitionTo overlap, exactly one loads the stores while
\* _connectInProgress is set and none while it is not, and what it loads from is the
\* database of its chain, or none.
THEOREM OneCallLoads == Spec => []OneLoader
<1>1. ASSUME TransitionInv PROVE OneLoader
  <2> DEFINE loading == {c \in Calls : call[c].at \in Loaders}
  <2>1. LoaderInv
    BY <1>1 DEF TransitionInv
  <2>2. Cardinality(loading) = IF connectInProgress THEN 1 ELSE 0
    <3>1. CASE connectInProgress
      <4>1. PICK c \in Calls : call[c].at \in Loaders
        BY <2>1, <3>1 DEF LoaderInv
      <4>2. loading = {c}
        BY <2>1, <4>1 DEF LoaderInv
      <4> QED BY <3>1, <4>2, FS_Singleton
    <3>2. CASE ~ connectInProgress
      <4>1. loading = {}
        BY <2>1, <3>2 DEF LoaderInv
      <4> QED BY <3>2, <4>1, FS_EmptySet
    <3> QED BY <3>1, <3>2
  <2>3. \A c \in Calls : call[c].at \in {"loading", "rejected"} => db \in {None, call[c].chain}
    BY <2>1 DEF LoaderInv, Loaders
  <2> QED BY <2>2, <2>3 DEF OneLoader
<1> QED BY <1>1, TransitionInvariant, PTL

\* A step of a call moves no other call, and takes it from closing only by the retry.
LEMMA ClosingRetries ==
    ASSUME TypeOK, Next, NEW c \in Calls, call[c].at = "closing", call'[c].at = "fallback"
    PROVE  retry(c)
<1> DEFINE Others(d) == \A e \in Calls : e # d => call'[e] = call[e]
<1>1. ASSUME NEW d \in Calls, Others(d), call[d].at # "closing" PROVE FALSE
  BY <1>1
<1>2. ASSUME NEW d \in Calls, NEW appInit \in BOOLEAN, willTransitionTo(d, appInit)
      PROVE  Others(d)
  BY <1>2, WillDoes DEF Moves
<1>3. ASSUME NEW d \in Calls
      PROVE  /\ End(d) => Others(d)
             /\ \A at : Goto(d, at) => Others(d)
             /\ \A at, node : call' = [call EXCEPT ![d].at = at, ![d].node = node] => Others(d)
             /\ \A at, url : loadNext(d, at, url) => Others(d)
             /\ \A url : onConnect(d, url) => Others(d)
  <2>1. \A job : call' = [call EXCEPT ![d] = job] => Others(d)
    BY DEF TypeOK
  <2>2. End(d) => Others(d)
    BY <2>1 DEF End
  <2>3. \A at : Goto(d, at) => Others(d)
    BY DEF Goto, TypeOK
  <2>4. \A at, node : call' = [call EXCEPT ![d].at = at, ![d].node = node] => Others(d)
    BY DEF TypeOK
  <2>5. \A at, url : loadNext(d, at, url) => Others(d)
    BY DEF loadNext, TypeOK
  <2>6. \A url : onConnect(d, url) => Others(d)
    BY <2>2, <2>5 DEF onConnect
  <2> QED BY <2>2, <2>3, <2>4, <2>5, <2>6
<1> HIDE DEF Others
<1>4. CASE startApplication
  BY <1>1, <1>2, <1>4, NodeTransitionAssumption DEF startApplication
<1>5. CASE backgroundPings
  BY <1>5 DEF backgroundPings
<1>6. ASSUME NEW d \in Calls, answers(d) PROVE retry(c)
  <2>1. CASE latencyDone(d)
    <3>1. End(d) \/ \E at, node : call' = [call EXCEPT ![d].at = at, ![d].node = node]
      BY <2>1 DEF latencyDone, initiateConnection
    <3>2. call[d].at # "closing"
      BY <2>1 DEF latencyDone, Starting
    <3> QED BY <1>1, <1>3, <3>1, <3>2
  <2>2. CASE fallbackAnswers(d)
    <3>1. End(d) \/ \E url \in Nodes : onConnect(d, url)
      BY <2>2 DEF fallbackAnswers
    <3>2. call[d].at # "closing"
      BY <2>2 DEF fallbackAnswers
    <3> QED BY <1>1, <1>3, <3>1, <3>2
  <2>3. CASE noLocalStorage(d)
    BY <1>1, <1>3, <2>3 DEF noLocalStorage
  <2>4. CASE resetAnswers(d)
    BY <1>1, <1>3, <2>4 DEF resetAnswers
  <2>5. CASE onResetError(d)
    BY <1>1, <1>3, <2>5 DEF onResetError
  <2>6. CASE retry(d)
    <3>1. Others(d)
      BY <1>2, <2>6 DEF retry
    <3> QED BY <2>6, <3>1 DEF Others
  <2>7. CASE databaseOpened(d)
    <3>1. End(d) \/ Goto(d, "loading")
      BY <2>7 DEF databaseOpened
    <3>2. call[d].at # "closing"
      BY <2>7 DEF databaseOpened
    <3> QED BY <1>1, <1>3, <3>1, <3>2
  <2>8. CASE loadStores(d)
    <3>1. End(d) \/ Goto(d, "rejected")
      BY <2>8 DEF loadStores, loadFailed, walletFailed, storesLoaded
    <3>2. call[d].at # "closing"
      BY <2>8 DEF loadStores, loadFailed, walletFailed, storesLoaded
    <3> QED BY <1>1, <1>3, <3>1, <3>2
  <2>9. CASE activateTimer(d)
    BY <1>1, <1>2, <2>9 DEF activateTimer
  <2> QED BY <1>6, <2>1, <2>2, <2>3, <2>4, <2>5, <2>6, <2>7, <2>8, <2>9 DEF answers
<1>7. ASSUME NEW d \in Calls, onResetError(d) \/ recalculateLatency(d) PROVE FALSE
  <2>1. \/ Goto(d, "closing")
        \/ \E at, node : call' = [call EXCEPT ![d].at = at, ![d].node = node]
    BY <1>7 DEF onResetError, recalculateLatency
  <2>2. call[d].at # "closing"
    BY <1>7 DEF onResetError, recalculateLatency
  <2> QED BY <1>1, <1>3, <2>1, <2>2
<1>8. ASSUME NEW d \in Calls, triggerReconnect(d) PROVE FALSE
  BY <1>1, <1>2, <1>8 DEF triggerReconnect
<1>9. ASSUME NEW d \in Calls, activate(d) PROVE FALSE
  <2>1. PICK url \in Nodes \cup {AutoSelect} :
           call' = [call EXCEPT ![d].at = IF activeNode # url THEN "timer" ELSE "refused",
                                ![d].node = IF url = AutoSelect THEN None ELSE url]
    BY <1>9 DEF activate
  <2>2. call[d].at # "closing"
    BY <1>9 DEF activate
  <2> QED BY <1>1, <1>3, <2>1, <2>2
<1> QED BY <1>4, <1>5, <1>6, <1>7, <1>8, <1>9 DEF Next

\* The retry begins with a node of FirstToTry: the last one, which failed only if it was
\* chosen meanwhile, or one with a latency, which no faulty node has.
LEMMA RetryTriesOthers ==
    ASSUME TransitionInv, NEW c \in Calls, retry(c), call'[c].at = "fallback"
    PROVE  manager' \notin faulty \/ Chosen(manager')
<1>1. TypeOK /\ FaultyInv
  BY DEF TransitionInv
<1>2. manager' \in FirstToTry /\ known # {}
  BY <1>1, WillDoes DEF retry, Moves
<1>3. CASE apiServer \in Nodes
  BY <1>1, <1>2, <1>3, FirstNodes DEF FaultyInv
<1>4. CASE apiServer \notin Nodes
  BY <1>1, <1>2, <1>4, FirstNodes DEF FaultyInv
<1> QED BY <1>3, <1>4

\* "so we don't connect to a faulty node twice" (routerTransition.js:645): however the
\* transitions, the pings and the choices of the user interleave, the retry after a
\* failed reconnect begins with a node that failed only if that node was chosen.
THEOREM FaultyNodesAreAvoided == Spec => FaultyNotRetried
<1>1. TransitionInv /\ [Next]_nodeTransitionVars
        => [\A c \in Calls : call[c].at = "closing" /\ call'[c].at = "fallback"
                               => manager' \notin faulty \/ Chosen(manager')]_nodeTransitionVars
  BY ClosingRetries, RetryTriesOthers DEF TransitionInv
<1> QED BY <1>1, TransitionInvariant, PTL DEF Spec, FaultyNotRetried
=============================================================================
