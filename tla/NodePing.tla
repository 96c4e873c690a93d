------------------------------ MODULE NodePing ------------------------------
(***************************************************************************)
(* The latency update of src/app/routerTransition.js: doLatencyUpdate,     *)
(* PingStrategy, Pinger and DirectPinger.                                  *)
(*                                                                         *)
(* The strategy decides which nodes are pinged next: the last node, two of *)
(* each region (or the preferred country), the country and the region of   *)
(* the best node, the rest.  The pinger pings its list in batches; when a  *)
(* batch satisfies it, or the list is exhausted, it calls its callback,    *)
(* which adds nodes and calls the pinger again, on the same stack.  When   *)
(* the strategy is done the remaining nodes are pinged in the background,  *)
(* as soon as no transition is in progress.                                *)
(***************************************************************************)
EXTENDS Integers, Sequences, FiniteSets

CONSTANTS Urls,           \* the configured nodes
          Region,         \* of each node
          Country,        \* of each node
          Null,           \* no last node, no preference, no best node
          range           \* _range: nodes in a batch

ASSUME NodePingAssumption ==
    /\ IsFiniteSet(Urls) /\ Null \notin Urls
    /\ DOMAIN Region = Urls /\ DOMAIN Country = Urls
    /\ \A n \in Urls : Region[n] # Null /\ Country[n] # Null
    /\ range \in Nat \ {0}

VARIABLES preferences,    \* region and country of the previous update's best node
          callback,       \* the pinger's callback
          called,         \* _callbackWasCalled
          nodeURLs,       \* the pinger's list
          current,        \* how many of them were pinged
          pinging,        \* the batch that is on its way
          tick,           \* the timer of the next batch is running
          counter,        \* answers that are instant, low, medium
          suitable,       \* _suitableNodeFound
          background,     \* _pingInBackGround
          starter,        \* the timer that starts the background pings
          latency,        \* the pinger's local map
          inProgress,     \* _willTransitionToInProgress
          other,          \* another transition is in progress
          asked,          \* history: pings of each node
          done            \* history: calls of done_pinging

pingerVars == <<callback, called, nodeURLs, current, pinging, tick, counter, suitable,
                background, asked, done>>
nodePingVars == <<pingerVars, preferences, starter, latency, inProgress, other>>

\* Classes of the answers of a foreground ping: below 500, 800 and 1500 ms, slower,
\* and none within two seconds.
Answers == {"instant", "low", "medium", "slow", "none"}
Rank == [instant |-> 1, low |-> 2, medium |-> 3, slow |-> 4]
Stages == {"decideNext", "country", "region", "rest", "done_pinging"}

PingTypeOK ==
    /\ preferences \in [region : {Region[n] : n \in Urls} \cup {Null},
                        country : {Country[n] : n \in Urls} \cup {Null}]
    /\ callback \in Stages \cup {"background_done"}
    /\ called \in BOOLEAN /\ tick \in BOOLEAN /\ suitable \in BOOLEAN
    /\ background \in BOOLEAN /\ starter \in BOOLEAN /\ other \in BOOLEAN
    /\ nodeURLs \in Seq(Urls)
    /\ current \in 0..Len(nodeURLs)
    /\ pinging \subseteq Urls
    /\ counter \in [{"instant", "low", "medium"} -> Nat]
    /\ latency \in [Urls -> Answers \cup {"unknown"}]
    /\ inProgress \in {"none", "busy", "background"}
    /\ asked \in [Urls -> Nat] /\ done \in Nat

-----------------------------------------------------------------------------
(* The strategy.                                                           *)

Listed == {nodeURLs[k] : k \in 1..Len(nodeURLs)}
Orders(S) == {s \in [1..Cardinality(S) -> S] : \A j, k \in DOMAIN s : s[j] = s[k] => j = k}

\* The fastest of the nodes that answered; when none has, the first server of the
\* configuration, which may have no region.
BestNodes ==
    LET reached == {n \in Urls : latency[n] \in DOMAIN Rank}
    IN  IF reached = {} THEN Urls \cup {Null}
        ELSE {n \in reached : \A m \in reached : Rank[latency[n]] <= Rank[latency[m]]}

\* getFromEachRegion: two nodes of each region.
FromEachRegion(S) ==
    /\ S \subseteq Urls
    /\ \A n \in Urls :
          LET all == {m \in Urls : Region[m] = Region[n]}
          IN  Cardinality(S \cap all) = IF Cardinality(all) < 2 THEN 1 ELSE 2

\* Mutant: the callback that pings the rest is not given.
RestForgotten(c) ==
    IF c = "decideNext" THEN <<"world", "country", "region">>
    ELSE IF c = "country" THEN <<"country", "region">>
    ELSE IF c = "region" THEN <<"region">> ELSE <<>>

\* What follows a callback, the first of which is called with its preferences.
Following(c) ==
    CASE c = "decideNext" /\ preferences.region # Null /\ preferences.country # Null
                          -> <<"preferredCountry", "region", "rest">>
      [] c = "decideNext" /\ preferences.region # Null /\ preferences.country = Null
                          -> <<"preferredRegion", "rest">>
      [] c = "decideNext" /\ preferences.region = Null
                          -> <<"world", "country", "region", "rest">>
      [] c = "country"    -> <<"country", "region", "rest">>
      [] c = "region"     -> <<"region", "rest">>
      [] c = "rest"       -> <<"rest">>
      [] OTHER            -> <<>>

\* The callback a stage gives to the pinger.
CallbackOf == [world |-> "country", preferredCountry |-> "region", country |-> "region",
               preferredRegion |-> "rest", region |-> "rest", rest |-> "done_pinging"]

NodesOf(s, best, world) ==
    CASE s = "world" -> world
      [] s = "preferredCountry" -> {n \in Urls : Region[n] = preferences.region
                                                  /\ Country[n] = preferences.country}
      [] s = "preferredRegion" -> {n \in Urls : Region[n] = preferences.region}
      [] s = "country" -> IF best = Null THEN {}
                          ELSE {n \in Urls : Region[n] = Region[best]
                                              /\ Country[n] = Country[best]}
      [] s = "region" -> IF best = Null THEN {} ELSE {n \in Urls : Region[n] = Region[best]}
      [] s = "rest" -> Urls

\* addNodes ignores what the list has.
addNodes(S) == S \ Listed

-----------------------------------------------------------------------------
(* The pinger.                                                             *)

\* The first batch of list from position from.
Batch(list, from) == {list[k] : k \in {j \in 1..Len(list) : from < j /\ j <= from + range}}

Ping(list) ==
    /\ nodeURLs' = list
    /\ pinging' = Batch(list, current)
    /\ asked' = [n \in Urls |-> IF n \in pinging' THEN asked[n] + 1 ELSE asked[n]]
    /\ tick' = FALSE

\* Mutant: the background pings keep the callback of the strategy.
KeepCallback == /\ callback' = "done_pinging" /\ called' = FALSE

BackgroundCallback == /\ callback' = "background_done" /\ called' = (current = Len(nodeURLs))

\* done_pinging: the promise of the update resolves.
done_pinging(list) ==
    /\ done' = done + 1 /\ called' = TRUE /\ callback' = "done_pinging"
    /\ nodeURLs' = list /\ tick' = FALSE
    /\ starter' = TRUE /\ inProgress' = "none"
    /\ UNCHANGED <<pinging, asked>>

\* The callbacks that run on one stack: of the stages that follow, the first with
\* a node to ping, or the end if the pinger is satisfied or none has one.  The
\* pinger that called back clears the flag afterwards, pings or not.
runCallbacks(c) ==
    \E best \in BestNodes, world \in SUBSET Urls :
        /\ FromEachRegion(world)
        /\ LET stages == Following(c)
               new(k) == addNodes(NodesOf(stages[k], best, world))
               open   == {k \in 1..Len(stages) : new(k) # {}}
           IN  IF suitable \/ open = {}
               THEN \E rest \in Orders(Urls \ Listed) : done_pinging(nodeURLs \o rest)
               ELSE LET k == CHOOSE k \in open : \A j \in open : k <= j
                    IN  /\ \E order \in Orders(new(k)) : Ping(nodeURLs \o order)
                        /\ callback' = CallbackOf[stages[k]] /\ called' = FALSE
                        /\ inProgress' = "none"
                        /\ UNCHANGED <<done, starter>>
    /\ UNCHANGED <<current, counter, suitable, background>>

\* _pingNodesInBatches, called by its timer.
nextBatch ==
    /\ current < Len(nodeURLs) /\ (~ suitable \/ background)
    /\ Ping(nodeURLs)
    /\ inProgress' = IF background THEN "background" ELSE "busy"
    /\ UNCHANGED <<callback, called, current, counter, suitable, background, done, starter>>

\* The list is exhausted or the pinger is satisfied: the callback is called once.
callBack ==
    /\ ~ called /\ (suitable \/ current = Len(nodeURLs))
    /\ IF callback = "background_done"
       THEN /\ called' = TRUE /\ tick' = FALSE /\ inProgress' = "none"
            /\ UNCHANGED <<callback, nodeURLs, current, pinging, counter, suitable, background,
                           asked, done, starter>>
       ELSE runCallbacks(callback)

pingNodesInBatches ==
    /\ tick
    /\ nextBatch \/ callBack
    /\ UNCHANGED <<preferences, latency, other>>

\* null < 500: a node that does not answer counts as an instant answer.
Counted(res) ==
    LET count(c) == Cardinality({n \in DOMAIN res : res[n] = c})
    IN  [counter EXCEPT !.instant = @ + count("instant") + count("none"),
                        !.low = @ + count("low"), !.medium = @ + count("medium")]

\* Mutant: the next batch waits for an answer.
AnsweredOnly ==
    /\ pinging # {}
    /\ \E res \in [pinging -> Answers] :
          /\ latency' = [n \in Urls |-> IF n \in pinging THEN res[n] ELSE latency[n]]
          /\ counter' = IF background THEN counter ELSE Counted(res)
          /\ tick' = (\E n \in pinging : res[n] # "none")
    /\ suitable' = (suitable \/ counter'.instant > 0 \/ counter'.low >= 2
                    \/ counter'.medium >= 3)
    /\ current' = current + Cardinality(pinging)
    /\ pinging' = {}
    /\ UNCHANGED <<preferences, callback, called, nodeURLs, background, starter, inProgress, other,
                   asked, done>>

\* DirectPinger.check resolves, after two seconds at most; nothing satisfies the
\* pinger in the background.
handlePingResult ==
    /\ pinging # {}
    /\ \E res \in [pinging -> Answers] :
          /\ latency' = [n \in Urls |-> IF n \in pinging THEN res[n] ELSE latency[n]]
          /\ counter' = IF background THEN counter ELSE Counted(res)
    /\ suitable' = (suitable \/ counter'.instant > 0 \/ counter'.low >= 2
                    \/ counter'.medium >= 3)
    /\ current' = current + Cardinality(pinging)
    /\ pinging' = {} /\ tick' = TRUE
    /\ UNCHANGED <<preferences, callback, called, nodeURLs, background, starter, inProgress, other,
                   asked, done>>

-----------------------------------------------------------------------------
(* The background, and everyone else who uses the flag.                    *)

\* The state in which strategy.ping has returned: the last node is pinged first,
\* unless the node is selected automatically.
PingInit ==
    /\ preferences \in {[region |-> Region[n], country |-> Country[n]] : n \in Urls}
                  \cup {[region |-> Region[n], country |-> Null] : n \in Urls}
                  \cup {[region |-> Null, country |-> Null]}
    /\ called = FALSE /\ current = 0 /\ tick = FALSE
    /\ \/ \E last \in Urls : nodeURLs = <<last>> /\ callback = "decideNext"
       \/ \E world \in SUBSET Urls :
             LET s == IF preferences.region = Null THEN "world"
                      ELSE IF preferences.country = Null THEN "preferredRegion"
                      ELSE "preferredCountry"
             IN  /\ FromEachRegion(world)
                 /\ nodeURLs \in Orders(NodesOf(s, Null, world))
                 /\ callback = CallbackOf[s]
    /\ pinging = Batch(nodeURLs, 0)
    /\ asked = [n \in Urls |-> IF n \in pinging THEN 1 ELSE 0]
    /\ counter = [instant |-> 0, low |-> 0, medium |-> 0]
    /\ suitable = FALSE /\ background = FALSE /\ starter = FALSE
    /\ latency = [n \in Urls |-> "unknown"]
    /\ inProgress = "busy" /\ other = FALSE /\ done = 0

\* Mutant: the timer is not set again while a transition is in progress.
StartOnce ==
    /\ starter /\ starter' = FALSE
    /\ IF inProgress # "none"
       THEN UNCHANGED <<pingerVars, inProgress>>
       ELSE /\ counter' = [instant |-> 0, low |-> 0, medium |-> 0]
            /\ suitable' = FALSE /\ background' = TRUE
            /\ BackgroundCallback
            /\ Ping(nodeURLs)
            /\ inProgress' = IF pinging' = {} THEN "none" ELSE "background"
            /\ UNCHANGED <<current, done>>
    /\ UNCHANGED <<preferences, latency, other>>

\* enableBackgroundPinging and pingNodes, once the flag is clear; while it is not,
\* the timer is set again.
enableBackgroundPinging ==
    /\ starter /\ inProgress = "none" /\ starter' = FALSE
    /\ counter' = [instant |-> 0, low |-> 0, medium |-> 0]
    /\ suitable' = FALSE /\ background' = TRUE
    /\ BackgroundCallback
    /\ Ping(nodeURLs)
    /\ inProgress' = IF pinging' = {} THEN "none" ELSE "background"
    /\ UNCHANGED <<preferences, latency, current, done, other>>

\* willTransitionTo of the footer or the settings, which waits for no flag but
\* "busy", or another latency update.
otherTransition ==
    /\ ~ other /\ other' = TRUE /\ inProgress' = "busy"
    /\ UNCHANGED <<pingerVars, preferences, starter, latency>>

otherDone ==
    /\ other /\ other' = FALSE /\ inProgress' = "none"
    /\ UNCHANGED <<pingerVars, preferences, starter, latency>>

PingNext ==
    \/ pingNodesInBatches \/ handlePingResult
    \/ enableBackgroundPinging
    \/ otherTransition \/ otherDone

\* The timers fire and DirectPinger answers within two seconds; no fairness for
\* other transitions, which may wait for a node forever.
PingSpec ==
    /\ PingInit /\ [][PingNext]_nodePingVars
    /\ WF_nodePingVars(pingNodesInBatches) /\ WF_nodePingVars(handlePingResult)
    /\ WF_nodePingVars(enableBackgroundPinging)

-----------------------------------------------------------------------------
(* What is promised.                                                       *)

\* routerTransition.js:831 "Duplicates are ignored": through all stages of the
\* strategy and the background pings each node is asked at most once, and the
\* promise of the update resolves once although the pinger calls back again.
AtMostOnce == done <= 1 /\ \A n \in Urls : asked[n] <= 1

\* The update ends only when the pinger is satisfied or every node was asked,
\* whichever stage it was in.
DoneMeansSatisfied ==
    [][done' # done => suitable \/ \A n \in Urls : asked[n] = 1]_nodePingVars

\* Every update ends, whatever the nodes answer and others do to the flag.
EventuallyDone == <>(done = 1)

\* Unless other transitions go on forever, every node is asked: the background
\* pings finish what the update left, however often they had to wait.
EventuallyAllAsked == []<>other \/ <>(\A n \in Urls : asked[n] = 1)

\* routerTransition.js:196 "resolve when sufficiently small latency has been found".
SuitableWasReached ==
    suitable => \E n \in Urls : latency[n] \in {"instant", "low", "medium"}
=============================================================================
