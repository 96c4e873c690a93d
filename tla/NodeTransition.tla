--------------------------- MODULE NodeTransition ---------------------------
(***************************************************************************)
(* The transition to a node of src/app/routerTransition.js:                *)
(* willTransitionTo, _initiateConnection, _attemptReconnect, _onConnect,   *)
(* _onResetError and _transitionDone, and who calls them: the start of the *)
(* application, the footer and the settings.                               *)
(*                                                                         *)
(* The transitioner is a singleton: all calls share its flag, its          *)
(* connection manager, the API socket, the database and the settings.  A   *)
(* call is refused while the flag is set, but the flag is also set and     *)
(* cleared by latency updates and background pings (module NodePing), and  *)
(* by the end of another call: transitions overlap, and the first that is  *)
(* connected loads the stores.                                             *)
(***************************************************************************)
EXTENDS Naturals, FiniteSets

CONSTANTS Nodes,          \* the configured nodes
          Chain,          \* of each node
          None,           \* no node, no chain, no call
          AutoSelect,     \* the node that stands for automatic selection
          Calls,          \* calls of willTransitionTo and of the latency update
          AppInit         \* the one that starts the application

ASSUME NodeTransitionAssumption ==
    /\ IsFiniteSet(Nodes) /\ None \notin Nodes /\ AutoSelect \notin Nodes /\ AutoSelect # None
    /\ DOMAIN Chain = Nodes /\ \A n \in Nodes : Chain[n] # None
    /\ IsFiniteSet(Calls) /\ AppInit \in Calls /\ None \notin Calls

VARIABLES call,           \* each call: where it is, its node, the chain it found
          pings,          \* background pings, of the latency update of any call
          flag,           \* _willTransitionToInProgress
          connectInProgress,
          oldChain,       \* _oldChain; None is null and "old"
          auto,           \* _autoSelection
          manager,        \* _connectionManager.url
          known,          \* nodes with a latency
          apiServer,      \* setting: the node the user chose, or the last one
          activeNode,     \* setting: the node the views show
          owner,          \* the call that opened the API socket last
          db,             \* the chain whose database is open
          shown,          \* what AppInit shows
          faulty          \* history: failed, and neither reached nor chosen since

callVars == <<pings, flag, connectInProgress, oldChain, auto, manager, known, apiServer,
              activeNode, owner, db, shown, faulty>>
nodeTransitionVars == <<call, callVars>>

Loaders == {"opening", "loading", "rejected"}
Places == {"idle", "timer", "latencyInit", "latencyReset", "recalculating", "fallback", "reset",
           "closing", "alerted", "refused", "ended"} \cup Loaders

ChainsOfNodes == {Chain[n] : n \in Nodes}

TypeOK ==
    /\ call \in [Calls -> [at: Places, node: Nodes \cup {None}, chain: ChainsOfNodes \cup {None}]]
    /\ pings \in {"none", "waiting", "running"}
    /\ flag \in {"none", "busy", "background"}
    /\ connectInProgress \in BOOLEAN /\ auto \in BOOLEAN
    /\ oldChain \in ChainsOfNodes \cup {None} /\ db \in ChainsOfNodes \cup {None}
    /\ manager \in Nodes \cup {None} /\ activeNode \in Nodes \cup {None}
    /\ known \subseteq Nodes /\ faulty \subseteq Nodes
    /\ apiServer \in Nodes \cup {None, AutoSelect}
    /\ owner \in Calls \cup {None}
    /\ shown \in {"waiting", "connected", "error", "syncError"}

-----------------------------------------------------------------------------
(* The steps of a call.                                                    *)

Goto(c, place) == call' = [call EXCEPT ![c].at = place]
End(c) == call' = [call EXCEPT ![c] = [at |-> "ended", node |-> None, chain |-> None]]

\* The first of _getNodesToConnectTo: the fastest node with a latency, or any.
FirstUrl(S) == IF S # {} THEN S ELSE Nodes

\* Mutant: the dummy url of automatic selection is tried.
TryLast == IF apiServer # None THEN {apiServer} ELSE FirstUrl(known)

\* _getFirstToTry: the last node, unless there is none or selection is automatic.
FirstToTry == IF apiServer \in Nodes THEN {apiServer} ELSE FirstUrl(known)

\* _transitionDone; the promise of AppInit settles once, nobody else looks at it.
transitionDone(c, outcome) ==
    /\ flag' = "none"
    /\ shown' = IF c = AppInit /\ shown = "waiting" THEN outcome ELSE shown

\* Mutant: the node that the reconnect tries remains the last node.
InitiateKeeping(c, appInit, url, selectsAuto) ==
    /\ flag' = "busy"
    /\ IF appInit
       THEN /\ call' = [call EXCEPT ![c].at = "fallback", ![c].node = None]
            /\ UNCHANGED <<apiServer, oldChain, owner>>
       ELSE /\ call' = [call EXCEPT ![c].at = "reset", ![c].node = url]
            /\ oldChain' = None /\ owner' = c
            /\ UNCHANGED apiServer

\* _initiateConnection and _attemptReconnect: the start of the application falls
\* back to other nodes; a reconnect tries one, and forgets it in case it fails.
initiateConnection(c, appInit, url, selectsAuto) ==
    /\ flag' = "busy"
    /\ IF appInit
       THEN /\ call' = [call EXCEPT ![c].at = "fallback", ![c].node = None]
            /\ UNCHANGED <<apiServer, oldChain, owner>>
       ELSE /\ call' = [call EXCEPT ![c].at = "reset", ![c].node = url]
            /\ apiServer' = IF selectsAuto THEN apiServer ELSE None
            /\ oldChain' = None /\ owner' = c

\* The latencies are updated first when there are none, and at every eighth call.
startTransition(c, appInit) ==
    /\ auto' = (apiServer = AutoSelect)
    /\ \E url \in FirstToTry :
          /\ manager' = url
          /\ \/ /\ known # {}
                /\ initiateConnection(c, appInit, url, auto')
             \/ /\ flag' = "busy"
                /\ call' = [call EXCEPT ![c].at = IF appInit THEN "latencyInit"
                                                            ELSE "latencyReset",
                                       ![c].node = url]
                /\ UNCHANGED <<apiServer, oldChain, owner>>
    /\ UNCHANGED <<pings, connectInProgress, known, activeNode, db, shown, faulty>>

\* isTransitionInProgress: the promise resolves at once, and nothing happens.
refuse(c) == flag = "busy" /\ Goto(c, "refused") /\ UNCHANGED callVars

willTransitionTo(c, appInit) ==
    \/ refuse(c)
    \/ flag # "busy" /\ startTransition(c, appInit)

\* The call loads the stores of this chain next, or first opens its database.
loadNext(c, place, url) ==
    call' = [call EXCEPT ![c].at = place, ![c].node = None, ![c].chain = Chain[url]]

\* Mutant: a second answer loads the stores too.
ConnectAgain(c, url) ==
    /\ faulty' = faulty \ {url} /\ known' = known \cup {url} /\ oldChain' = Chain[url]
    /\ flag' = "busy" /\ connectInProgress' = TRUE /\ UNCHANGED shown
    /\ IF oldChain # Chain[url] THEN db' = None /\ loadNext(c, "opening", url)
       ELSE UNCHANGED db /\ loadNext(c, "loading", url)

\* _onConnect: while another call loads nothing happens; otherwise the database is
\* closed and opened again, unless it is the database of this chain.
onConnect(c, url) ==
    /\ faulty' = faulty \ {url}
    /\ IF connectInProgress
       THEN End(c) /\ UNCHANGED <<flag, connectInProgress, known, oldChain, db, shown>>
       ELSE /\ known' = known \cup {url} /\ oldChain' = Chain[url]
            /\ \/ /\ flag' = "busy" /\ connectInProgress' = TRUE /\ UNCHANGED shown
                  /\ IF oldChain # Chain[url] THEN db' = None /\ loadNext(c, "opening", url)
                     ELSE UNCHANGED db /\ loadNext(c, "loading", url)
               \* init_instance throws
               \/ /\ oldChain # Chain[url] /\ db' = None
                  /\ End(c) /\ UNCHANGED connectInProgress
                  /\ transitionDone(c, "error")

-----------------------------------------------------------------------------
(* The answers.                                                            *)

Starting(c) == call[c].at \in {"latencyInit", "latencyReset"}

\* Mutant: the transition does not go on after the latency update.
PingedOnly(c) ==
    /\ Starting(c) \/ call[c].at = "recalculating"
    /\ known' \in SUBSET Nodes /\ faulty' = faulty \ known'
    /\ pings' = IF pings = "running" THEN pings ELSE "waiting"
    /\ manager' \in IF auto THEN FirstUrl(known') ELSE {call[c].node}
    /\ flag' = "none" /\ End(c)
    /\ UNCHANGED <<connectInProgress, auto, activeNode, db, shown, apiServer, oldChain, owner>>

\* done_pinging: the best node with automatic selection, otherwise the node the
\* update began with.  A transition goes on at once; the rest of the nodes is
\* pinged in the background.
latencyDone(c) ==
    /\ Starting(c) \/ call[c].at = "recalculating"
    /\ known' \in SUBSET Nodes /\ faulty' = faulty \ known'
    /\ pings' = IF pings = "running" THEN pings ELSE "waiting"
    /\ manager' \in IF auto THEN FirstUrl(known') ELSE {call[c].node}
    /\ IF Starting(c)
       THEN initiateConnection(c, call[c].at = "latencyInit", manager', auto)
       ELSE /\ flag' = "none"
            /\ End(c)
            /\ UNCHANGED <<apiServer, oldChain, owner>>
    /\ UNCHANGED <<connectInProgress, auto, activeNode, db, shown>>

\* connectWithFallback: the manager reaches a node, or none.
fallbackAnswers(c) ==
    /\ call[c].at = "fallback"
    /\ \/ \E url \in Nodes :
             /\ manager' = url /\ owner' = c
             /\ activeNode' = IF url # manager THEN url ELSE activeNode
             /\ apiServer' = IF auto THEN apiServer ELSE url
             /\ onConnect(c, url)
       \/ /\ transitionDone(c, "error") /\ owner' = None
          /\ End(c)
          /\ UNCHANGED <<connectInProgress, oldChain, manager, known, apiServer, activeNode, db,
                         faulty>>
    /\ UNCHANGED <<pings, auto>>

\* InvalidStateError: an alert, and the transition never ends.
noLocalStorage(c) ==
    /\ call[c].at = "fallback" /\ Goto(c, "alerted")
    /\ UNCHANGED callVars

\* The socket of a reset opens, unless another call has replaced it.
resetAnswers(c) ==
    /\ call[c].at = "reset" /\ owner = c
    /\ onConnect(c, call[c].node)
    /\ apiServer' = IF auto \/ connectInProgress THEN apiServer ELSE call[c].node
    /\ UNCHANGED <<pings, auto, manager, activeNode, owner>>

\* _onResetError: forget the latency of the node, and close the socket, whoever
\* opened it last.
onResetError(c) ==
    /\ call[c].at = "reset"
    /\ flag' = "none" /\ oldChain' = None /\ owner' = None
    /\ known' = known \ {call[c].node}
    /\ faulty' = IF owner = c THEN faulty \cup {call[c].node} ELSE faulty
    /\ Goto(c, "closing")
    /\ UNCHANGED <<pings, connectInProgress, auto, manager, apiServer, activeNode, db, shown>>

\* Once closed the application is started again: a transition with fallback.
retry(c) == call[c].at = "closing" /\ willTransitionTo(c, TRUE)

\* The database is open and the cache of the chain store reset, or one has failed.
databaseOpened(c) ==
    /\ call[c].at = "opening"
    /\ \/ db' = call[c].chain /\ Goto(c, "loading") /\ UNCHANGED <<connectInProgress, flag, shown>>
       \/ /\ db' \in {None, call[c].chain}
          /\ connectInProgress' = FALSE /\ End(c)
          /\ transitionDone(c, IF db' = None THEN "error" ELSE "syncError")
    /\ UNCHANGED <<pings, oldChain, auto, manager, known, apiServer, activeNode, owner, faulty>>

\* Mutant: a failure leaves _connectInProgress set.
LoadFailedInProgress(c) ==
    /\ call[c].at \in {"loading", "rejected"}
    /\ End(c) /\ transitionDone(c, "error")
    /\ UNCHANGED <<connectInProgress, activeNode>>

\* The inner catch.
loadFailed(c) ==
    /\ call[c].at \in {"loading", "rejected"}
    /\ End(c) /\ transitionDone(c, "error")
    /\ connectInProgress' = FALSE
    /\ UNCHANGED activeNode

\* The wallet cannot be loaded: rejected at once, while the other stores load.
walletFailed(c) ==
    /\ call[c].at = "loading"
    /\ Goto(c, "rejected") /\ transitionDone(c, "error")
    /\ UNCHANGED <<connectInProgress, activeNode>>

storesLoaded(c) ==
    /\ call[c].at \in {"loading", "rejected"} /\ db # None
    /\ connectInProgress' = FALSE /\ activeNode' = manager
    /\ End(c) /\ transitionDone(c, "connected")

loadStores(c) ==
    /\ loadFailed(c) \/ walletFailed(c) \/ storesLoaded(c)
    /\ UNCHANGED <<pings, oldChain, auto, manager, known, apiServer, owner, db, faulty>>

-----------------------------------------------------------------------------
(* The background pings, of the latency update of any call.                *)

\* The pings begin when no transition is in progress, and go on whatever happens; a
\* batch is answered: some nodes have a latency now, others none.
backgroundPings ==
    /\ \/ pings = "waiting" /\ flag = "none" /\ UNCHANGED <<known, faulty>>
       \/ pings = "running" /\ known' \in SUBSET Nodes /\ faulty' = faulty \ known'
    /\ \/ pings' = "running" /\ flag' = "background"
       \/ pings' = "none" /\ flag' = "none"
    /\ UNCHANGED <<call, connectInProgress, oldChain, auto, manager, apiServer, activeNode,
                   owner, db, shown>>

-----------------------------------------------------------------------------
(* Who calls.                                                              *)

\* The views are there once AppInit shows them; the page of a sync error has the
\* settings of the nodes too.
Views == shown = "connected"
Settings == shown \in {"connected", "syncError"}

\* AppInit.UNSAFE_componentWillMount
startApplication ==
    /\ call[AppInit].at = "idle" /\ willTransitionTo(AppInit, TRUE)

\* Footer._triggerReconnect: by itself with automatic selection, or by the user.
triggerReconnect(c) ==
    /\ Views /\ call[c].at = "idle" /\ flag # "busy"
    /\ willTransitionTo(c, FALSE)

\* AccessSettings.activate: the setting changes at once, the transition starts
\* after 50 ms, unless the views show that node already.
activate(c) ==
    /\ Settings /\ call[c].at = "idle"
    /\ \E url \in Nodes \cup {AutoSelect} :
          /\ apiServer' = url /\ faulty' = faulty \ {url}
          /\ call' = [call EXCEPT ![c].at = IF activeNode # url THEN "timer" ELSE "refused",
                                 ![c].node = IF url = AutoSelect THEN None ELSE url]
    /\ UNCHANGED <<pings, flag, connectInProgress, oldChain, auto, manager, known, activeNode,
                   owner, db, shown>>

activateTimer(c) == call[c].at = "timer" /\ willTransitionTo(c, FALSE)

\* AccessSettings._recalculateLatency: the old latencies are dropped.
recalculateLatency(c) ==
    /\ Settings /\ call[c].at = "idle"
    /\ flag' = "busy" /\ known' = {}
    /\ call' = [call EXCEPT ![c].at = "recalculating", ![c].node = manager]
    /\ UNCHANGED <<pings, connectInProgress, oldChain, auto, manager, apiServer, activeNode,
                   owner, db, shown, faulty>>

Init ==
    /\ call = [c \in Calls |-> [at |-> "idle", node |-> None, chain |-> None]]
    /\ pings = "none"
    /\ flag = "none" /\ connectInProgress = FALSE /\ oldChain = None /\ auto = FALSE
    /\ manager = None /\ activeNode = None /\ owner = None /\ db = None
    /\ known \in SUBSET Nodes /\ apiServer \in Nodes \cup {AutoSelect}
    /\ shown = "waiting" /\ faulty = {}

answers(c) ==
    \/ latencyDone(c) \/ fallbackAnswers(c) \/ noLocalStorage(c)
    \/ resetAnswers(c) \/ (owner = c /\ onResetError(c))
    \/ retry(c) \/ databaseOpened(c) \/ loadStores(c)
    \/ activateTimer(c)

Next ==
    \/ startApplication \/ backgroundPings
    \/ \E c \in Calls :
          \/ answers(c) \/ onResetError(c)
          \/ triggerReconnect(c) \/ activate(c) \/ recalculateLatency(c)

\* Timers fire, IndexedDB answers, and the WebSocket in use opens or fails; the
\* socket that another call has replaced may stay silent.
Spec ==
    /\ Init /\ [][Next]_nodeTransitionVars
    /\ WF_nodeTransitionVars(startApplication)
    /\ \A c \in Calls : WF_nodeTransitionVars(answers(c))

-----------------------------------------------------------------------------
(* What is promised.                                                       *)

\* "MULTIPLE CONNECT IN PROGRESS" (routerTransition.js:708): however transitions
\* overlap, one call at most opens the database and loads the stores, and the guard
\* is set exactly as long as it does.  It loads from the database of the chain it is
\* connected to, or from none at all, and never from that of the chain that was left.
OneLoader ==
    /\ Cardinality({c \in Calls : call[c].at \in Loaders}) = IF connectInProgress THEN 1 ELSE 0
    /\ \A c \in Calls : call[c].at \in {"loading", "rejected"} => db \in {None, call[c].chain}

\* routerTransition.js:645 "so we don't connect to a faulty node twice": the retry
\* after a failed reconnect does not begin with a node that failed, unless it was
\* reached since, or chosen in the settings meanwhile.
Chosen(url) ==
    \E c \in Calls : call[c].node = url /\ call[c].at \in {"timer", "refused", "latencyReset"}

FaultyNotRetried ==
    [][\A c \in Calls : call[c].at = "closing" /\ call'[c].at = "fallback"
                           => manager' \notin faulty \/ Chosen(manager')]_nodeTransitionVars

Alerted == \E c \in Calls : call[c].at = "alerted"

\* The start of the application ends: it shows the views or an error.
AppInitAnswered == <>(shown # "waiting" \/ Alerted)

\* When nobody calls any more every transition comes to an end, also those that
\* overlapped: the indicator is gone and the next connection can load the stores.
EventuallyIdle == <>[](flag # "busy" /\ ~ connectInProgress) \/ <>Alerted
=============================================================================
