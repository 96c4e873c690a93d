--------------------------- MODULE WalletManager ----------------------------
(***************************************************************************)
(* Several wallets, each in a database of its own: WalletManagerStore.js   *)
(* with idb-instance.js, idb-root.js and the loads of WalletDb.js and      *)
(* AccountStore.js it starts.                                              *)
(*                                                                         *)
(* The root database names the wallets and the current one.  A switch      *)
(* writes both, closes the database of the old wallet, asks the root       *)
(* database which one to open, opens and loads it, creates the wallet      *)
(* there if it is new, and only then shows it as the current one.  Every   *)
(* step is an answer of IndexedDB, which may be a failure; another switch, *)
(* a restore, a deletion, a connection of the node or the end of the page  *)
(* may come between any two of them.                                       *)
(***************************************************************************)
EXTENDS Naturals, Sequences, FiniteSets, SequencesExt

CONSTANTS Wallets,        \* names of wallets
          Default,        \* the wallet that is opened when none was ever named
          None,           \* undefined, and the database that has no wallet's name
          Unset,          \* nothing: no connection, a property that was never written
          MaxCalls,       \* calls of setWallet and restore
          MaxEvents,      \* wallets deleted and connections of the node after the first
          MaxReloads      \* times the page ends

ASSUME WalletManagerAssumption ==
    /\ Default \in Wallets
    /\ None \notin Wallets /\ Unset \notin Wallets \cup {None} /\ Unset \notin 1..MaxCalls
    /\ MaxCalls \in Nat /\ MaxEvents \in Nat /\ MaxReloads \in Nat

VARIABLES root,           \* the properties wallet_names and current_wallet on disk
          rootQueue,      \* requests of the root database, answered in order
          stored,         \* wallet objects on disk, by database
          requests,       \* requests to open or delete a database
          idb,            \* the database of iDB, which all its instances share, if open
          leaked,         \* databases with a connection that nobody closes
          handle,         \* the database of idb_helper
          manager,        \* the state of WalletManagerStore
          account,        \* wallet_name of AccountStore
          ram,            \* the wallet object of WalletDb
          call,           \* calls of setWallet and restore
          connect,        \* the loads that follow a connection of the node
          events, reloads,
          unlisted,       \* history: deleted, restored or not written, and not listed since
          overwritten,    \* history: names of the manager that init put older ones over
          disturbed       \* history of the page: calls overlapped or failed

disk == <<root, stored>>
shown == <<manager, account, ram>>
counters == <<events, reloads>>
history == <<unlisted, overwritten, disturbed>>
walletManagerVars == <<root, rootQueue, stored, requests, idb, leaked, handle, manager,
                       account, ram, call, connect, events, reloads, unlisted,
                       overwritten, disturbed>>

Databases == Wallets \cup {None}
Calls == 1..MaxCalls
Start == 0                \* the caller of init_instance when the page starts
Ended == {"idle", "done", "failed"}

RootRequests ==
    [kind : {"names"}, names : SUBSET Wallets, gone : SUBSET Wallets,
                       by : {Unset} \cup Calls] \cup
    [kind : {"current"}, current : Databases, by : {Unset} \cup Calls] \cup
    [kind : {"open"}, by : {Start} \cup Calls] \cup
    [kind : {"initCurrent"}] \cup
    [kind : {"initNames"}, current : Databases]

TypeOK ==
    /\ root \in [names : SUBSET Wallets, current : Databases \cup {Unset}]
    /\ rootQueue \in Seq(RootRequests)
    /\ stored \in [Databases -> SUBSET Wallets]
    /\ requests \in Seq([kind : {"open"}, db : Databases, by : {Start} \cup Calls] \cup
                        [kind : {"delete"}, db : Wallets])
    /\ idb \in Databases \cup {Unset}
    /\ leaked \subseteq Databases
    /\ handle \in Databases \cup {Unset}
    /\ manager \in [names : SUBSET Wallets, current : Databases]
    /\ account \in Databases
    /\ ram \in Databases
    /\ call \in [Calls -> [wallet : Databases, create : BOOLEAN, from : Databases,
                           at : Ended \cup {"writing", "opening", "loading", "accounts",
                                            "creating", "restoring", "putting"}]]
    /\ connect \in [ready : BOOLEAN, from : Databases \cup {Unset}, init : BOOLEAN]
    /\ events \in 0..MaxEvents /\ reloads \in 0..MaxReloads
    /\ unlisted \subseteq Wallets
    /\ overwritten \subseteq Wallets /\ disturbed \in BOOLEAN

NoCall == [wallet |-> None, create |-> FALSE, from |-> None, at |-> "idle"]
AskOpen(by) == [kind |-> "open", by |-> by]

Init ==
    /\ root = [names |-> {}, current |-> Unset]
    /\ rootQueue = <<AskOpen(Start)>>
    /\ stored = [d \in Databases |-> {}]
    /\ requests = <<>>
    /\ idb = Unset
    /\ leaked = {}
    /\ handle = Unset
    /\ manager = [names |-> {}, current |-> None]
    /\ account = None
    /\ ram = None
    /\ call = [c \in Calls |-> NoCall]
    /\ connect = [ready |-> FALSE, from |-> Unset, init |-> FALSE]
    /\ events = 0 /\ reloads = 0
    /\ unlisted = {} /\ overwritten = {} /\ disturbed = FALSE

Switching == \E c \in Calls : call[c].at \notin Ended
Connecting == connect.from # Unset \/ connect.init

\* getProperty with a default: the default is for a property that was never
\* written, not for one that was written as undefined.
PropertyOr(value, default) == IF value = Unset THEN default ELSE value

-----------------------------------------------------------------------------
(* iDB.                                                                    *)

PutNames(names, gone, by) == [kind |-> "names", names |-> names, gone |-> gone, by |-> by]
PutCurrent(current, by) == [kind |-> "current", current |-> current, by |-> by]

\* iDB.close() and init_instance(): the database that is open is closed, one that is being
\* opened is not; openIndexedDB asks for the current wallet.  db() still returns the
\* database that was closed, but using it throws as if there were none.
reopen(c) ==
    /\ handle' = Unset
    /\ idb' = Unset
    /\ rootQueue' = Append(Tail(rootQueue), AskOpen(c))
    /\ call' = [call EXCEPT ![c].at = "opening"]

\* A switch waits for its writes, and none of them has failed.
Waits(by) == by \in Calls /\ call[by].at = "writing"

\* A request to open or delete a database waits for the earlier ones of that
\* database, and a deletion for its connections.
First(i) == \A j \in 1..i-1 : requests[j].db # requests[i].db

namesPut ==
    /\ Head(rootQueue).kind = "names"
    /\ root' = [root EXCEPT !.names = Head(rootQueue).names]
    /\ unlisted' = (unlisted \ Head(rootQueue).names) \cup Head(rootQueue).gone
    /\ rootQueue' = Tail(rootQueue)
    /\ UNCHANGED <<stored, requests, idb, leaked, handle, shown, call, connect, counters,
                   overwritten, disturbed>>

\* setProperty fails: its promise is rejected, and the switch with it; or only the
\* transaction is aborted, when the promise is resolved already.
namesNotPut ==
    /\ Head(rootQueue).kind = "names"
    /\ \E rejected \in BOOLEAN :
           call' = IF rejected /\ Waits(Head(rootQueue).by)
                   THEN [call EXCEPT ![Head(rootQueue).by].at = "failed"] ELSE call
    /\ unlisted' = unlisted \cup (Head(rootQueue).names \ root.names) \cup Head(rootQueue).gone
    /\ disturbed' = TRUE
    /\ rootQueue' = Tail(rootQueue)
    /\ UNCHANGED <<disk, requests, idb, leaked, handle, shown, connect, counters, overwritten>>

\* The last write of a switch: Promise.all([add, current]).  It is done whether the write
\* of the names has failed or not.
currentPut ==
    /\ Head(rootQueue).kind = "current"
    /\ root' = [root EXCEPT !.current = Head(rootQueue).current]
    /\ IF Waits(Head(rootQueue).by)
       THEN reopen(Head(rootQueue).by)
       ELSE /\ rootQueue' = Tail(rootQueue)
            /\ UNCHANGED <<handle, idb, call>>
    /\ UNCHANGED <<stored, requests, leaked, shown, connect, counters, history>>

currentNotPut ==
    /\ Head(rootQueue).kind = "current"
    /\ \/ Waits(Head(rootQueue).by) /\ reopen(Head(rootQueue).by)
       \/ /\ rootQueue' = Tail(rootQueue)
          /\ call' = IF Waits(Head(rootQueue).by)
                     THEN [call EXCEPT ![Head(rootQueue).by].at = "failed"] ELSE call
          /\ UNCHANGED <<handle, idb>>
    /\ disturbed' = TRUE
    /\ UNCHANGED <<disk, requests, leaked, shown, connect, counters, unlisted, overwritten>>

OpenShown ==                      \* mutant: opens what the manager shows
    /\ Head(rootQueue).kind = "open"
    /\ rootQueue' = Tail(rootQueue)
    /\ requests' = Append(requests, [kind |-> "open", by |-> Head(rootQueue).by,
                                     db |-> IF manager.current = None
                                            THEN PropertyOr(root.current, Default)
                                            ELSE manager.current])
    /\ UNCHANGED <<disk, idb, leaked, handle, shown, call, connect, counters, history>>
openDatabase ==
    /\ Head(rootQueue).kind = "open"
    /\ rootQueue' = Tail(rootQueue)
    /\ requests' = Append(requests, [kind |-> "open", db |-> PropertyOr(root.current, Default),
                                     by |-> Head(rootQueue).by])
    /\ UNCHANGED <<disk, idb, leaked, handle, shown, call, connect, counters, history>>

\* The current wallet cannot be read.
readFailed ==
    /\ Head(rootQueue).kind = "open" /\ Head(rootQueue).by \in Calls
    /\ rootQueue' = Tail(rootQueue)
    /\ call' = [call EXCEPT ![Head(rootQueue).by].at = "failed"]
    /\ disturbed' = TRUE
    /\ UNCHANGED <<disk, requests, idb, leaked, handle, shown, connect, counters, unlisted,
                   overwritten>>

\* onsuccess of open: idb_helper gets the database, and so does iDB, whichever instance it
\* was opened for: the one it had is not closed.  What a restore opens is not for iDB.
opened(i) ==
    LET r == requests[i]
        restoring == r.by # Start /\ call[r.by].at = "restoring"
    IN
    /\ r.kind = "open"
    /\ First(i)
    /\ requests' = RemoveAt(requests, i)
    /\ handle' = r.db
    /\ IF restoring
       THEN leaked' = leaked \cup {r.db} /\ UNCHANGED idb
       ELSE idb' = r.db /\ leaked' = leaked \cup ({idb} \ {Unset})
    /\ IF r.by = Start
       THEN /\ connect' = [connect EXCEPT !.from = r.db, !.init = TRUE]
            /\ rootQueue' = Append(rootQueue, [kind |-> "initCurrent"])
            /\ UNCHANGED call
       ELSE /\ call' = [call EXCEPT
                   ![r.by].from = r.db,
                   ![r.by].at = IF @ = "restoring" THEN "putting" ELSE "loading"]
            /\ UNCHANGED <<connect, rootQueue>>
    /\ UNCHANGED <<disk, shown, counters, history>>

openFailed(i) ==
    LET r == requests[i] IN
    /\ r.kind = "open" /\ r.by \in Calls
    /\ First(i)
    /\ requests' = RemoveAt(requests, i)
    /\ call' = [call EXCEPT ![r.by].at = "failed"]
    /\ disturbed' = TRUE
    /\ UNCHANGED <<disk, rootQueue, idb, leaked, handle, shown, connect, counters,
                   unlisted, overwritten>>

deleted(i) ==
    LET r == requests[i] IN
    /\ r.kind = "delete"
    /\ First(i)
    /\ r.db # idb /\ r.db \notin leaked
    /\ requests' = RemoveAt(requests, i)
    /\ stored' = [stored EXCEPT ![r.db] = {}]
    /\ UNCHANGED <<root, rootQueue, idb, leaked, handle, shown, call, connect, counters,
                   history>>

\* The browser collects a connection that nothing refers to.
collected ==
    \E d \in leaked \ {handle} :
        /\ leaked' = leaked \ {d}
        /\ UNCHANGED <<disk, rootQueue, requests, idb, handle, shown, call, connect,
                       counters, history>>

-----------------------------------------------------------------------------
(* The loads of the stores, from the database of idb_helper.               *)

\* loadDbData of WalletDb: an empty database leaves the wallet of the last one.
LoadedFrom(d) == IF stored[d] = {} THEN {ram} ELSE stored[d]

\* _onConnect on the chain of before: all stores load, if idb_helper has a database, and
\* init() of the manager runs.
Connect ==
    /\ connect.ready /\ ~ Connecting
    /\ events < MaxEvents
    /\ events' = events + 1
    /\ connect' = [connect EXCEPT !.from = handle, !.init = TRUE]
    /\ rootQueue' = Append(rootQueue, [kind |-> "initCurrent"])
    /\ disturbed' = (disturbed \/ Switching)
    /\ UNCHANGED <<disk, requests, idb, leaked, handle, shown, call, reloads,
                   unlisted, overwritten>>

walletLoaded ==
    /\ connect.from # Unset
    /\ ram' \in LoadedFrom(connect.from)
    /\ connect' = [connect EXCEPT !.from = Unset, !.ready = @ \/ ~ connect.init]
    /\ UNCHANGED <<disk, rootQueue, requests, idb, leaked, handle, manager, account, call,
                   counters, history>>

init ==
    /\ Head(rootQueue).kind = "initCurrent"
    /\ rootQueue' = Append(Tail(rootQueue), [kind |-> "initNames",
                                             current |-> PropertyOr(root.current, None)])
    /\ UNCHANGED <<disk, requests, idb, leaked, handle, shown, call, connect, counters,
                   history>>

initDone ==
    /\ Head(rootQueue).kind = "initNames"
    /\ rootQueue' = Tail(rootQueue)
    /\ manager' = [names |-> root.names, current |-> Head(rootQueue).current]
    /\ account' = Head(rootQueue).current
    /\ connect' = [connect EXCEPT !.init = FALSE, !.ready = @ \/ connect.from = Unset]
    /\ overwritten' = overwritten \cup (IF connect.ready THEN manager.names \ root.names ELSE {})
    /\ UNCHANGED <<disk, requests, idb, leaked, handle, ram, call, counters, unlisted,
                   disturbed>>

rootAnswers ==
    /\ rootQueue # <<>>
    /\ \/ namesPut \/ namesNotPut \/ currentPut \/ currentNotPut
       \/ openDatabase \/ readFailed \/ init \/ initDone

-----------------------------------------------------------------------------
(* setWallet, restore and deleteWallet.                                    *)

\* onSetWallet: the names, if the wallet is new, and the current wallet are
\* written; nothing is done for the wallet that is shown as the current one.
CurrentFirst(c, w, to) ==         \* mutant: the current wallet is written before the names
    IF manager.current = w
    THEN /\ call' = [call EXCEPT ![c] = [to EXCEPT !.at = "done"]]
         /\ UNCHANGED <<manager, rootQueue>>
    ELSE /\ call' = [call EXCEPT ![c] = [to EXCEPT !.at = "writing"]]
         /\ manager' = [manager EXCEPT !.names = @ \cup {w}]
         /\ rootQueue' = rootQueue \o <<PutCurrent(w, c), PutNames(manager.names \cup {w}, {}, c)>>
onSetWallet(c, w, to) ==
    IF manager.current = w
    THEN /\ call' = [call EXCEPT ![c] = [to EXCEPT !.at = "done"]]
         /\ UNCHANGED <<manager, rootQueue>>
    ELSE /\ call' = [call EXCEPT ![c] = [to EXCEPT !.at = "writing"]]
         /\ manager' = [manager EXCEPT !.names = @ \cup {w}]
         /\ rootQueue' = rootQueue
                \o (IF w \in manager.names THEN <<>>
                    ELSE <<PutNames(manager.names \cup {w}, {}, c)>>)
                \o <<PutCurrent(w, c)>>

NextCall(c) == connect.ready /\ call[c].at = "idle" /\ \A b \in 1..c-1 : call[b].at # "idle"

\* WalletActions.setWallet, dispatched to AccountStore and WalletManagerStore.
\* Pages create a wallet under a new name, or "default" when there is none in RAM;
\* they change to a listed wallet, or to one that is just restored.
setWallet(c, w, create) ==
    /\ NextCall(c)
    /\ IF create THEN w \notin manager.names \/ (w = Default /\ ram = None)
                 ELSE w \in manager.names \/ \E b \in Calls : call[b].wallet = w
                                                 /\ call[b].at \in {"restoring", "putting"}
    /\ onSetWallet(c, w, [NoCall EXCEPT !.wallet = w, !.create = create])
    /\ account' = w
    /\ disturbed' = (disturbed \/ Switching \/ Connecting)
    /\ UNCHANGED <<disk, requests, idb, leaked, handle, ram, connect, counters, unlisted,
                   overwritten>>

\* onRestore: iDB.restore opens the database with a connection of its own.
restore(c, w) ==
    /\ NextCall(c)
    /\ call' = [call EXCEPT ![c] = [NoCall EXCEPT !.wallet = w, !.at = "restoring"]]
    /\ requests' = Append(requests, [kind |-> "open", db |-> w, by |-> c])
    /\ disturbed' = (disturbed \/ Switching \/ Connecting)
    /\ UNCHANGED <<disk, rootQueue, idb, leaked, handle, shown, connect, counters,
                   unlisted, overwritten>>

\* The transaction of iDB.restore is complete; a wallet that is current already
\* is not loaded again.
restored(c) ==
    LET w == call[c].wallet IN
    /\ call[c].at = "putting"
    /\ stored' = [stored EXCEPT ![w] = @ \cup {w}]
    /\ account' = w
    /\ onSetWallet(c, w, call[c])
    /\ unlisted' = unlisted \cup ({w} \ root.names)
    /\ disturbed' = (disturbed \/ manager.current = w)
    /\ UNCHANGED <<root, requests, idb, leaked, handle, ram, connect, counters,
                   overwritten>>

restoreFailed(c) ==
    /\ call[c].at = "putting"
    /\ call' = [call EXCEPT ![c].at = "failed"]
    /\ disturbed' = TRUE
    /\ UNCHANGED <<disk, rootQueue, requests, idb, leaked, handle, shown, connect,
                   counters, unlisted, overwritten>>

\* WalletDb.loadDbData, then AccountStore.loadDbData, which throws if the
\* database of iDB has been closed and none was opened since.
loaded(c) ==
    /\ call[c].at = "loading"
    /\ ram' \in LoadedFrom(call[c].from)
    /\ call' = [call EXCEPT ![c].at = IF idb = Unset THEN "failed" ELSE "accounts"]
    /\ disturbed' = (disturbed \/ (~ call[c].create /\ stored[call[c].from] = {} /\ ram # None))
    /\ UNCHANGED <<disk, rootQueue, requests, idb, leaked, handle, manager, account,
                   connect, counters, unlisted, overwritten>>

accountsLoaded(c) ==
    /\ call[c].at = "accounts"
    /\ IF call[c].create
       THEN call' = [call EXCEPT ![c].at = "creating"] /\ UNCHANGED manager
       ELSE /\ call' = [call EXCEPT ![c].at = "done"]
            /\ manager' = [manager EXCEPT !.current = call[c].wallet]
    /\ UNCHANGED <<disk, rootQueue, requests, idb, leaked, handle, account, ram, connect,
                   counters, history>>

\* The accounts are asked of the node, which may fail.
accountsFailed(c) ==
    /\ call[c].at = "accounts"
    /\ call' = [call EXCEPT ![c].at = "failed"]
    /\ disturbed' = TRUE
    /\ UNCHANGED <<disk, rootQueue, requests, idb, leaked, handle, shown, connect,
                   counters, unlisted, overwritten>>

\* onCreateWallet adds the wallet to the database of iDB, unless it
\* holds one of that name.
created(c) ==
    LET w == call[c].wallet IN
    /\ call[c].at = "creating"
    /\ idb # Unset /\ w \notin stored[idb]
    /\ stored' = [stored EXCEPT ![idb] = @ \cup {w}]
    /\ ram' = w
    /\ manager' = [manager EXCEPT !.current = w]
    /\ call' = [call EXCEPT ![c].at = "done"]
    /\ UNCHANGED <<root, rootQueue, requests, idb, leaked, handle, account, connect,
                   counters, history>>

\* The dictionary cannot be fetched, or the wallet not be added: the error is
\* logged and swallowed, and the wallet is shown as the current one.
notCreated(c) ==
    /\ call[c].at = "creating"
    /\ manager' = [manager EXCEPT !.current = call[c].wallet]
    /\ call' = [call EXCEPT ![c].at = "done"]
    /\ disturbed' = TRUE
    /\ UNCHANGED <<disk, rootQueue, requests, idb, leaked, handle, account, ram, connect,
                   counters, unlisted, overwritten>>

\* onDeleteWallet.  The setWallet it calls is a dispatch within a dispatch, which
\* alt refuses: another wallet is shown as current, and the deleted one stays
\* open.
onDeleteWallet(w) ==
    LET names == manager.names \ {w} IN
    /\ connect.ready /\ events < MaxEvents
    /\ w \in manager.names
    /\ IF manager.current = w
       THEN \E n \in (IF names = {} THEN {None} ELSE names) :
                /\ manager' = [names |-> names, current |-> n]
                /\ rootQueue' = rootQueue \o <<PutNames(names, {w}, Unset), PutCurrent(n, Unset)>>
       ELSE /\ manager' = [manager EXCEPT !.names = names]
            /\ rootQueue' = Append(rootQueue, PutNames(names, {w}, Unset))
    /\ requests' = Append(requests, [kind |-> "delete", db |-> w])
    /\ unlisted' = unlisted \cup {w}
    /\ disturbed' = (disturbed \/ Switching \/ Connecting \/ manager.current = w)
    /\ events' = events + 1
    /\ UNCHANGED <<disk, idb, leaked, handle, account, ram, call, connect, reloads,
                   overwritten>>

-----------------------------------------------------------------------------

\* _updateWallet, and the keys that are saved: RAM's wallet into the database of
\* iDB.
_updateWallet ==
    /\ ram # None /\ idb # Unset
    /\ stored' = [stored EXCEPT ![idb] = @ \cup {ram}]
    /\ UNCHANGED <<root, rootQueue, requests, idb, leaked, handle, shown, call, connect,
                   counters, history>>

\* The page ends at any point and is opened again.  A deletion that was waiting
\* may be done then, or never.
reload ==
    /\ reloads < MaxReloads
    /\ reloads' = reloads + 1
    /\ \E gone \in SUBSET {requests[i].db : i \in {j \in DOMAIN requests :
                                                       requests[j].kind = "delete"}} :
           stored' = [d \in Databases |-> IF d \in gone THEN {} ELSE stored[d]]
    /\ rootQueue' = <<AskOpen(Start)>>
    /\ requests' = <<>>
    /\ idb' = Unset
    /\ leaked' = {} /\ handle' = Unset
    /\ manager' = [names |-> {}, current |-> None]
    /\ account' = None /\ ram' = None
    /\ call' = [c \in Calls |-> [NoCall EXCEPT !.at = IF call[c].at = "idle" THEN "idle"
                                                                          ELSE "done"]]
    /\ connect' = [ready |-> FALSE, from |-> Unset, init |-> FALSE]
    /\ disturbed' = FALSE
    /\ UNCHANGED <<root, events, unlisted, overwritten>>

Next ==
    \/ rootAnswers
    \/ \E i \in DOMAIN requests : opened(i) \/ openFailed(i) \/ deleted(i)
    \/ collected \/ walletLoaded \/ Connect \/ _updateWallet \/ reload
    \/ \E c \in Calls :
           \/ \E w \in Wallets : (\E create \in BOOLEAN : setWallet(c, w, create)) \/ restore(c, w)
           \/ restored(c) \/ restoreFailed(c) \/ loaded(c) \/ accountsLoaded(c)
           \/ accountsFailed(c) \/ created(c) \/ notCreated(c)
    \/ \E w \in Wallets : onDeleteWallet(w)

Spec == Init /\ [][Next]_walletManagerVars

-----------------------------------------------------------------------------
(* Properties.                                                             *)

\* A wallet that is stored, or that is opened next time, can be found in the list
\* on disk, wherever the page ends: the list is written first.  Excepted are the
\* wallets whose deletion or restore has not reached the list, those of a list that
\* could not be written, until one is that has them (the current wallet is written
\* all the same, WalletManagerStore.js:74-83), and those that init() dropped from the
\* names of the manager as the disk did not have them (WalletManagerStore.js:133-147).
Listed ==
    \A w \in Wallets :
        w \in stored[w] \/ root.current = w => w \in root.names \cup unlisted \cup overwritten

\* When nothing is under way, the databases that are open, the wallet that is shown,
\* the accounts, the wallet in RAM and the disk are of one wallet.  That is so after
\* every switch, creation and restore that was alone and did not fail, and after
\* the page was opened again, whatever had happened before (WalletManagerStore.js:
\* 44-175).  Excepted (disturbed) until the page is opened again are steps
\* that overlap or fail, the deletion of the current wallet, a restore over it, and a
\* switch to an empty database that does not create its wallet.
Quiet == connect.ready /\ ~ Connecting /\ ~ Switching /\ rootQueue = <<>>

Agree ==
    Quiet /\ ~ disturbed =>
        /\ idb = PropertyOr(root.current, Default)
        /\ handle = idb
        /\ manager = [names |-> root.names, current |-> PropertyOr(root.current, None)]
        /\ account = manager.current
        /\ ram \in (IF stored[handle] = {} THEN {None} ELSE stored[handle])
=============================================================================
