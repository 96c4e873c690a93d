# defishares-ui: a verification project

TLA+ models of the stateful parts of the defishares web wallet, the TLC runs that
check them on small instances, and theorems that TLAPS proves for every value of
the constants. Paths are relative to `src/app/` unless they start with `src/`.

The program is a React single-page application. It is single-threaded, but little
of it runs to completion at once: IndexedDB transactions, web workers, requests to
a node over a web socket, timers and dialogs all answer later, in an order that
nobody fixes, and the user goes on clicking meanwhile. Almost every property here
is about what may happen between two such steps.

To check: `tlc -config WalletDb.cfg MCWalletDb`, and `tlapm WalletDb_proofs.tla`.


## 1. The system

| Component | State | Operations | What is hard | What makes it correct |
|---|---|---|---|---|
| Wallet database (`stores/WalletDb.js`, `actions/WalletActions.js`, `idb-helper.js`) | the wallet object in RAM and in IndexedDB, the AES key, the brainkey sequence and its look-ahead | create, unlock, lock, change password, generate keys, create account, back up, reset sequence | writes overlap, and abort; each puts its clone back into RAM when it completes; crash; lost answer of the faucet | RAM and disk converge; no key of an account is lost; the keys of one account differ and stay recoverable |
| Key store and address index (`stores/PrivateKeyStore.js`, `stores/AddressIndex.js`, import in `stores/WalletDb.js`, `components/Wallet/ImportKeys.jsx`) | keys in RAM and in the object store, pending operation count, index of addresses in RAM and saved | load, add, import, cloud login, index | loading runs again on every connection; two workers and a transaction per import; aborted transactions | what is shown is stored; the count is right; a reported import is stored and can be found |
| Unlock session (`stores/WalletUnlockStore.js`, `actions/WalletUnlockActions.js`, `components/Wallet/WalletUnlockModal.jsx`) | locked flag, the pending promise, auto-lock timer, dialog | unlock, lock, cancel, submit, change timeout | one slot for many callers; the timer; pages that unlock behind the store | callers are told the truth; whoever waits can be answered |
| Transaction confirmation (`stores/TransactionConfirmStore.js`, `actions/TransactionConfirmActions.js`, `components/Blockchain/TransactionConfirm.jsx`) | one dialog, a promise per transaction, broadcasts | confirm, broadcast, answers, timeout, close, propose | answers of one broadcast reach the dialog of another; timeout races the answer | the caller of a transaction gets that transaction's answer; the button is offered once |
| Signing (`WalletDb.process_transaction`, `WalletActions.importBalance`) | how far each call has come, its signers | unlock, fees, signatures, confirm | the wallet may be locked at every await | callers are told the truth through the whole pipeline |
| Node latency (`routerTransition.js`) | latency cache, transition flag, pinger | latency update, background pings | callbacks nest on one stack; background pings and transitions share one flag | an update ends once, when it may; every node is asked once |
| Connection to a node (`routerTransition.js`, `AppInit.jsx`, `components/Layout/Footer.jsx`, `components/Settings/AccessSettings.jsx`) | connection manager, flag, chain, database, settings of the node | start, activate, reconnect, recalculate, connect, reset error | transitions overlap and share the singleton; nodes of different chains; stores that cannot be loaded | one loader at a time, of the right chain; no faulty node twice; everything ends |
| Import page (`components/Wallet/ImportKeys.jsx`, `stores/ImportKeysStore.js`, `lib/restore/`) | file, keys and accounts of the page, its version, the global flag of an import | file, paste, password, lookups, import, leave | every answer may come when the page was reset, left or replaced | the page shows the last input; what is imported was confirmed; the spinner ends |
| Market feed (`actions/MarketsActions.js`, `stores/MarketsStore.js`) | subscriptions, batch timer, what the store shows | subscribe, notify, batch, unsubscribe | late answers of the previous market; failed unsubscribes | no two markets are mixed; batches are of the current market |
| Order book (`stores/MarketsStore.js`, `lib/common/MarketClasses.js`) | limit orders, bids and asks with totals, depth chart | refresh, removal, sum, combine, flatten | rounded and equal prices; rows are built anew only on a change; late answers | agrees with a reference definition; follows the node |
| Market statistics queue (`MarketsActions.getMarketStats`) | a queue of requests, an active flag | enqueue, process | one rejection stops the queue | each market is answered, in order |
| Wallet manager (`stores/WalletManagerStore.js`, `idb-instance.js`, `idb-root.js`) | wallet names, current wallet, open database | set, restore, delete, init | several stores and two databases change one after the other; a write fails; crash between; another switch, a connection or a restore between | a stored wallet is listed; the open database is the current wallet's |
| Backup and restore (`stores/BackupStore.js`, `actions/BackupActions.js`) | the file, its checksum | read, decrypt, restore | a backup while keys are being saved | the file is complete |
| Brainkey recovery, cached properties, balance claims, account references (`stores/BrainkeyStore.js`, `CachedPropertyStore.js`, `BalanceClaimActiveStore.js`, `AccountRefsStore.js`) | caches keyed by public key | derive, get, set, refresh, reset | answers for an earlier selection or an earlier wallet | a late answer does not replace a newer value |
| Accounts, settings, gateways, assets, pools, credit offers, contracts, explorer | lists | list, build a transaction | little | |

How they interact. A page builds a transaction and calls
`WalletDb.process_transaction`, which asks the unlock session for the wallet,
the node for fees and signatures, the key store for private keys, and hands the
transaction to the confirmation dialog; the promise of the dialog is the answer
of the page. The unlock session owns the lock flag that pages read, and the
wallet database owns the keys that make the flag true. The key store and the
wallet database share the read-write transactions of one IndexedDB, which the
wallet manager closes and reopens when the wallet changes. The connection code
calls `loadDbData` of the stores on every connection. The market feed uses the
connection and nothing of the wallet.

`PROJECT.json` lists every component with the files it consists of, and every
hazard with its line and the properties that are for it.


## 2. The modules

| Module | Models | Extends or instantiates |
|---|---|---|
| `Submission` | abstract: what `process_transaction` promises its callers | |
| `WalletDb` | wallet object, brainkey sequence, account creation | |
| `WalletUnlock` | the unlock session | |
| `TxConfirm` | the confirmation dialog and the broadcasts | `S == INSTANCE Submission` |
| `Signing` | `importBalance` and `process_transaction`, composed of session and dialog | `session == INSTANCE WalletUnlock`, `confirming == INSTANCE TxConfirm`, `S == INSTANCE Submission` |
| `KeyStore` | private keys, address index, import | |
| `ImportPage` | the page that imports keys, before and after `KeyStore`'s import | |
| `WalletManager` | several wallets and their databases | |
| `NodePing` | the latency update | |
| `NodeTransition` | the connection to a node | |
| `MarketFeed` | the subscription to a market | |
| `OrderBook` | rows and depth chart of the limit orders | |
| `Dialogs_proofs` | theorems about session and dialog | extends `WalletUnlock`, `TxConfirm` |
| `Connection_proofs` | theorems about the latency update and the connection | extends `NodePing`, `NodeTransition` |
| `Market_proofs` | theorems about subscription and order book | extends `MarketFeed`, `OrderBook` |
| other `*_proofs` | theorems about the module of that name; those about `Submission` are in `Signing_proofs` | `Parts == INSTANCE Dialogs_proofs` in `Signing_proofs` |
| `MC*` | instances for TLC | |

Definitions carry the names of the functions they model where there is one; the
map in `PROJECT.json` gives file and lines of each. Where two components that share a
module of proofs would both say `Init`, `Next`, `Spec` or `TypeOK`, one has a prefix:
`ConfirmSpec` is the specification of `TxConfirm`, `BookSpec` of `OrderBook`, `PingSpec`
of `NodePing`.

### WalletDb

`wallet` is `state.wallet`, `disk` the object in IndexedDB. `_updateWallet`
changes the RAM object, clones it and queues a read-write transaction; the
completion (`CompleteTransaction`) puts the clone into RAM. IndexedDB runs
read-write transactions on one object store in the order of creation, so `queue`
is a sequence, and an operation may run while older clones are queued. One
synchronous block threads a record (`Now`) through the calls it makes, and `Run`
stores the result: `createAccount` is three calls of `generateNextKey` in one
step, as in the code. Keys are numbered by brainkey sequence. `Register` is the
chain; the answer may come (`AccountCreated`), be an error or be lost
(`CreationRejected`). `Reload` is a crash at any point.

Every transaction may abort. `AbortTransaction` is a write of the wallet that fails:
RAM is not put back, so it stays ahead of the disk. `AbortKeys` is one of a key:
`ramKeys`, what `PrivateKeyStore` holds in RAM, keeps the key, and `saveKeys` takes it
for a duplicate from then on. A record that is there already fails in the same way, by
the index of public keys. `loadDbData` empties `ramKeys` and reads wallet and keys
again, each of which may fail by itself. `MaxFaults` bounds aborts, loads and throws.

The properties speak of histories, each of which names one step of the code:

* `intended` is what the last operation left in RAM, `unsaved` that its write
  aborted. `Converges` is about both copies when no write is queued. An operation
  that starts from an older object, which a completion has just put back, takes
  another operation's change back on both sides: that is what the code does, the
  copies agree all the same, and no property says otherwise.
* `aborted` are keys whose own transaction failed, until another one stores them.
* `unseen` are keys that the look-ahead passed over before an answer named them:
  answers about account references come in any order, `SkipUsed` moves behind the
  last used key it knows, and a key before that whose answer is still to come is
  not saved.
* `overtaken` are keys that are handed out when a stored or queued sequence is
  behind them already (after `resetBrainKeySequence`, or from an older copy): a
  crash before they are stored leaves that sequence and no key.
* `registered` are the keys of accounts that this page registered, until they are
  stored. `RegisteredKeysKept` follows them after the creation has ended, also when the
  sequence is taken back and the same keys are handed out again.

In each of these exceptions the code does lose a key, or may; the model has the step
and the property names it.

### KeyStore

A key is in RAM (`keys`) once its transaction is created and in `disk` once it is
complete; the cursor of `loadDbData` is an entry of the same queue. `map`,
`awaiting` and `indexed` are the address index and the continuations that wait
for the saved one. `import` follows `importKeysWorker`: two workers and a
transaction, and the promise that waits for them. `Abort` is a transaction that
fails, at a request (the store is told) or at the commit (it is not).
An aborted key stays in RAM without a record: `ShownIsStored`, an action property,
says that this step and a put of another key over the record are the only ones after
which RAM shows a key that is neither stored nor on its way. `harmed` is history, keys
of aborted transactions or overwritten records, which `ImportedIsStored` excepts.

`count` is the member `pending_operation_count` and `stateCount` the copy in the state.
A load resets the copy to zero after it has been counted, so that "state.pending_operation_count
== 0" (`PrivateKeyStore.js:13-16`) does not mean that nothing is under way while a load
is; `addPrivateKeys_noindex`, with which the import stores its keys, counts no operation
at all. `CountIsOutstanding` says that the member is right always, and the copy whenever
no load that reset it is under way. Reading and writing the saved index may fail
(`loadAddyMapFails`, `saveAddyMap`): the promise of the former stays rejected until the
page is opened again, and nothing is added to the index.

Simplified: `updateImportedKeyAccounts` takes one key at a time; the check of the
page for duplicates and the start of the workers are one step; the flags that
only display progress are left out; all wallets share one saved index; a
transaction is atomic when it is at the head of the queue.

### ImportPage

`page` is the instance of the component that was mounted last, with the version
of its `RestoreAsyncGuard`; a stamp is a page and a version, and `isActive` and
`isMounted` ask for it as the guard does. `reads`, `lookups` and `imports` are what
is under way: a file that is read or goes through the genesis filter, the
accounts of a key, and one record per click on the import button, which waits
for the wallet, a timer, the lookups and a worker in turn. `importing` is
`ImportKeysStore`, global to all pages. `overlap` is history: the end of one import
cleared the flag while another was under way.

A file is a kind with the set of its keys and whether the empty password opens
it. What the worker does to the store of keys is `KeyStore`'s subject: here it
succeeds, or throws in its answer.

What the model keeps although it looks wrong: a hosted backup is never accepted,
because `_parseWalletJson` reads `enckeys` outside of the block that declares it
(line 391), although the comment on line 309 says that it is supported; an import
of an old page that ends brings back the page while another import is under way;
after a failed update of stored keys a second try reports success and does
nothing; an answer of the genesis filter that never comes leaves its spinner.

### WalletManager

The root database is `root` with its requests in a queue; each wallet has a
database, `stored` says which wallet objects are in it, and requests to open or
delete one are answered in the order of IndexedDB: a deletion waits for every
connection to close, an opening waits for the deletion before it. `idb` is the
database that all instances of `iDB` share, so that an opening that is late replaces the
one of a newer instance, `handle` the database that `idb_helper` writes to: they can
differ. `manager`, `account` and `ram` are the three stores that should show one
wallet. A `call` is one `setWallet` or `restore` with the step it waits for.
`reload` is the end of the page, with requests lost or done.

Every write of the root database and the read of the current wallet may fail.
`onSetWallet` issues the writes of the names and of the current wallet whatever comes of
the other one (`WalletManagerStore.js:74-83`), so a current wallet may be written whose
name is not in the list: `unlisted`, which `Listed` excepts, has that wallet, and those
whose deletion or restore has not reached the list, until a list that has them is
written. `overwritten` has the wallets that `init()` dropped from the names of the
manager.

`disturbed` is history of the page: two steps overlapped, one failed, the current
wallet was deleted or restored over, or a switch went to an empty database
without creating a wallet. In each of these the stores do end up with different
wallets, which the model keeps:

* `onDeleteWallet` calls `setWallet` within a dispatch, which alt refuses: the
  next wallet is shown as current while the deleted one stays open and in RAM.
* A switch to an empty database leaves the old wallet in RAM, and its updates
  then go to the new database.
* An update between the opening of a database and the load of its wallet writes
  the old wallet there.
* `init()` of a connection puts the list on the disk over a newer one of the manager
  (`overwritten`); the next list that is written lacks a wallet that was created since.
* The connection of a restore is never closed, so a deletion of that wallet
  waits until the browser collects it.
* Errors of a creation are swallowed, and an interrupted one leaves a listed
  wallet with an empty database; after the last wallet is deleted a database
  without a name is opened.

### WalletUnlock, TxConfirm, Signing

`pending` is the caller whose `resolve` and `reject` the store holds, `promise`
what each caller of the session sees. `Rendered` is `componentDidUpdate` of the dialog, which runs
in the same turn as the change of the store and resolves the pending caller of an
unlocked wallet: it is part of every action that changes a store the dialog
listens to, and `Rerender` is a change of any other.

In `TxConfirm` there is one `dialog` and any number of `call`s. Each answer is
merged into the dialog, whatever it shows by then, while `confirm` is settled for
the transaction of the call, because `broadcast` was given that transaction's
`resolve` and `reject`. `broadcast_timeout` keeps listening to a late answer, as
the code does.

`Signing` gives each transaction a `job`. Steps that are continuations of a
settled promise come first (`Quiet`), as microtasks do. `importBalance` unlocks for
itself (`Import(t)`) while the account is looked up, in either order
(`AccountAnswered`, `ImportUnlocked`), and then calls `process_transaction`, which
asks to unlock again: the wallet may have been locked in between. All other
transactions are made and processed in one turn (`Call`). The actions of the two
instances are taken whole; the mapping of `outcome` in terms of `job` and the
dialog's promise (`confirm`) is the refinement of `Submission`.

### NodePing

The state starts where `strategy.ping` has returned. `runCallbacks` is everything
that happens on one stack when a pinger calls back: the strategy adds the nodes
of its next stage and calls the pinger, which calls back at once if that stage
added nothing or it is satisfied, until a stage has nodes to ping or the update
is done. `inProgress` is `_willTransitionToInProgress` with its three kinds of value
(`flag` in `NodeTransition`), and `otherTransition` is anyone else who sets and
clears it.

Wider than the code: the shuffled order of every stage is any order; the
preferred region is that of any existing node, with or without a country.
Latencies are classes: below 500, 800 and 1500 ms, slower, none.

### NodeTransition

Each `call` is one call of `willTransitionTo`, or of the latency update of the
settings, with its place in the code; everything else is the singleton they
share. Three calls are enough for the two that overlap and a third that comes
between. `owner` is the call whose web socket is in use: another call's socket
may stay silent. `Loaders` are the places between `_connectInProgress` being set
and cleared. `answers` are the steps that need nobody to act; `latencyDone`
stands for a whole latency update, which `NodePing` models, and may find any set
of nodes. `pings` are the background pings, which set and clear the same flag.
`faulty` is history: nodes that failed and were neither reached nor chosen since.

Kept although it looks wrong: after `MULTIPLE CONNECT IN PROGRESS` the socket stays
on the node of the second transition while the stores are of the first; the
setting `apiServer` stays empty after a retry although the comment on lines
647-648 says that `_onConnect` sets it; `_recalculateLatency` writes the node it
started from back, which may be left by then; an activation while a transition
is in progress is refused after the setting has changed.

### MarketFeed

`request` is a pool of requests that are answered in any order, `subs` and
`options` the state of `MarketsActions`, `timer` and `batch` the batch of
notifications, `activeMarket`, `limits` and `history` which market the data of
the store belongs to. The node starts to notify when it gets the subscription,
before the answers to the other eleven requests. Call and settle orders, the
ticker and the grouped orders are left out; `restored` is history of a failed
unsubscribe.

### OrderBook

The node's orders change, it notifies, and answers, over one socket in order;
an answer of the orders waits in `results` until the other requests of its batch
are answered, and what was heard meanwhile is applied before it. Removed orders
are also told by object (`cancel-order`) and dispatched by a timer of their own.

The node answers with `Limit` orders of a side, 300 in the code, any of equally good
ones (`Listings`). An answer may be a failure: then the whole batch is given up and
nothing asks again (`batchFailed`). Subscribing and unsubscribing clear the timers of the
next batch and of the removals (`batchTimeoutsCleared`), or clear them and ask
(`marketSubscribed`). `lost` is history: a batch was given up in one of these ways and
none was asked since. Then the store may stay behind the node with nothing under way,
which `QuietIsCurrent` excepts; it holds again with the next notification.

`construct` folds the sorted orders into rows as the loops of `_orderBook` do;
orders of one price come in any order, as the immutable map gives none.
`getPrice` and `times` round as the code does, with `Scale` for its eight decimals.
`BookIsReference` compares rows, totals and chart with definitions by sets of
orders, in every state: the store replaces the orders with every answer, but the
rows only when `didOrdersChange` finds a difference.

Call orders are left out because there are none: `_marginCallsDisabledForMarket` is
true for every bitasset that is no prediction market, and those have no margin
calls. Grouped and settle orders are left out.

Kept: `sum` copies the order it is called on, so that of three orders or more at
one price the sellers of two only remain, and the row of the others is not marked
as theirs (CHANGELOG.md:680 says own orders are highlighted). Not in the model:
`OrderBookRowHorizontal.shouldComponentUpdate` does not look at the totals, so that
the total column of a row stays what it was when a better row changes, and
`setTotalForSale` resets the cache of the other total (MarketClasses.js:591-594).


## 3. The runs

| Run | Instance | Distinct states | What it shows |
|---|---|---|---|
| `WalletDb` | 1 password, window of 2, 2 keys in use at the start, sequence up to 3, 2 queued transactions, 1 fault | 1 527 684 | RAM and disk converge, no key is lost, keys of an account differ and stay recoverable |
| `WalletUnlock` | 3 callers, symmetric | 555 | answers are true, who waits can be answered, an unlocked store means an unlocked wallet |
| `TxConfirm` | 2 transactions, 3 broadcasts | 57 047 | refinement of `Submission`, the button, and two liveness properties |
| `Signing` | an import with its balance claim and a transfer, 1 broadcast | 331 778 | refinement of `Submission` through session and dialog |
| `KeyStore` | 2 keys, one of a cloud login, 1 import, 3 record ids, 3 queued transactions | 2 986 902 | what is shown is stored, counted, indexed; a reported import is stored |
| `ImportPage` | 2 keys, 4 files, 2 pages, 2 lookups, 2 imports | 1 753 360 | the page shows the last input, imports what was confirmed, and its spinner ends |
| `WalletManager` | 2 wallets, one the default; 2 calls, a deletion or a connection, a reload | 4 259 430 | stored wallets are listed; stores and databases agree after a switch that was alone, and after a reload |
| `NodePing` | 4 nodes in 2 regions and 3 countries, batches of 2 | 579 216 | the update ends once, only when it may, and every node is asked once |
| `NodePingSuitable` | the same | counterexample | a node without an answer counts as an instant one |
| `NodeTransition` | 2 nodes of 2 chains, the start and 2 more calls | 470 094 | one loader, of the right chain; no faulty node twice; the start is answered and transitions end |
| `MarketFeed` | 2 markets, 2 settings, 3 requests, symmetric | 415 167 | one market on show, batches of the current market |
| `OrderBook` | 4 bids, two of one rounded price, and an ask; amounts up to 2, 3 orders of a side in an answer, 2 changes, 1 fault | 1 039 271 | rows, totals and chart are those of the orders, and the orders are the node's when nothing is under way and no batch was lost |

Why the bounds are enough. In `WalletDb` the cases that differ are: no, one or two
transactions in the queue when an operation starts, two used keys in the window whose
answers come in either order, one account's three keys, and a fault before or after
each; larger bounds add repetitions. One password is enough: a change of it is a write
like another, and the theorems are for any. `KeyStore` needs two keys that conflict for
a record id, a cloud login that shares one of them, and a queue that holds a load
between two other transactions. `TxConfirm` needs one call whose answer comes while
another transaction is shown and one transaction sent twice: two transactions and three
calls. `WalletUnlock` needs a caller that overwrites a waiting one while a third is
answered. `NodePing` has a region with one node, a region of three, and a country of
two, so that every stage can be empty or not and a batch can be short. `MarketFeed`
needs the answers of an earlier market, of the current one and a batch under way
together. `NodeTransition` needs two overlapping transitions to different chains and a
call between them. `ImportPage` needs an import of a page that was left and one of the
next, and a file that is overtaken by another. `WalletManager` needs two switches or a
switch and a restore, with a deletion or a connection beside them; any number of writes
may fail. A second of a kind meets no new state of the stores. `OrderBook` starts with
none, three or four orders, so that two changes meet rows of one and of two orders, an
empty side, a side of more orders than are answered, and a batch under way; a removed
order is brought back by one change and two batches, and a fault meets each of them.

`CHECK_DEADLOCK FALSE` is in the runs whose requests are bounded: `TxConfirm`,
`Signing`, `NodeTransition`, `ImportPage`, `WalletManager` and `OrderBook` stop when
all calls, pages and changes are used up and everything is answered.

The type invariants of `NodePing` and `WalletManager` are in no run: they are proved,
as parts of inductive invariants (section 5). `OrderBook` has none of its own, as
`BookIsReference` says what its rows are; `BookType` in its proofs has what they need.

What the counterexample says of the program: `SuitableWasReached` fails, as
`null < 500` is true: one unreachable node satisfies the latency update.

What the models show of the program, each found as a counterexample to the
sentence in question and then kept in the model:

* "Since the account creation failed" (`WalletActions.js:251-253`). The `catch` of
  `createAccount` also runs when the faucet's answer is lost, or when the wallet was
  locked meanwhile: the account exists, and its keys will be given to the next one.
* "Wallet auto-lock time" (locale-en.json:2352). Only `unlock()` and a change of the
  setting start the timer; pages that unlock behind the store do not
  (`WalletUnlockStore.js:50`).
* "Transaction confirmed" (locale-en.json:2739). The answer to one broadcast marks
  the transaction that the dialog shows by then (`TransactionConfirmStore.js:49`).
* "Successfully imported" (locale-en.json:3062). An import of a key that RAM holds
  from a cloud login reports success and stores the entry of the login, over the
  record of another key if it has the same id (`WalletDb.js:822`).

* "this.state.pending_operation_count == 0" (`PrivateKeyStore.js:13-16`). A load resets
  the count in the state while operations are under way, and an import is not counted.
* "so this can't be out-of-sync" (`WalletDb.js:692`, 701, 708). The completion of an
  older write puts its clone over a newer object in RAM, and an operation that comes
  then takes the newer one back on disk too.

Facts that contradict no text of the repository: a key whose transaction aborted is
never stored until RAM is loaded again, as RAM takes it for a duplicate; the look-ahead
passes over a used key whose answer comes late; a batch of orders that failed is not
asked for again; after `getBrainKey` throws, `generatingKey` stays set
until a reload; a second `unlock()` takes the slot of a caller that waits, whose
promise never settles; the timeout of a broadcast rejects a transaction that a
block may contain; two transitions may be in progress at once, as the pinger
clears the flag of the other; the market on show may stay that of an earlier
page, when its answers come last.


## 4. Fairness

Only timers are assumed to fire, because `setTimeout` does. `TxConfirm` has weak
fairness for `broadcast_timeout` alone: the node need never answer, and everyone
who confirmed is answered still. `NodePing` has it for the timer of the next
batch, for `DirectPinger`, whose own timer of two seconds resolves what did not
answer, and for the timer of the background pings. That timer finds the flag set
again and again while other transitions go on, so `EventuallyAllAsked` asks for
no more than "other transitions go on forever or every node is asked".

`NodeTransition` has weak fairness for the start of the application and, call by
call, for `answers`: timers, IndexedDB, and the web socket in use, which opens or
fails by its own timeout. A socket that another call replaced has none. `EventuallyIdle`
excepts an alert, which waits for the user. `ImportPage` has it for lookups, which
the node answers or the socket rejects, and for the steps of an import that are
timers, workers and IndexedDB; nothing makes the user confirm or unlock. The
other modules state safety only and have no fairness.


## 5. The proofs

All theorems are of the specification, for any value of the constants that the
named `ASSUME` of the module allows; those say that the "none" values are no
members of the sets they stand for and that bounds are naturals.

* `Dialogs_proofs`, the dialog: `ConfirmTypes`, `ButtonOnce` and
  `ConfirmImplementsSubmission`. `ButtonMeansUnsent` is not inductive: an error
  of a call says nothing of what the dialog shows. `ConfirmInv` adds that calls
  carry a transaction from the click on, that timers belong to such calls, and
  that what the dialog shows or a call carries was asked for. The refinement has
  one lemma per kind of step: sending, settling, a block, or a stutter.
* `Dialogs_proofs`, the session: `SessionTypes`, `ShownUnlocked`, `WaitingShown` and
  `AnswersAreTrue`. `SessionInv` is the types and the two invariants together:
  a render resolves the pending caller, so that caller must not be waiting when
  the wallet is unlocked, and the wallet must be unlocked when the store says so.
  `AnswersAreTrue` is an action property that follows from each step under it.
* `Signing_proofs`: `OnlyUnlockedIsSent`, `SigningImplementsSubmission`,
  `SubmissionHonest`, and `SigningHonest`, which follows from the last two: the
  callers of `process_transaction` and `importBalance` are told the truth. The
  module instantiates `Dialogs_proofs`. A step of the
  composition is a step of the session or a stutter, and a step of the dialog or a
  stutter, so their step lemmas give `SessionInv` and `ConfirmInv` here, without a
  second proof. `LetThrough` adds that a transaction past the unlock was resolved
  and, if it is a claim, has its keys; `ConfirmingIsShown` that the dialog was asked
  for what was handed to it and nothing else. The refinement adds what happens
  before the dialog, a call, a rejection or a stutter of `Submission`, to the steps
  that `ConfirmImplementsSubmission` maps.
* `WalletDb_proofs`: `WalletTypes`, `WalletConverges`, `KeysOfAccountDiffer`,
  `RegisteredKeysAreKept` and `KeysAreNotLost`, none of which has a hypothesis besides the
  specification. The invariant behind `WalletConverges` (`ConvInv`) is about the last
  write in the queue: it holds what the last operation intended, and if no write is
  queued RAM and disk do, unless that write was the one that aborted; the older copies
  that completions and loads put into RAM in between need no clause. `LargestExists` (a
  finite set of integers has a largest element) is proved by well-founded induction on
  subsets: `generateNextKey` moves the sequence behind the largest used key. `KeysInv`
  is behind the other three. `SafeIn` says of every copy of the wallet, in RAM, in each
  queued write and on the disk, that a key behind its sequence is stored, or queued ahead
  of that write, or in one of the histories; `OwnKeysInv` that the keys of an account
  that is registered, or waits for its answer, are stored, queued or aborted, and so
  is every key in RAM, as `saveKeys` skips those and queues nothing for them.
* `KeyStore_proofs`: `KeyStoreTypes`, `ShownKeysAreStored`, `CountNeverDrifts`,
  `OwnedKeysAreIndexed` and `ImportedKeysAreStored`. `ShownIsStored` has to be said of
  every prefix of the queue of transactions, as an update without an id replaces the
  record of its key (`QueueInv`, `Safe`); `ImportedIsStored` follows the keys of an
  import through its stages (`JobInv`): they are in its transaction, or were stored
  when it took them for duplicates, and its success waits for the transaction, the
  encryption and the addresses. `CountIsOutstanding` is a lemma each about the
  positions of a kind in a queue that grows at its end or shrinks at its head; the copy in
  the state follows, as only the last load can have reset it. `ShownKeysAreStored` is of
  an action property: `ShownInv` says where a key that RAM shows can be, and each action
  that takes it from there is an abort or an overwriting put.
* `ImportPage_proofs`: `PageTypes`, `InputIsCurrent` and `ConfirmedKeysAreImported`.
  The stamps of the guard are of this moment or of the past (`StampInv`), and a
  reset makes this moment past. `InputInv` says what is still valid: one file at
  most, on a page without keys, or a lookup of a key that is on the page. `ImportInv`
  says that, while nobody `overlap`s, one import at most is active, that the flag is
  set while it is under way, and that the page stays as it was confirmed until the
  worker has its keys: the spinner is what keeps the user from changing it.
* `WalletManager_proofs`: `WalletManagerTypes`, `WalletsListed` and `WalletsAgree`. The
  invariant has three parts besides the types. `Tokens`: a call has one request under
  way at most, in the queue of the root database or with IndexedDB, and it is the one
  its phase waits for. `Kept`, behind `Listed`: every write of the list that is queued
  has the wallets of the disk and of the writes before it, less those deleted in
  between, and a wallet is made current or opened only after a write that lists it; all
  of it but for the wallets that are `Excepted`, `unlisted` or `overwritten`, so that a
  failed write or an older list takes the promise from its own wallets only. `Peace`,
  behind `Agree`, holds until a step is `disturbed`: one thing happens at a time (the
  start of the page, a connection of the node, or one call), and for each phase of it
  the invariant says which of the stores, the open database and the disk have moved
  already. `reload` begins `Peace` anew, whatever was before. A write of the current
  wallet is queued only for a call that waits for it, as a failure ends the call and the
  peace together. There is a lemma for each action and each of the parts that it can
  disturb. The named assumption of the module says that `Unset`, which stands for no
  caller, is no call.
* `Connection_proofs`, the transition: `TransitionTypes`, `OneCallLoads` and
  `FaultyNodesAreAvoided`. `OneLoader` is strengthened by what `_oldChain` and the
  database are while nobody loads and while one call does (`ChainInv`, `LoaderInv`).
  `FaultyNotRetried` is an action property: `FaultyInv` says that a node without a
  latency is the last one only if it was chosen in the settings, and that a call which
  resets the connection to the last node is the reason for it.
* `Connection_proofs`, the latency update: `NodePingTypes`, `NodesAskedOnce` and
  `DoneOnlyWhenSatisfied`. `AskedIsPassed` says which nodes were asked: those the
  pinger has passed in its list, once each, and the batch that is on its way; as no
  node is in the list twice (`Unrepeated`), none is asked twice, in the foreground or
  the background. `Phase` says that a background pinger calls no strategy back, so
  that the update is done once. `RestIsAll` says that the stage after which the
  strategy ends has all nodes in the list: an update that ends without being
  satisfied has asked them all. `IntervalSize` and `BatchPasses` count a batch of any
  size, short ones included.
* `Market_proofs`, the order book: `StoreCatchesUp` (`QuietIsCurrent`) and
  `RowsFollowOrders`. Behind the first are `LastIsCurrent`, that the node will be asked
  again, or the last question was `lost`, or the last answer, wherever it is on its way,
  is a failure or what the node would answer now; `AnswersAreCurrent`, that an answer
  with no change behind it is as good as one of now; `Paired`, that the two halves of a
  batch do not pass each other, so that the orders that are kept for the rest of their
  batch are the right ones; and `CancelledAreGone`, that what is removed by object never
  comes back. `RowsFollowOrders` is an action property, that the orders of the store
  never change but with the rows and the chart built from the new ones:
  `didOrdersChange` tells every difference of two books. With it, what remains of
  `BookIsReference` is that `construct` and its folds compute what their definitions by
  sets say, which TLC checks.
* `Market_proofs`, the subscription: `FeedTypes`, `BatchCurrent` and `OneMarket`. The
  types are needed with the promises, as a request under way must name a market and
  not `None`; the comparison with `activeMarket` in `onSubscribeMarket` does the rest.

Each inductive invariant was first checked by TLC on the instance of the module's
run.

Model-checked only:

* `ConfirmedIsAnswered`, `EventuallyDone`, `EventuallyAllAsked`, `AppInitAnswered`,
  `EventuallyIdle` and `ImportEnds`: liveness under fairness is out of the prover's
  reach.
* `OrderBook!BookIsReference`: that the folds which build the rows compute the
  definitions by sets is an induction over data, which is out of the prover's reach.


## 6. Not modelled

* Cryptography, key derivation and encryption: a key is a number or a name.
  Display, wording and layout. Amounts and fees.
* In `WalletDb`: the vested amount of `claimVestingBalance` (which is then a `Call` of
  `Signing`), restore, the dates of the wallet. In `TxConfirm`: the reset of the store
  and listeners that do nothing to the dialog. Confirming a proposal
  (`TransactionConfirm.jsx:89-101`) is a step of `TxConfirm` that changes nothing: the
  dialog and the promises stay as they are, and the proposal is another transaction,
  which comes to the dialog as `onConfirm` at any later time and to `Signing` as a
  `Call`. That the caller of the proposed transaction is not answered is so in the
  model; `ConfirmedIsAnswered` is about what was broadcast. In `WalletManager`: a
  failure to open the database when the page starts, which fails the transition and is
  in `NodeTransition`. In `NodeTransition`: the list of nodes, and
  `InitError.onChangeWS`, which resets the connection without a transition. In
  `MarketFeed`: everything but limit orders and history; in `OrderBook`: the cached
  totals that rows draw.
* The components with status `not_modelled` in `PROJECT.json`, with the reason
  there: lists that are fetched and shown, builders of one transaction, views.
* Tabs: several tabs of the browser share one IndexedDB; the code has nothing
  that lets them know of each other, and every module is of one tab.


## 7. The plan

What is left, the most important first:

1. The vested amount of `claimVestingBalance` (WalletActions.js:265-357) as a
   function, against the policies of the chain.
2. `MarketStats`: the queue of tickers as an implementation of an abstract FIFO,
   with the rejection that stops it: `marketStatsQueueActive` is reset on success only
   (MarketsActions.js:101-116).
3. An abstract specification of `WalletManager` (one wallet is open, another is
   asked for), which it implements while undisturbed; its composition with
   `KeyStore`, whose keys are per wallet.
4. `Caches`: `CachedPropertyStore`, `BalanceClaimActiveStore` and
   `AccountRefsStore` over one abstract cache with late answers.
5. The backup that waits for `pending_operation_count`; grouped and settle orders.

Theorems worth proving: the refinement of item 3, with `Peace` as its invariant; that
the keys of `KeyStore` are of the wallet that is open, from both modules' invariants.
