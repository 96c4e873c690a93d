------------------------------ MODULE KeyStore ------------------------------
(***************************************************************************)
(* The private keys of the open wallet: src/app/stores/PrivateKeyStore.js, *)
(* stores/AddressIndex.js and the import of stores/WalletDb.js.            *)
(*                                                                         *)
(* A key is held in RAM as soon as its transaction is created and reaches  *)
(* the object store private_keys when that transaction completes.  The     *)
(* cursor that reads the object store is a transaction of the same queue.  *)
(* Adding a key to the address index needs the saved index, which is read  *)
(* once; importing also waits for two web workers.                         *)
(*                                                                         *)
(* A RAM entry knows the id of its record only if it was read by the       *)
(* cursor; the keys of a cloud login are entries without a record, with    *)
(* ids of their own.                                                       *)
(***************************************************************************)
EXTENDS Integers, Sequences, FiniteSets

CONSTANTS Keys,        \* public keys
          LoginKeys,   \* those of the account the user may log in to
          NoEntry,     \* the key is not in RAM
          Imports,     \* imports by the user; a finished one is used again
          NoImport,
          MaxId,       \* bound: record ids
          MaxQueue     \* bound: transactions queued when an operation starts

ASSUME KeyStoreAssumption ==
    /\ LoginKeys \subseteq Keys /\ IsFiniteSet(Keys)
    /\ NoEntry \notin [id : Nat, encrypted : BOOLEAN]
    /\ NoImport \notin Imports
    /\ MaxId \in Nat /\ MaxQueue \in Nat

VARIABLES keys,        \* PrivateKeyStore.state.keys
          disk,        \* the object store private_keys
          nextId,      \* its autoIncrement
          queue,       \* its transactions created and not complete
          count,       \* this.pending_operation_count
          stateCount,  \* state.pending_operation_count
          failed,      \* state.privateKeyStorage_error
          map,         \* the saved address index: "unread", "reading", "read", "failed"
          awaiting,    \* keys to be added to the index once it is read
          indexed,     \* AddressIndex.pubkeys: keys with their addresses in RAM
          saved,       \* the address index on disk
          saveTimer,   \* saveAddyMapTimeout is running
          import,      \* the user's imports
          harmed       \* history: keys of an aborted transaction or a lost record

storeVars == <<keys, disk, nextId, queue, count, stateCount, failed, harmed>>
indexVars == <<map, awaiting, indexed, saved, saveTimer>>
keyStoreVars == <<storeVars, indexVars, import>>

Entry == [id : Nat, encrypted : BOOLEAN]
Record == [id : Nat, pubkey : Keys, encrypted : BOOLEAN]
Transaction == [kind : {"load", "add", "import", "update"}, puts : SUBSET Record,
                by : Imports \cup {NoImport}]
Import == [keys : SUBSET Keys, stage : {"free", "encrypting", "storing", "success", "error"},
           stored : BOOLEAN, indexed : BOOLEAN]

TypeOK ==
    /\ keys \in [Keys -> Entry \cup {NoEntry}]
    /\ disk \subseteq Record /\ nextId \in Nat \ {0}
    /\ queue \in Seq(Transaction)
    /\ count \in Nat /\ stateCount \in Nat /\ failed \in BOOLEAN
    /\ map \in {"unread", "reading", "read", "failed"}
    /\ awaiting \subseteq Keys /\ indexed \subseteq Keys /\ saved \subseteq Keys
    /\ saveTimer \in BOOLEAN
    /\ import \in [Imports -> Import]
    /\ harmed \subseteq Keys

Idle == [keys |-> {}, stage |-> "free", stored |-> TRUE, indexed |-> TRUE]

\* A new wallet, before the first loadDbData.
Init ==
    /\ keys = [k \in Keys |-> NoEntry]
    /\ disk = {} /\ nextId = 1 /\ queue = <<>>
    /\ count = 0 /\ stateCount = 0 /\ failed = FALSE /\ harmed = {}
    /\ map = "unread" /\ awaiting = {} /\ indexed = {} /\ saved = {}
    /\ saveTimer = FALSE
    /\ import = [i \in Imports |-> Idle]

hasKey(k) == keys[k] # NoEntry
HasRoom == Len(queue) < MaxQueue
Pubkeys(records) == {r.pubkey : r \in records}

-----------------------------------------------------------------------------
(* The address index.                                                      *)

\* AddressIndex.add for each of S: at once if the saved index is read, else in
\* a continuation of reading it; not at all if it could not be read.
addToIndex(S) ==
    /\ CASE map = "read" ->
              /\ indexed' = indexed \cup S
              /\ saveTimer' = (saveTimer \/ ~ S \subseteq indexed)
              /\ UNCHANGED <<map, awaiting>>
         [] map \in {"unread", "reading"} ->
              /\ awaiting' = awaiting \cup S
              /\ map' = IF S = {} THEN map ELSE "reading"
              /\ UNCHANGED <<indexed, saveTimer>>
         [] map = "failed" -> UNCHANGED <<map, awaiting, indexed, saveTimer>>
    /\ UNCHANGED saved

loadAddyMap ==
    /\ map = "reading" /\ map' = "read"
    /\ indexed' = saved \cup awaiting
    /\ saveTimer' = ~ awaiting \subseteq saved
    /\ awaiting' = {}
    /\ UNCHANGED <<storeVars, saved, import>>

\* The promise stays rejected as long as the page is open.
loadAddyMapFails ==
    /\ map = "reading" /\ map' = "failed"
    /\ awaiting' = {}
    /\ UNCHANGED <<storeVars, indexed, saved, saveTimer, import>>

\* The timer fires; the write may fail.
saveAddyMap ==
    /\ saveTimer /\ saveTimer' = FALSE
    /\ saved' \in {saved, indexed}
    /\ UNCHANGED <<storeVars, map, awaiting, indexed, import>>

-----------------------------------------------------------------------------
(* Reading and adding keys.                                                *)

\* Called on every connection to a node and when a wallet is opened.  The state is
\* reset after the operation has been counted in it.
onLoadDbData ==
    /\ HasRoom
    /\ keys' = [k \in Keys |-> NoEntry] /\ failed' = FALSE
    /\ count' = count + 1 /\ stateCount' = 0
    /\ queue' = Append(queue, [kind |-> "load", puts |-> {}, by |-> NoImport])
    /\ UNCHANGED <<disk, nextId, harmed, indexVars, import>>

\* saveKey of a brainkey's key; a key that is in RAM is a duplicate.
onAddKey(k) ==
    /\ ~ hasKey(k) /\ HasRoom
    /\ keys' = [keys EXCEPT ![k] = [id |-> 0, encrypted |-> TRUE]]
    /\ count' = count + 1 /\ stateCount' = count'
    /\ queue' = Append(queue, [kind |-> "add", by |-> NoImport,
                               puts |-> {[id |-> 0, pubkey |-> k, encrypted |-> TRUE]}])
    /\ addToIndex({k})
    /\ UNCHANGED <<disk, nextId, failed, harmed, import>>

\* A cloud login puts its keys over whatever RAM holds for them.
setPasswordLoginKey ==
    /\ LoginKeys # {}
    /\ \E id \in [LoginKeys -> 1..Cardinality(LoginKeys)] :
          /\ \A j, k \in LoginKeys : id[j] = id[k] => j = k
          /\ keys' = [k \in Keys |-> IF k \in LoginKeys
                                     THEN [id |-> id[k], encrypted |-> FALSE] ELSE keys[k]]
    /\ UNCHANGED <<disk, nextId, queue, count, stateCount, failed, harmed, indexVars, import>>

-----------------------------------------------------------------------------
(* Importing keys.                                                         *)

Free(i) == import[i].stage \in {"free", "success", "error"} /\ import[i].indexed

\* The promise of an import resolves when both workers have answered and the
\* transaction is complete.
Settled(job) ==
    IF job.stage = "storing" /\ job.stored /\ job.indexed
    THEN [job EXCEPT !.stage = "success"] ELSE job

\* Mutant: RAM holds the keys before they are encrypted.
ShownBeforeEncrypted(i, S) ==
    /\ Free(i) /\ S # {} /\ \A k \in S : ~ hasKey(k)
    /\ import' = [import EXCEPT ![i] = [keys |-> S, stage |-> "encrypting",
                                        stored |-> FALSE, indexed |-> FALSE]]
    /\ map' = IF map = "unread" THEN "reading" ELSE map
    /\ keys' = [k \in Keys |-> IF k \in S THEN [id |-> 0, encrypted |-> TRUE] ELSE keys[k]]
    /\ UNCHANGED <<disk, nextId, queue, count, stateCount, failed, harmed, awaiting, indexed, saved,
                   saveTimer>>

\* The page has taken out what RAM holds already; both workers start.
importKeysWorker(i, S) ==
    /\ Free(i) /\ S # {} /\ \A k \in S : ~ hasKey(k)
    /\ import' = [import EXCEPT ![i] = [keys |-> S, stage |-> "encrypting",
                                        stored |-> FALSE, indexed |-> FALSE]]
    /\ map' = IF map = "unread" THEN "reading" ELSE map
    /\ UNCHANGED <<storeVars, awaiting, indexed, saved, saveTimer>>

\* Mutant: the import does not wait for its transaction.
NotWaiting(i) ==
    /\ import[i].stage = "encrypting" /\ HasRoom
    /\ LET new == {k \in import[i].keys : ~ hasKey(k)}
       IN  /\ queue' = Append(queue, [kind |-> "import", by |-> i,
                 puts |-> {[id |-> 0, pubkey |-> k, encrypted |-> TRUE] : k \in new}])
           /\ keys' = [k \in Keys |-> IF k \in new THEN [id |-> 0, encrypted |-> TRUE]
                                      ELSE keys[k]]
    /\ import' = [import EXCEPT ![i] = Settled([@ EXCEPT !.stage = "storing", !.stored = TRUE])]
    /\ UNCHANGED <<disk, nextId, count, stateCount, failed, harmed, indexVars>>

\* The AES worker answers: addPrivateKeys_noindex, which counts no operation.
Encrypted(i) ==
    /\ import[i].stage = "encrypting" /\ HasRoom
    /\ LET new == {k \in import[i].keys : ~ hasKey(k)}
       IN  /\ queue' = Append(queue, [kind |-> "import", by |-> i,
                 puts |-> {[id |-> 0, pubkey |-> k, encrypted |-> TRUE] : k \in new}])
           /\ keys' = [k \in Keys |-> IF k \in new THEN [id |-> 0, encrypted |-> TRUE]
                                      ELSE keys[k]]
    /\ import' = [import EXCEPT ![i].stage = "storing"]
    /\ UNCHANGED <<disk, nextId, count, stateCount, failed, harmed, indexVars>>

\* The address worker, which starts once the saved index is read, answers.
addAll(i) ==
    /\ ~ import[i].indexed /\ map = "read"
    /\ indexed' = indexed \cup import[i].keys
    /\ saveTimer' = (saveTimer \/ ~ import[i].keys \subseteq indexed)
    /\ import' = [import EXCEPT ![i] = Settled([@ EXCEPT !.indexed = TRUE])]
    /\ UNCHANGED <<storeVars, map, awaiting, saved>>

\* All the keys to import are in RAM (one, here): their account names are put.
updateImportedKeyAccounts(i, k) ==
    /\ Free(i) /\ hasKey(k) /\ HasRoom
    /\ import' = [import EXCEPT ![i] = [keys |-> {k}, stage |-> "storing",
                                        stored |-> FALSE, indexed |-> TRUE]]
    /\ queue' = Append(queue, [kind |-> "update", by |-> i,
                               puts |-> {[id |-> keys[k].id, pubkey |-> k,
                                          encrypted |-> keys[k].encrypted]}])
    /\ UNCHANGED <<keys, disk, nextId, count, stateCount, failed, harmed, indexVars>>

-----------------------------------------------------------------------------
(* Transactions.                                                           *)

pendingOperationDone == count' = count - 1 /\ stateCount' = count'

\* A second record for a public key violates the index by_pubkey.
Conflict(puts) == \E p \in puts, r \in disk : r.pubkey = p.pubkey /\ r.id # p.id

\* Without an id a record gets the next one, in the order of the requests.
WithIds(puts, order) ==
    {IF p.id = 0 THEN [p EXCEPT !.id = nextId - 1 + order[p]] ELSE p : p \in puts}

Finished(tx, stored) ==
    IF tx.by = NoImport THEN import
    ELSE [import EXCEPT ![tx.by] = IF stored THEN Settled([@ EXCEPT !.stored = TRUE])
                                   ELSE [@ EXCEPT !.stage = "error"]]

Complete ==
    /\ queue # <<>> /\ Head(queue).kind # "load"
    /\ LET tx    == Head(queue)
           new   == {p \in tx.puts : p.id = 0}
           given == tx.puts \ new
       IN  /\ ~ Conflict(tx.puts)
           /\ nextId + Cardinality(new) <= MaxId + 1
           /\ \E order \in [new -> 1..Cardinality(new)] :
                 /\ \A p, q \in new : order[p] = order[q] => p = q
                 /\ LET put == given \cup WithIds(new, order)
                        old == {r \in disk : \E p \in given : r.id = p.id}
                    IN  /\ disk' = (disk \ old) \cup put
                        /\ harmed' = harmed \cup (Pubkeys({r \in old : r.encrypted})
                                                 \ Pubkeys({p \in put : p.encrypted}))
           /\ nextId' = nextId + Cardinality(new)
           /\ IF tx.kind = "add" THEN pendingOperationDone
              ELSE UNCHANGED <<count, stateCount>>
           /\ import' = Finished(tx, TRUE)
    /\ queue' = Tail(queue)
    /\ UNCHANGED <<keys, failed, indexVars>>

\* A second record, or no room on the disk.  The store is told when the request
\* fails, not when the commit does.
Abort(told) ==
    /\ queue # <<>> /\ Head(queue).kind # "load"
    /\ LET tx == Head(queue)
       IN  /\ Conflict(tx.puts) => told
           /\ failed' = (failed \/ (tx.kind = "add" /\ told))
           /\ IF tx.kind = "add" THEN pendingOperationDone
              ELSE UNCHANGED <<count, stateCount>>
           /\ harmed' = harmed \cup Pubkeys(tx.puts)
           /\ import' = Finished(tx, FALSE)
    /\ queue' = Tail(queue)
    /\ UNCHANGED <<keys, disk, nextId, indexVars>>

EntriesOf(records) ==
    [k \in Keys |-> IF k \in Pubkeys(records)
                    THEN LET r == CHOOSE r \in records : r.pubkey = k
                         IN  [id |-> r.id, encrypted |-> r.encrypted]
                    ELSE NoEntry]

\* Mutant: loading does not index.
LoadedUnindexed ==
    /\ queue # <<>> /\ Head(queue).kind = "load"
    /\ keys' = EntriesOf(disk)
    /\ pendingOperationDone /\ queue' = Tail(queue)
    /\ UNCHANGED <<disk, nextId, failed, harmed, indexVars, import>>

\* The cursor has passed the last record: RAM holds what it found.
Loaded ==
    /\ queue # <<>> /\ Head(queue).kind = "load"
    /\ keys' = EntriesOf(disk)
    /\ addToIndex(Pubkeys(disk))
    /\ pendingOperationDone /\ queue' = Tail(queue)
    /\ UNCHANGED <<disk, nextId, failed, harmed, import>>

\* Mutant: the error handler forgets the pending operation.
LoadErrorUncounted ==
    /\ queue # <<>> /\ Head(queue).kind = "load"
    /\ keys' = [k \in Keys |-> NoEntry] /\ failed' = TRUE
    /\ queue' = Tail(queue)
    /\ UNCHANGED <<disk, nextId, count, stateCount, harmed, indexVars, import>>

\* Mutant: the error handler ends the pending operation a second time.
LoadErrorTwice ==
    /\ queue # <<>> /\ Head(queue).kind = "load"
    /\ keys' = [k \in Keys |-> NoEntry] /\ failed' = TRUE
    /\ count' = count - 2 /\ stateCount' = count' /\ queue' = Tail(queue)
    /\ UNCHANGED <<disk, nextId, harmed, indexVars, import>>

LoadError ==
    /\ queue # <<>> /\ Head(queue).kind = "load"
    /\ keys' = [k \in Keys |-> NoEntry] /\ failed' = TRUE
    /\ pendingOperationDone /\ queue' = Tail(queue)
    /\ UNCHANGED <<disk, nextId, harmed, indexVars, import>>

\* The page is closed or reloaded.
Reload ==
    /\ keys' = [k \in Keys |-> NoEntry] /\ queue' = <<>>
    /\ count' = 0 /\ stateCount' = 0 /\ failed' = FALSE
    /\ map' = "unread" /\ awaiting' = {} /\ indexed' = {} /\ saveTimer' = FALSE
    /\ import' = [i \in Imports |-> Idle]
    /\ UNCHANGED <<disk, nextId, harmed, saved>>

Next ==
    \/ loadAddyMap \/ loadAddyMapFails \/ saveAddyMap
    \/ onLoadDbData
    \/ \E k \in Keys : onAddKey(k)
    \/ setPasswordLoginKey
    \/ \E i \in Imports, S \in SUBSET Keys : importKeysWorker(i, S)
    \/ \E i \in Imports : Encrypted(i) \/ addAll(i)
    \/ \E i \in Imports, k \in Keys : updateImportedKeyAccounts(i, k)
    \/ Complete \/ \E told \in BOOLEAN : Abort(told)
    \/ Loaded \/ LoadError
    \/ Reload

Spec == Init /\ [][Next]_keyStoreVars

-----------------------------------------------------------------------------
(* What is promised.                                                       *)

Stored(k) == \E r \in disk : r.pubkey = k /\ r.encrypted

\* RAM shows a key of the wallet that has no record and will not get one.
Unbacked(k) ==
    /\ hasKey(k) /\ keys[k].encrypted /\ ~ Stored(k)
    /\ \A n \in 1..Len(queue) : k \notin Pubkeys(queue[n].puts)

\* The transaction that was to store k leaves the queue without doing so.
Dropped(k) == queue # <<>> /\ queue' = Tail(queue) /\ k \in Pubkeys(Head(queue).puts)

\* What RAM shows as a key of the wallet is stored or on its way.  The only steps
\* after which it is not are the abort of the key's own transaction, after which RAM
\* keeps it, and a put of another key over its record: no interleaving of loads,
\* additions, imports and logins does so.
ShownIsStored ==
    [][\A k \in Keys : Unbacked(k)' => Unbacked(k) \/ Dropped(k) \/ Stored(k)]_keyStoreVars

Counted == {n \in 1..Len(queue) : queue[n].kind \in {"load", "add"}}

\* this.pending_operation_count is the number of additions and loads under way, so
\* that pendingOperationDone is never "called too many times" (PrivateKeyStore.js:222).
\* The copy in the state, which other components would read (13-16), says the same,
\* or it was reset by a load that is still under way and was the last of them to begin.
CountIsOutstanding ==
    /\ count = Cardinality(Counted)
    /\ \/ stateCount = count
       \/ /\ stateCount = 0
          /\ \E n \in Counted : queue[n].kind = "load" /\ \A m \in Counted : m <= n

\* The addresses of k are in the index, or will be without another call, unless the
\* saved index could not be read since the page was opened.
IndexedIfRead(k) == k \in indexed \cup awaiting \/ map = "failed"

\* A balance claim finds the key of an address: the addresses of every key of the
\* wallet in RAM are in the index, or will be, or an import waits for the worker that
\* makes them.
OwnedIsIndexed ==
    \A k \in Keys : hasKey(k) /\ keys[k].encrypted =>
        \/ IndexedIfRead(k)
        \/ \E i \in Imports : ~ import[i].indexed /\ k \in import[i].keys

\* locale-en.json:3062 "Successfully imported %(count)s keys.": each of them is
\* stored, encrypted, in this browser.  Excepted are keys of which RAM holds a cloud
\* login's, which an import takes for duplicates and does not store, and those that
\* a failed transaction or a lost record has touched.
ImportedIsStored ==
    \A i \in Imports : import[i].stage = "success" =>
        \A k \in import[i].keys \ (LoginKeys \cup harmed) :
            Stored(k) /\ IndexedIfRead(k)
=============================================================================
