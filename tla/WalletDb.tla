------------------------------ MODULE WalletDb ------------------------------
(***************************************************************************)
(* The local wallet: src/app/stores/WalletDb.js with the account creation  *)
(* of src/app/actions/WalletActions.js.                                    *)
(*                                                                         *)
(* The wallet object lives twice, in RAM (state.wallet) and in IndexedDB.  *)
(* An operation changes the RAM object, clones it and hands the clone to a *)
(* read-write transaction; when that transaction completes the clone       *)
(* becomes the RAM object.  Read-write transactions on the wallet store    *)
(* run in the order they were created, so they form a queue, but nothing   *)
(* stops an operation from running while earlier clones are still queued.  *)
(*                                                                         *)
(* A transaction may also abort: the disk stays as it was, RAM is not put  *)
(* back, and a key whose transaction aborted is still held in RAM, where   *)
(* it is taken for a duplicate by the next attempt to save it.             *)
(*                                                                         *)
(* Keys derived from the brainkey are named by their sequence number.  The *)
(* commit of a transaction and its completion callback are one step here:  *)
(* the code reads the disk only in transactions of the same queue, so an   *)
(* operation between the two behaves as one before both.                   *)
(***************************************************************************)
EXTENDS Integers, Sequences, FiniteSets

CONSTANTS Passwords,       \* the passwords a user may choose
          FirstPassword,   \* the password the wallet was created with
          LookAheadLimit,  \* the 10 of generateNextKey
          NoWallet,        \* a transaction that does not write the wallet
          NoCreation,      \* no account creation is waiting for its answer
          MaxUsed,         \* bound: brainkeys 0..MaxUsed-1 may be in use at the start
          MaxSequence,     \* bound: brainkey sequence
          MaxQueue,        \* bound: queued transactions when an operation starts
          MaxFaults        \* bound: aborts, loads and throws

ASSUME WalletAssumption ==
    /\ FirstPassword \in Passwords
    /\ LookAheadLimit \in Nat \ {0}
    /\ NoWallet \notin [brainkey_sequence : Nat, password : Passwords]
    /\ MaxUsed \in Nat /\ MaxSequence \in Nat /\ MaxQueue \in Nat /\ MaxFaults \in Nat

VARIABLES wallet,         \* state.wallet, the copy in RAM
          disk,           \* the wallet object in IndexedDB
          queue,          \* read-write transactions created and not complete
          keysDisk,       \* brainkeys whose private key is in IndexedDB
          ramKeys,        \* brainkeys in PrivateKeyStore.state.keys
          aes,            \* aes_private # null
          passwordKey,    \* _passwordKey # null (a cloud login)
          generatingKey,  \* this.generatingKey
          lookAhead,      \* this.brainkey_look_ahead
          asked,          \* keys whose account references were requested
          known,          \* keys ChainStore knows to control an account
          inUse,          \* keys that control an account on the chain
          creating,       \* the account creation that waits for its answer
          intended,       \* history: what the last operation left in RAM
          unsaved,        \* history: the write of the last operation aborted
          aborted,        \* history: unstored keys of an aborted transaction
          unseen,         \* history: unstored keys passed over before an answer named them
          overtaken,      \* history: unstored keys taken behind a stored or queued sequence
          registered,     \* history: unstored keys of accounts registered from this page
          faults          \* aborts, loads and throws, for the bound on them

walletVars == <<wallet, disk, queue, intended, unsaved, faults>>
keyVars == <<keysDisk, ramKeys, aborted, unseen, overtaken>>
lookVars == <<generatingKey, lookAhead, asked>>
chainVars == <<known, inUse>>
sessionVars == <<aes, passwordKey>>
creationVars == <<creating, registered>>
vars == <<walletVars, keyVars, lookVars, chainVars, sessionVars, creationVars>>

\* password_pubkey and encryption_key always change together: one field.  The
\* dates (created, last_modified, backups) are left out.
Wallet == [brainkey_sequence : Nat, password : Passwords]

\* A write of the wallet; the keys of single transactions that follow each other, or
\* those of one transaction; the readings of loadDbData.
Transaction ==
    [kind : {"write"}, wallet : Wallet, keys : {{}}]
    \cup [kind : {"each", "all"}, wallet : {NoWallet}, keys : SUBSET Nat]
    \cup [kind : {"load"}, wallet : {NoWallet}, keys : {{}}]
Creation == [keys : [1..3 -> Nat], via : {"faucet", "registrar"}, registered : BOOLEAN]

Write(w) == [kind |-> "write", wallet |-> w, keys |-> {}]
Put(kind, S) == [kind |-> kind, wallet |-> NoWallet, keys |-> S]

TypeOK ==
    /\ wallet \in Wallet /\ disk \in Wallet /\ intended \in Wallet
    /\ queue \in Seq(Transaction)
    /\ keysDisk \subseteq Nat /\ ramKeys \subseteq Nat /\ asked \subseteq Nat
    /\ known \subseteq Nat /\ inUse \subseteq Nat
    /\ aborted \subseteq Nat /\ unseen \subseteq Nat /\ overtaken \subseteq Nat
    /\ registered \subseteq Nat
    /\ aes \in BOOLEAN /\ passwordKey \in BOOLEAN
    /\ generatingKey \in BOOLEAN /\ unsaved \in BOOLEAN
    /\ lookAhead \in Nat /\ faults \in Nat
    /\ creating \in Creation \cup {NoCreation}

NewWallet == [brainkey_sequence |-> 0, password |-> FirstPassword]

\* A wallet just created or restored from its brainkey: some of the first
\* derived keys may already control accounts.
Init ==
    /\ wallet = NewWallet /\ disk = NewWallet /\ intended = NewWallet
    /\ queue = <<>> /\ keysDisk = {} /\ ramKeys = {} /\ unsaved = FALSE /\ faults = 0
    /\ aes = FALSE /\ passwordKey = FALSE
    /\ generatingKey = FALSE /\ lookAhead = 0
    /\ inUse \in SUBSET (0 .. MaxUsed - 1)
    /\ asked = {} /\ known = {}
    /\ creating = NoCreation /\ registered = {}
    /\ aborted = {} /\ unseen = {} /\ overtaken = {}

isLocked == ~ (aes \/ passwordKey)

-----------------------------------------------------------------------------
(* One synchronous block of the event loop threads this record through the *)
(* calls it makes, then stores it with Run.                                *)
Now == [wallet |-> wallet, queue |-> queue, lookAhead |-> lookAhead, asked |-> asked,
        ramKeys |-> ramKeys, unseen |-> unseen, overtaken |-> overtaken]

AtLeastZero(n) == IF n < 0 THEN 0 ELSE n
Smaller(m, n) == IF m < n THEN m ELSE n
Larger(m, n) == IF m < n THEN n ELSE m

KeysQueued(q) == UNION {q[n].keys : n \in 1..Len(q)}

\* The wallets on their way to the disk.
WritesQueued(q) == {q[n].wallet : n \in 1..Len(q)} \ {NoWallet}

\* Mutant: the clone is taken before the RAM object is changed.
CloneTakenEarly(now, w) ==
    [now EXCEPT !.wallet = w, !.queue = Append(@, Write(now.wallet))]

\* w becomes the RAM object and its clone is queued for the disk.
_updateWallet(now, w) ==
    [now EXCEPT !.wallet = w, !.queue = Append(@, Write(w))]

\* The keys of S go to RAM and into a transaction each, smallest first, or into one
\* for all.  A key that RAM holds is a duplicate and is not saved again.
saveKeys(now, kind, S) ==
    IF S \subseteq now.ramKeys THEN now
    ELSE [now EXCEPT !.queue = Append(@, Put(kind, S \ now.ramKeys)),
                     !.ramKeys = @ \cup S]

WithSequence(w, n) == [w EXCEPT !.brainkey_sequence = n]

\* Mutant: only the clone is incremented, RAM follows when it is written.
IncrementOnDiskOnly(now) ==
    [now EXCEPT !.queue = Append(@,
        Write(WithSequence(now.wallet, now.wallet.brainkey_sequence + 1)))]

incrementBrainKeySequence(now) ==
    _updateWallet(now, WithSequence(now.wallet, now.wallet.brainkey_sequence + 1))

\* Mutant: the sequence may become negative.
DecrementUnbounded(now) ==
    _updateWallet(now, WithSequence(now.wallet, now.wallet.brainkey_sequence - 1))

decrementBrainKeySequence(now) ==
    _updateWallet(now, WithSequence(now.wallet,
                                    AtLeastZero(now.wallet.brainkey_sequence - 1)))

\* The positions generateNextKey looks at: at least the first LookAheadLimit of a
\* wallet at sequence 0, one more with every call.
Window(now) ==
    LET first == now.wallet.brainkey_sequence
        ahead == Smaller(LookAheadLimit, now.lookAhead + 1)
        last  == IF first = 0 THEN Larger(ahead, LookAheadLimit) ELSE first + ahead
    IN  first .. last - 1

\* Keys found in use are saved and the sequence moves behind the last of them, over
\* those no answer has named yet.
SkipUsed(now) ==
    LET used   == Window(now) \cap known
        looked == [now EXCEPT !.lookAhead = Smaller(LookAheadLimit, @ + 1),
                              !.asked = @ \cup Window(now)]
    IN  IF used = {} THEN looked
        ELSE LET lastUsed == CHOOSE k \in used : \A j \in used : j <= k
                 passed == {k \in Window(now) \ known : k < lastUsed}
             IN  [_updateWallet(saveKeys(looked, "each", used),
                                WithSequence(now.wallet, lastUsed + 1))
                  EXCEPT !.unseen = @ \cup (passed \ keysDisk)]

\* History of a key that is taken and neither stored nor on its way: it is passed
\* over no more, and overtaken if a sequence behind it is.
Taken(now, k) ==
    IF k \in keysDisk \cup KeysQueued(now.queue) THEN now
    ELSE [now EXCEPT !.unseen = @ \ {k},
                     !.overtaken = @ \cup
                        {j \in {k} : \E w \in {disk} \cup WritesQueued(now.queue) :
                                        j < w.brainkey_sequence}]

\* Mutant: the sequence moves before the key is saved.
SequenceBeforeKey(now, save) ==
    LET skipped == SkipUsed(now)
        k == skipped.wallet.brainkey_sequence
    IN  IF save THEN saveKeys(incrementBrainKeySequence(Taken(skipped, k)), "each", {k})
        ELSE skipped

\* Mutant: the key is left for updateWallet to save when the account exists.
KeySavedLater(now, save) ==
    IF save THEN incrementBrainKeySequence(SkipUsed(now)) ELSE SkipUsed(now)

\* The sequence number of the key generateNextKey returns.
NextKey(now) == SkipUsed(now).wallet.brainkey_sequence

generateNextKey(now, save) ==
    LET skipped == SkipUsed(now)
        k == skipped.wallet.brainkey_sequence
    IN  IF save THEN incrementBrainKeySequence(saveKeys(Taken(skipped, k), "each", {k}))
        ELSE skipped

Run(now) ==
    /\ wallet' = now.wallet /\ queue' = now.queue
    /\ lookAhead' = now.lookAhead /\ asked' = now.asked
    /\ ramKeys' = now.ramKeys /\ unseen' = now.unseen /\ overtaken' = now.overtaken
    /\ intended' = IF now.queue = queue THEN intended ELSE now.wallet
    /\ unsaved' = (unsaved /\ now.queue = queue)
    /\ UNCHANGED <<disk, keysDisk, aborted, faults>>

-----------------------------------------------------------------------------
(* The event loop's steps.  A user may start an operation at any time; only *)
(* the bound on the queue (MaxQueue) holds operations back.                 *)
HasRoom == Len(queue) < MaxQueue
Fault == faults < MaxFaults /\ faults' = faults + 1

\* ChainStore calls back on every change of its references by key, which an answer
\* about any key is: at any time.
checkNextGeneratedKey ==
    /\ aes /\ HasRoom
    /\ Run(IF generatingKey THEN Now ELSE generateNextKey(Now, FALSE))
    /\ UNCHANGED <<generatingKey, chainVars, sessionVars, creationVars>>

\* Three keys in one synchronous block, then the request is sent.  With
\* generatingKey still set generateNextKey returns undefined, createAccount
\* throws on it and nothing changes.
createAccount(via) ==
    /\ creating = NoCreation /\ aes /\ ~ generatingKey /\ HasRoom
    /\ LET owner  == generateNextKey(Now, TRUE)
           active == generateNextKey(owner, TRUE)
           memo   == generateNextKey(active, TRUE)
       IN  /\ memo.wallet.brainkey_sequence <= MaxSequence
           /\ Run(memo)
           /\ creating' = [keys |-> <<NextKey(Now), NextKey(owner), NextKey(active)>>,
                           via |-> via, registered |-> FALSE]
    /\ UNCHANGED <<generatingKey, chainVars, sessionVars, registered>>

\* A cloud login counts as unlocked although the brainkey cannot be decrypted:
\* getBrainKey throws out of generateNextKey, which leaves generatingKey set.
createAccountThrows ==
    /\ ~ isLocked /\ ~ aes /\ ~ generatingKey /\ Fault
    /\ generatingKey' = TRUE
    /\ UNCHANGED <<wallet, disk, queue, intended, unsaved, keyVars, lookAhead, asked,
                   chainVars, sessionVars, creationVars>>

\* The faucet registers the account with the active key as its memo key, the
\* registrar path with all three keys.
Register ==
    /\ creating # NoCreation /\ ~ creating.registered
    /\ creating' = [creating EXCEPT !.registered = TRUE]
    /\ LET controlling == {creating.keys[1], creating.keys[2]}
                          \cup (IF creating.via = "registrar" THEN {creating.keys[3]} ELSE {})
       IN  /\ inUse' = inUse \cup controlling
           /\ registered' = registered \cup (controlling \ keysDisk)
    /\ UNCHANGED <<walletVars, keyVars, lookVars, sessionVars, known>>

\* The success answer: updateWallet saves the three keys once more, in one
\* transaction, which needs the private AES key.
AccountCreated ==
    /\ creating # NoCreation /\ creating.registered /\ aes /\ HasRoom
    /\ LET saved == saveKeys(Now, "all", {creating.keys[n] : n \in 1..3})
       IN  queue' = saved.queue /\ ramKeys' = saved.ramKeys
    /\ creating' = NoCreation
    /\ UNCHANGED <<wallet, disk, intended, unsaved, faults, keysDisk, aborted, unseen,
                   overtaken, lookVars, chainVars, sessionVars, registered>>

\* An error answer, a lost answer (the server may have registered the account)
\* or an updateWallet that throws because the wallet was locked meanwhile.  The
\* faucet path ends in the catch that takes the three keys back.
CreationRejected ==
    /\ creating # NoCreation /\ HasRoom
    /\ creating' = NoCreation
    /\ Run(IF creating.via = "faucet"
           THEN decrementBrainKeySequence(decrementBrainKeySequence(
                    decrementBrainKeySequence(Now)))
           ELSE Now)
    /\ UNCHANGED <<generatingKey, chainVars, sessionVars, registered>>

resetBrainKeySequence ==
    /\ HasRoom
    /\ Run(_updateWallet(Now, WithSequence(wallet, 0)))
    /\ UNCHANGED <<generatingKey, chainVars, sessionVars, creationVars>>

setBackupDate ==
    /\ HasRoom
    /\ Run(_updateWallet(Now, wallet))
    /\ UNCHANGED <<generatingKey, chainVars, sessionVars, creationVars>>

\* The RAM object takes the new password before the disk does.
changePassword(old, new, unlock) ==
    /\ wallet.password = old /\ HasRoom
    /\ Run(_updateWallet(Now, [wallet EXCEPT !.password = new]))
    /\ aes' = unlock
    /\ UNCHANGED <<generatingKey, chainVars, passwordKey, creationVars>>

\* After every connection to a node the wallet and the keys are read again; until
\* then RAM holds no key.
loadDbData ==
    /\ HasRoom /\ Fault
    /\ ramKeys' = {}
    /\ queue' = Append(queue, Put("load", {}))
    /\ UNCHANGED <<wallet, disk, intended, unsaved, keysDisk, aborted, unseen, overtaken,
                   lookVars, chainVars, sessionVars, creationVars>>

-----------------------------------------------------------------------------
(* The transactions, in the order they were created.                       *)

NextIs(kinds) == queue # <<>> /\ Head(queue).kind \in kinds

\* The keys of the transaction at the head of the queue.
Due == IF Head(queue).kind = "all" THEN Head(queue).keys
       ELSE {k \in Head(queue).keys : \A j \in Head(queue).keys : k <= j}

Rest == IF Head(queue).keys \subseteq Due THEN Tail(queue)
        ELSE [queue EXCEPT ![1].keys = @ \ Due]

\* A second record for a public key would violate the index by_pubkey.
CommitKeys ==
    /\ NextIs({"each", "all"}) /\ Due \cap keysDisk = {}
    /\ keysDisk' = keysDisk \cup Due /\ queue' = Rest
    /\ aborted' = aborted \ Due /\ unseen' = unseen \ Due
    /\ overtaken' = overtaken \ Due /\ registered' = registered \ Due
    /\ UNCHANGED <<wallet, disk, intended, unsaved, faults, ramKeys, lookVars, chainVars,
                   sessionVars, creating>>

\* A transaction of keys fails.  RAM keeps them.
AbortKeys ==
    /\ NextIs({"each", "all"}) /\ Fault
    /\ aborted' = aborted \cup (Due \ keysDisk) /\ queue' = Rest
    /\ UNCHANGED <<wallet, disk, intended, unsaved, keysDisk, ramKeys, unseen, overtaken,
                   lookVars, chainVars, sessionVars, creationVars>>

\* A write completes; its clone of the wallet replaces the RAM object.
CompleteTransaction ==
    /\ NextIs({"write"})
    /\ wallet' = Head(queue).wallet /\ disk' = Head(queue).wallet
    /\ queue' = Tail(queue)
    /\ UNCHANGED <<intended, unsaved, faults, keyVars, lookVars, chainVars, sessionVars,
                   creationVars>>

\* A write fails: the RAM object stays as the operations have left it.
AbortTransaction ==
    /\ NextIs({"write"}) /\ Fault
    /\ queue' = Tail(queue)
    /\ unsaved' = (WritesQueued(Tail(queue)) = {})
    /\ UNCHANGED <<wallet, disk, intended, keyVars, lookVars, chainVars, sessionVars,
                   creationVars>>

\* The readings of the wallet and of the keys succeed or fail by themselves.
CompleteLoad ==
    /\ NextIs({"load"})
    /\ wallet' \in {wallet, disk} /\ ramKeys' \in {{}, keysDisk}
    /\ queue' = Tail(queue)
    /\ UNCHANGED <<disk, intended, unsaved, faults, keysDisk, aborted, unseen, overtaken,
                   lookVars, chainVars, sessionVars, creationVars>>

-----------------------------------------------------------------------------
(* The chain, the session and the page.                                    *)

\* An answer to a request for the accounts a key controls; the answers come in any
\* order.
LearnReferences(k) ==
    /\ k \in (asked \cap inUse) \ known
    /\ known' = known \cup {k}
    /\ UNCHANGED <<walletVars, keyVars, lookVars, sessionVars, inUse, creationVars>>

\* validatePassword with the wallet's password, or with a cloud account.
Unlock ==
    /\ ~ aes /\ aes' = TRUE
    /\ UNCHANGED <<walletVars, keyVars, lookVars, chainVars, passwordKey,
                   creationVars>>

CloudLogin ==
    /\ ~ passwordKey /\ passwordKey' = TRUE
    /\ UNCHANGED <<walletVars, keyVars, lookVars, chainVars, aes, creationVars>>

onLock ==
    /\ ~ isLocked
    /\ aes' = FALSE /\ passwordKey' = FALSE
    /\ UNCHANGED <<walletVars, keyVars, lookVars, chainVars, creationVars>>

\* The page is closed or reloaded: RAM and the queue are gone, loadDbData reads
\* the wallet and the keys back.
Reload ==
    /\ wallet' = disk /\ intended' = disk /\ queue' = <<>> /\ unsaved' = FALSE
    /\ ramKeys' = keysDisk
    /\ aes' = FALSE /\ passwordKey' = FALSE
    /\ generatingKey' = FALSE /\ lookAhead' = 0
    /\ asked' = {} /\ known' = {}
    /\ creating' = NoCreation /\ registered' = {}
    /\ UNCHANGED <<disk, keysDisk, aborted, unseen, overtaken, faults, inUse>>

Next ==
    \/ checkNextGeneratedKey
    \/ \E via \in {"faucet", "registrar"} : createAccount(via)
    \/ createAccountThrows
    \/ Register \/ AccountCreated \/ CreationRejected
    \/ resetBrainKeySequence \/ setBackupDate
    \/ \E old, new \in Passwords, unlock \in BOOLEAN : changePassword(old, new, unlock)
    \/ loadDbData
    \/ CommitKeys \/ AbortKeys
    \/ CompleteTransaction \/ AbortTransaction
    \/ CompleteLoad
    \/ \E k \in inUse : LearnReferences(k)
    \/ Unlock \/ CloudLogin \/ onLock
    \/ Reload

Spec == Init /\ [][Next]_vars

-----------------------------------------------------------------------------
(* What is promised.                                                       *)

\* RAM and disk end equal, with what the last operation left: whatever copies the
\* completions and loads put back in between, when no write is under way both hold
\* the object of the last operation, unless that operation's own write failed.  An
\* operation that started from such an older copy has undone another one by then, on
\* both sides: the copies agree, but not every operation has its effect.
Converges ==
    WritesQueued(queue) = {} /\ ~ unsaved => wallet = intended /\ disk = intended

\* No derived key that controls an account is lost: a key behind the stored
\* sequence, where the look-ahead will never find it again, is itself stored, also
\* after a crash.  Excepted are keys whose own transaction failed, keys the
\* look-ahead passed over before an answer named them, and keys taken behind a
\* sequence that is on the disk or queued for it (after resetBrainKeySequence, or
\* from an older copy): a crash before they are stored leaves that sequence and no key.
NoKeyLost ==
    \A k \in inUse \ (aborted \cup unseen \cup overtaken) :
        k < disk.brainkey_sequence => k \in keysDisk

\* The three keys of one account differ, although none of the transactions that
\* move the sequence has completed between the calls of createAccount.
AccountKeysDistinct ==
    creating # NoCreation =>
        \A m, n \in 1..3 : m # n => creating.keys[m] # creating.keys[n]

\* The keys of the accounts registered since the page was opened stay recoverable
\* from this browser, also when the creation was given up, the sequence was taken
\* back and the same keys were handed out again, or a load emptied RAM: each is
\* stored, queued to be, or the transaction that should have stored it failed.
RegisteredKeysKept == registered \subseteq KeysQueued(queue) \cup aborted
=============================================================================
