---------------------------- MODULE WalletUnlock ----------------------------
(***************************************************************************)
(* The session: who asks for the wallet to be unlocked and who answers.    *)
(* src/app/actions/WalletUnlockActions.js, stores/WalletUnlockStore.js and *)
(* the dialog components/Wallet/WalletUnlockModal.jsx, with the lock state *)
(* of stores/WalletDb.js.                                                  *)
(*                                                                         *)
(* unlock() returns a promise; the store holds resolve and reject of one   *)
(* promise at a time.  The dialog re-renders after every change of a store *)
(* it listens to, within the same turn of the event loop.                  *)
(***************************************************************************)
CONSTANTS Requests,    \* calls of unlock(); a settled one is used again
          NoRequest    \* the store holds no resolve and no reject

ASSUME RequestsAssumption == NoRequest \notin Requests

VARIABLES unlockedBy,    \* "wallet": aes_private is set, "cloud": _passwordKey is set
          locked,        \* WalletUnlockStore.state.locked
          pending,       \* whose resolve and reject WalletUnlockStore.state holds
          promise,       \* what the callers of unlock() see
          timeout,       \* walletLockTimeout # 0
          timer,         \* the auto-lock timer is running
          modalVisible   \* WalletUnlockModal.state.isModalVisible

sessionVars == <<unlockedBy, locked, pending, promise, timeout, timer, modalVisible>>

Unlocked == unlockedBy # {}

TypeOK ==
    /\ unlockedBy \subseteq {"wallet", "cloud"}
    /\ locked \in BOOLEAN /\ timeout \in BOOLEAN
    /\ timer \in BOOLEAN /\ modalVisible \in BOOLEAN
    /\ pending \in Requests \cup {NoRequest}
    /\ promise \in [Requests -> {"new", "waiting", "resolved", "rejected"}]

Init ==
    /\ unlockedBy = {} /\ locked = TRUE
    /\ pending = NoRequest /\ promise = [r \in Requests |-> "new"]
    /\ timeout \in BOOLEAN /\ timer = FALSE
    /\ modalVisible = FALSE

\* A promise settles once; settling it again does nothing.
Settle(promises, r, outcome) ==
    IF r # NoRequest /\ promises[r] = "waiting"
    THEN [promises EXCEPT ![r] = outcome]
    ELSE promises

\* componentDidUpdate, with the store holding the resolve of r: a locked wallet
\* shows the dialog, an unlocked one answers r but leaves the dialog as it is.
Rendered(r, open, promises) ==
    /\ promise' = IF open THEN Settle(promises, r, "resolved") ELSE promises
    /\ modalVisible' = IF r = NoRequest THEN FALSE
                       ELSE (~ open \/ modalVisible)

-----------------------------------------------------------------------------
\* Unlocked, the caller is answered at once; locked, it takes the store's place.
unlock(r) ==
    /\ promise[r] = "new"
    /\ timer' = timeout
    /\ LET asked == [promise EXCEPT ![r] = "waiting"]
       IN  IF Unlocked
           THEN /\ locked' = FALSE /\ UNCHANGED pending
                /\ Rendered(pending, TRUE, Settle(asked, r, "resolved"))
           ELSE /\ locked' = TRUE /\ pending' = r
                /\ Rendered(r, FALSE, asked)
    /\ UNCHANGED <<unlockedBy, timeout>>

\* Mutant: the dialog cancels before it resolves.
CancelThenResolve(by) ==
    /\ modalVisible /\ unlockedBy \cup by # {}
    /\ unlockedBy' = unlockedBy \cup by
    /\ locked' = FALSE /\ pending' = NoRequest
    /\ promise' = Settle(promise, pending, "rejected")
    /\ modalVisible' = FALSE
    /\ UNCHANGED <<timeout, timer>>

\* The user submits the dialog.  by is what the password opened; a wrong one
\* opens nothing, and then counts only if the wallet is unlocked already.
validate(by) ==
    /\ modalVisible /\ unlockedBy \cup by # {}
    /\ unlockedBy' = unlockedBy \cup by
    /\ locked' = FALSE /\ pending' = NoRequest
    /\ promise' = Settle(promise, pending, "resolved")
    /\ modalVisible' = FALSE
    /\ UNCHANGED <<timeout, timer>>

\* Mutant: a cancelled request is a third outcome.
Cancelled ==
    /\ modalVisible /\ pending' = NoRequest
    /\ promise' = Settle(promise, pending, "cancelled")
    /\ modalVisible' = FALSE
    /\ UNCHANGED <<unlockedBy, locked, timeout, timer>>

\* Mutant: the dialog closes without telling the store.
CloseOnly ==
    /\ modalVisible /\ modalVisible' = FALSE
    /\ UNCHANGED <<unlockedBy, locked, pending, promise, timeout, timer>>

\* The user closes the dialog.
onCancel ==
    /\ modalVisible /\ pending' = NoRequest
    /\ promise' = Settle(promise, pending, "rejected")
    /\ modalVisible' = FALSE
    /\ UNCHANGED <<unlockedBy, locked, timeout, timer>>

\* lock(), from the header or before another wallet is made active.
onLock ==
    /\ Unlocked
    /\ unlockedBy' = {} /\ locked' = TRUE /\ pending' = NoRequest
    /\ modalVisible' = FALSE
    /\ UNCHANGED <<promise, timeout, timer>>

\* Mutant: the timer locks the wallet behind the store's back.
LockBehindStore ==
    /\ timer /\ timer' = FALSE
    /\ unlockedBy' = {} /\ Rendered(pending, FALSE, promise)
    /\ UNCHANGED <<locked, pending, timeout>>

\* The auto-lock timer locks the wallet and keeps what the store holds.
autoLock ==
    /\ timer /\ timer' = FALSE
    /\ unlockedBy' = {}
    /\ locked' = (locked \/ Unlocked)
    /\ IF Unlocked THEN Rendered(pending, FALSE, promise) ELSE UNCHANGED <<promise, modalVisible>>
    /\ UNCHANGED <<pending, timeout>>

\* changeSetting of walletLockTimeout, to zero or another value.
onChangeSetting(on) ==
    /\ timeout' = on /\ timer' = on
    /\ UNCHANGED <<unlockedBy, locked, pending>>
    /\ Rendered(pending, Unlocked, promise)

\* validatePassword(.., true) on the pages that back up the brainkey or change
\* the password: no action tells the store.  The dialog would cover these pages.
validatePassword ==
    /\ ~ modalVisible
    /\ unlockedBy' = unlockedBy \cup {"wallet"}
    /\ UNCHANGED <<locked, pending, promise, timeout, timer, modalVisible>>

\* validatePassword followed by change() or checkLock(): the login pages.
loginPage(by) ==
    /\ unlockedBy' = unlockedBy \cup {by} /\ locked' = FALSE
    /\ Rendered(pending, TRUE, promise)
    /\ UNCHANGED <<pending, timeout, timer>>

\* onCreateWallet: the wallet is stored, unlocked, and unlock() is called.
onCreateWallet ==
    /\ unlockedBy' = unlockedBy \cup {"wallet"} /\ locked' = FALSE
    /\ timer' = timeout
    /\ Rendered(pending, TRUE, promise)
    /\ UNCHANGED <<pending, timeout>>

\* Any other store the dialog listens to has changed.
Rerender ==
    /\ UNCHANGED <<unlockedBy, locked, pending, timeout, timer>>
    /\ Rendered(pending, Unlocked, promise)

\* A caller whose promise has settled may ask again.
AskAgain(r) ==
    /\ promise[r] \in {"resolved", "rejected"}
    /\ promise' = [promise EXCEPT ![r] = "new"]
    /\ UNCHANGED <<unlockedBy, locked, pending, timeout, timer, modalVisible>>

Reload ==
    /\ unlockedBy' = {} /\ locked' = TRUE
    /\ pending' = NoRequest /\ promise' = [r \in Requests |-> "new"]
    /\ timer' = FALSE /\ modalVisible' = FALSE
    /\ UNCHANGED timeout

\* What moves the session without a caller of unlock().
SessionStep ==
    \/ \E by \in {{}, {"wallet"}, {"cloud"}} : validate(by)
    \/ onCancel \/ onLock \/ autoLock
    \/ \E on \in BOOLEAN : onChangeSetting(on)
    \/ validatePassword
    \/ \E by \in {"wallet", "cloud"} : loginPage(by)
    \/ onCreateWallet \/ Rerender

Next ==
    \/ \E r \in Requests : unlock(r) \/ AskAgain(r)
    \/ SessionStep
    \/ Reload

Spec == Init /\ [][Next]_sessionVars

-----------------------------------------------------------------------------
(* What is promised.                                                       *)

\* The store never shows an unlocked wallet that is locked, whichever of the
\* store, the timer, the dialog and the login pages moved last.
ShownUnlockedIsUnlocked == ~ locked => Unlocked

\* WalletUnlockActions.js:4 "If you get resolved then the wallet is or was just
\* unlocked. If you get rejected then the wallet is still locked."
AnswerIsTrue ==
    [][\A r \in Requests :
          /\ promise[r] # "resolved" /\ promise'[r] = "resolved" => unlockedBy' # {}
          /\ promise[r] # "rejected" /\ promise'[r] = "rejected" => unlockedBy' = {}]_sessionVars

\* A caller the store knows to be waiting can be answered: the wallet is locked
\* and the dialog that asks for the password is on the screen.
WaitingIsShown ==
    \A r \in Requests :
        promise[r] = "waiting" /\ pending = r => modalVisible /\ ~ Unlocked
=============================================================================
