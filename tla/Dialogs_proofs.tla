---------------------------- MODULE Dialogs_proofs ----------------------------
(***************************************************************************)
(* Theorems about the two dialogs that stand between an operation and the  *)
(* node.  About WalletUnlock: its types, that the store never shows a      *)
(* locked wallet as unlocked, that the caller it holds can be answered,    *)
(* and that callers are told the truth, for any number of callers.  About  *)
(* TxConfirm: its types, the Confirm button, and that it implements        *)
(* Submission, for any transactions and any number of broadcasts.          *)
(***************************************************************************)
EXTENDS WalletUnlock, TxConfirm, TLAPS

-----------------------------------------------------------------------------
(* WalletUnlock.                                                           *)

Promises == [Requests -> {"new", "waiting", "resolved", "rejected"}]

SessionInv == TypeOK /\ ShownUnlockedIsUnlocked /\ WaitingIsShown

-----------------------------------------------------------------------------
(* Settling and rendering.                                                 *)

\* Settling r keeps the type of the promises and is seen by r only, which no
\* longer waits.
LEMMA SettleType ==
    ASSUME NEW promises \in Promises, NEW r \in Requests \cup {NoRequest},
           NEW outcome \in {"resolved", "rejected"}
    PROVE  /\ Settle(promises, r, outcome) \in Promises
           /\ \A q \in Requests : q # r => Settle(promises, r, outcome)[q] = promises[q]
           /\ r \in Requests => Settle(promises, r, outcome)[r] # "waiting"
           /\ \A q \in Requests : Settle(promises, r, outcome)[q] \in {promises[q], outcome}
BY RequestsAssumption DEF Settle, Promises

\* After a render the caller the store holds has been answered, or the wallet is
\* locked and the dialog open; the render itself rejects nobody.
LEMMA RenderedShown ==
    ASSUME NEW r \in Requests \cup {NoRequest}, NEW open \in BOOLEAN,
           NEW promises \in Promises, modalVisible \in BOOLEAN,
           Rendered(r, open, promises)
    PROVE  /\ promise' \in Promises /\ modalVisible' \in BOOLEAN
           /\ r \in Requests /\ promise'[r] = "waiting" => modalVisible' /\ ~ open
           /\ \A q \in Requests :
                 \/ promise'[q] = promises[q]
                 \/ promise'[q] = "resolved" /\ open
<1>1. CASE open
  <2>1. promise' = Settle(promises, r, "resolved")
    BY <1>1 DEF Rendered
  <2>2. modalVisible' \in BOOLEAN
    BY DEF Rendered
  <2>3. \A q \in Requests : promise'[q] \in {promises[q], "resolved"}
    BY <2>1, SettleType
  <2> QED BY <1>1, <2>1, <2>2, <2>3, SettleType
<1>2. CASE ~ open
  BY <1>2, RequestsAssumption DEF Rendered
<1> QED BY <1>1, <1>2

-----------------------------------------------------------------------------
(* The invariant, and what a step may tell a caller.                       *)

\* What AnswerIsTrue says of one step.
Truthful ==
    \A r \in Requests :
        /\ promise[r] # "resolved" /\ promise'[r] = "resolved" => unlockedBy' # {}
        /\ promise[r] # "rejected" /\ promise'[r] = "rejected" => unlockedBy' = {}

\* A freshly loaded page satisfies the invariant.
LEMMA SessionInvInit == Init => SessionInv
BY RequestsAssumption DEF Init, SessionInv, TypeOK, ShownUnlockedIsUnlocked, WaitingIsShown

\* A step that renders with the promises as they were: the store's caller is
\* answered or shown, and nobody is rejected.
LEMMA RenderStep ==
    ASSUME SessionInv, NEW open \in BOOLEAN, Rendered(pending, open, promise),
           pending' = pending, open <=> unlockedBy' # {}
    PROVE  /\ promise' \in Promises /\ modalVisible' \in BOOLEAN
           /\ WaitingIsShown' /\ Truthful
<1>1. promise \in Promises /\ pending \in Requests \cup {NoRequest} /\ modalVisible \in BOOLEAN
  BY DEF SessionInv, TypeOK, Promises
<1>2. /\ promise' \in Promises /\ modalVisible' \in BOOLEAN
      /\ pending \in Requests /\ promise'[pending] = "waiting" => modalVisible' /\ ~ open
      /\ \A q \in Requests :
            \/ promise'[q] = promise[q]
            \/ promise'[q] = "resolved" /\ open
  BY <1>1, RenderedShown
<1>3. WaitingIsShown'
  BY <1>2 DEF WaitingIsShown, Unlocked
<1>4. Truthful
  BY <1>2 DEF Truthful
<1> QED BY <1>2, <1>3, <1>4

\* Every step of a caller, the dialog, the timer and the pages keeps the
\* invariant and tells the truth.
LEMMA SessionStepInv ==
    SessionInv /\ [Next]_sessionVars => SessionInv' /\ Truthful
<1> SUFFICES ASSUME SessionInv, [Next]_sessionVars PROVE SessionInv' /\ Truthful
  OBVIOUS
<1> USE RequestsAssumption
<1>0. promise \in Promises /\ pending \in Requests \cup {NoRequest} /\ modalVisible \in BOOLEAN
  BY DEF SessionInv, TypeOK, Promises
<1>1. ASSUME NEW r \in Requests, unlock(r)
      PROVE  SessionInv' /\ Truthful
  <2> DEFINE asked == [promise EXCEPT ![r] = "waiting"]
  <2>1. asked \in Promises
    BY <1>0 DEF Promises
  <2>2. CASE Unlocked
    <3> DEFINE settled == Settle(asked, r, "resolved")
    <3>1. /\ settled \in Promises
          /\ \A q \in Requests : q # r => settled[q] = promise[q]
          /\ settled[r] \in {"waiting", "resolved"}
      <4>1. asked[r] = "waiting" /\ \A q \in Requests : q # r => asked[q] = promise[q]
        BY <1>0 DEF Promises
      <4> HIDE DEF asked
      <4> QED BY <2>1, <4>1 DEF Settle, Promises
    <3>2. Rendered(pending, TRUE, settled) /\ UNCHANGED <<unlockedBy, pending, timeout>>
          /\ locked' = FALSE /\ timer' = timeout
      BY <1>1, <2>2 DEF unlock
    <3> HIDE DEF settled
    <3>3. /\ promise' \in Promises /\ modalVisible' \in BOOLEAN
          /\ ~ (pending \in Requests /\ promise'[pending] = "waiting")
          /\ \A q \in Requests : promise'[q] \in {settled[q], "resolved"}
      BY <1>0, <3>1, <3>2, RenderedShown
    <3>4. TypeOK' /\ ShownUnlockedIsUnlocked' /\ WaitingIsShown'
      BY <2>2, <3>2, <3>3
         DEF SessionInv, TypeOK, Promises, ShownUnlockedIsUnlocked, WaitingIsShown, Unlocked
    <3>5. Truthful
      BY <2>2, <3>1, <3>2, <3>3 DEF Truthful, Unlocked
    <3> QED BY <3>4, <3>5 DEF SessionInv
  <2>3. CASE ~ Unlocked
    <3>1. /\ promise' = asked /\ modalVisible' = TRUE /\ pending' = r /\ locked' = TRUE
          /\ timer' = timeout /\ UNCHANGED <<unlockedBy, timeout>>
      BY <1>1, <2>3 DEF unlock, Rendered
    <3>2. TypeOK' /\ ShownUnlockedIsUnlocked' /\ WaitingIsShown'
      BY <2>1, <2>3, <3>1
         DEF SessionInv, TypeOK, Promises, ShownUnlockedIsUnlocked, WaitingIsShown, Unlocked
    <3>3. Truthful
      BY <1>0, <3>1 DEF Truthful, Promises
    <3> QED BY <3>2, <3>3 DEF SessionInv
  <2> QED BY <2>2, <2>3
<1>2. ASSUME NEW by \in {{}, {"wallet"}, {"cloud"}}, validate(by)
      PROVE  SessionInv' /\ Truthful
  <2> USE <1>2 DEF validate
  <2>1. promise' = Settle(promise, pending, "resolved")
    OBVIOUS
  <2>2. promise' \in Promises /\ \A q \in Requests : promise'[q] \in {promise[q], "resolved"}
    BY <1>0, <2>1 DEF Settle, Promises
  <2>3. TypeOK' /\ ShownUnlockedIsUnlocked' /\ WaitingIsShown'
    BY <2>2 DEF SessionInv, TypeOK, Promises, ShownUnlockedIsUnlocked, WaitingIsShown, Unlocked
  <2>4. Truthful
    BY <2>2 DEF Truthful
  <2> QED BY <2>3, <2>4 DEF SessionInv
<1>3. CASE onCancel
  <2> USE <1>3 DEF onCancel
  <2>1. promise' = Settle(promise, pending, "rejected")
    OBVIOUS
  <2>2. /\ promise' \in Promises
        /\ \A q \in Requests : q # pending => promise'[q] = promise[q]
    BY <1>0, <2>1 DEF Settle, Promises
  <2>3. pending \in Requests /\ promise[pending] = "waiting" => ~ Unlocked
    BY DEF SessionInv, WaitingIsShown
  <2>4. TypeOK' /\ ShownUnlockedIsUnlocked' /\ WaitingIsShown'
    BY <2>2 DEF SessionInv, TypeOK, Promises, ShownUnlockedIsUnlocked, WaitingIsShown, Unlocked
  <2>5. \A q \in Requests : \/ promise'[q] = promise[q]
                            \/ promise'[q] = "rejected" /\ ~ Unlocked
    BY <1>0, <2>1, <2>3 DEF Settle, Promises
  <2>6. Truthful
    BY <2>5 DEF Truthful, Unlocked
  <2> QED BY <2>4, <2>6 DEF SessionInv
<1>4. CASE onLock
  BY <1>4 DEF onLock, SessionInv, TypeOK, ShownUnlockedIsUnlocked, WaitingIsShown, Unlocked,
              Truthful
<1>5. CASE autoLock
  <2> USE <1>5 DEF autoLock
  <2>1. CASE Unlocked
    <3>1. Rendered(pending, FALSE, promise) /\ unlockedBy' = {} /\ locked' = TRUE
      BY <2>1 DEF SessionInv, TypeOK
    <3>2. promise' \in Promises /\ modalVisible' \in BOOLEAN /\ WaitingIsShown' /\ Truthful
      BY <3>1, RenderStep
    <3> QED BY <3>1, <3>2 DEF SessionInv, TypeOK, Promises, ShownUnlockedIsUnlocked
  <2>2. CASE ~ Unlocked
    BY <2>2 DEF SessionInv, TypeOK, ShownUnlockedIsUnlocked, WaitingIsShown, Unlocked, Truthful
  <2> QED BY <2>1, <2>2
<1>6. ASSUME NEW on \in BOOLEAN, onChangeSetting(on)
      PROVE  SessionInv' /\ Truthful
  <2>1. promise' \in Promises /\ modalVisible' \in BOOLEAN /\ WaitingIsShown' /\ Truthful
    BY <1>6, RenderStep DEF onChangeSetting, Unlocked
  <2> QED BY <1>6, <2>1
          DEF onChangeSetting, SessionInv, TypeOK, Promises, ShownUnlockedIsUnlocked, Unlocked
<1>7. CASE validatePassword
  BY <1>7 DEF validatePassword, SessionInv, TypeOK, ShownUnlockedIsUnlocked, WaitingIsShown,
              Unlocked, Truthful
<1>8. ASSUME NEW by \in {"wallet", "cloud"}, loginPage(by)
      PROVE  SessionInv' /\ Truthful
  <2>1. promise' \in Promises /\ modalVisible' \in BOOLEAN /\ WaitingIsShown' /\ Truthful
    BY <1>8, RenderStep DEF loginPage
  <2> QED BY <1>8, <2>1
          DEF loginPage, SessionInv, TypeOK, Promises, ShownUnlockedIsUnlocked, Unlocked
<1>9. CASE onCreateWallet
  <2>1. promise' \in Promises /\ modalVisible' \in BOOLEAN /\ WaitingIsShown' /\ Truthful
    BY <1>9, RenderStep DEF onCreateWallet
  <2> QED BY <1>9, <2>1
          DEF onCreateWallet, SessionInv, TypeOK, Promises, ShownUnlockedIsUnlocked, Unlocked
<1>10. CASE Rerender
  <2>1. promise' \in Promises /\ modalVisible' \in BOOLEAN /\ WaitingIsShown' /\ Truthful
    BY <1>10, RenderStep DEF Rerender, Unlocked
  <2> QED BY <1>10, <2>1
          DEF Rerender, SessionInv, TypeOK, Promises, ShownUnlockedIsUnlocked, Unlocked
<1>11. ASSUME NEW r \in Requests, AskAgain(r)
       PROVE  SessionInv' /\ Truthful
  BY <1>11 DEF AskAgain, SessionInv, TypeOK, ShownUnlockedIsUnlocked, WaitingIsShown, Unlocked,
               Truthful
<1>12. CASE Reload
  BY <1>12 DEF Reload, SessionInv, TypeOK, ShownUnlockedIsUnlocked, WaitingIsShown, Unlocked,
               Truthful
<1>13. CASE UNCHANGED sessionVars
  BY <1>13 DEF sessionVars, SessionInv, TypeOK, ShownUnlockedIsUnlocked, WaitingIsShown,
               Unlocked, Truthful
<1> QED
  BY <1>1, <1>2, <1>3, <1>4, <1>5, <1>6, <1>7, <1>8, <1>9, <1>10, <1>11, <1>12, <1>13
     DEF Next, SessionStep

\* The invariant holds in every state of the session.
LEMMA SessionInvariant == Spec => []SessionInv
BY SessionInvInit, SessionStepInv, PTL DEF Spec

\* The session keeps its types, for any set of callers.
THEOREM SessionTypes == Spec => []TypeOK
<1>1. SessionInv => TypeOK
  BY DEF SessionInv
<1> QED BY <1>1, SessionInvariant, PTL

\* The store never shows an unlocked wallet that is locked.
THEOREM ShownUnlocked == Spec => []ShownUnlockedIsUnlocked
<1>1. SessionInv => ShownUnlockedIsUnlocked
  BY DEF SessionInv
<1> QED BY <1>1, SessionInvariant, PTL

\* A caller whose resolve the store holds waits in front of an open dialog.
THEOREM WaitingShown == Spec => []WaitingIsShown
<1>1. SessionInv => WaitingIsShown
  BY DEF SessionInv
<1> QED BY <1>1, SessionInvariant, PTL

\* A resolved caller finds an unlocked wallet, a rejected one a locked wallet.
THEOREM AnswersAreTrue == Spec => AnswerIsTrue
<1>1. Truthful =>
        \A r \in Requests :
          /\ promise[r] # "resolved" /\ promise'[r] = "resolved" => unlockedBy' # {}
          /\ promise[r] # "rejected" /\ promise'[r] = "rejected" => unlockedBy' = {}
  BY DEF Truthful
<1> QED
  BY <1>1, SessionInvInit, SessionStepInv, PTL DEF Spec, AnswerIsTrue

-----------------------------------------------------------------------------
(* TxConfirm.                                                              *)

\* The answers of the node say nothing of who asked: what ties them to a caller
\* is that a call carries a transaction from the click on, ...
CallsCarryTx == \A c \in Calls : call[c].stage = "free" <=> call[c].tx = NoTx

\* ... that a broadcastTimer belongs to such a call, and that everything the dialog shows
\* or a call carries was asked for.
TimersOfCalls == \A c \in broadcastTimer : call[c].stage # "free"
ShownWasAsked == dialog.transaction # NoTx => confirm[dialog.transaction] # "none"
SentWasAsked == \A c \in Calls : call[c].tx # NoTx => confirm[call[c].tx] # "none"

ConfirmInv ==
    /\ ConfirmTypeOK /\ CallsCarryTx /\ TimersOfCalls
    /\ ShownWasAsked /\ SentWasAsked /\ ButtonMeansUnsent

\* Nothing is shown or sent at the start.
LEMMA ConfirmInvInit == ConfirmInit => ConfirmInv
BY TxAssumption DEF ConfirmInit, getInitialState, ConfirmInv, ConfirmTypeOK, Stage, CallsCarryTx,
   TimersOfCalls, ShownWasAsked, SentWasAsked, ButtonMeansUnsent, Visible

\* Settling a promise keeps its type, makes no promise unasked, and is seen by
\* its own caller only.
LEMMA SettledType ==
    ASSUME ConfirmTypeOK, NEW t, NEW outcome \in {"resolved", "rejected"},
           confirm' = Settled(t, outcome)
    PROVE  /\ confirm' \in [Txs -> {"none", "waiting", "resolved", "rejected"}]
           /\ \A u \in Txs : confirm[u] # "none" <=> confirm'[u] # "none"
           /\ \A u \in Txs : u # t => confirm'[u] = confirm[u]
BY DEF Settled, ConfirmTypeOK

\* Each step of the dialog, the node and the timers keeps the invariant.
LEMMA ConfirmInvStep == ConfirmInv /\ [ConfirmNext]_confirmVars => ConfirmInv'
<1> SUFFICES ASSUME ConfirmInv, [ConfirmNext]_confirmVars PROVE ConfirmInv'
  OBVIOUS
<1> USE TxAssumption DEF ConfirmInv
<1>1. ASSUME NEW t \in Txs, onConfirm(t)
      PROVE  ConfirmInv'
  <2> USE <1>1 DEF onConfirm
  <2>1. ConfirmTypeOK'
    BY DEF ConfirmTypeOK, getInitialState
  <2>2. CallsCarryTx' /\ TimersOfCalls'
    BY DEF CallsCarryTx, TimersOfCalls
  <2>3. ShownWasAsked' /\ SentWasAsked'
    BY DEF ShownWasAsked, SentWasAsked, ConfirmTypeOK, getInitialState
  <2>4. ButtonMeansUnsent'
    BY DEF ButtonMeansUnsent, SentWasAsked, ConfirmTypeOK, getInitialState
  <2> QED BY <2>1, <2>2, <2>3, <2>4
<1>2. ASSUME NEW c \in Calls, onConfirmClick(c)
      PROVE  ConfirmInv'
  <2> USE <1>2 DEF onConfirmClick, Visible
  <2>1. ConfirmTypeOK'
    BY DEF ConfirmTypeOK, Stage
  <2>2. CallsCarryTx' /\ TimersOfCalls'
    BY DEF CallsCarryTx, TimersOfCalls, ConfirmTypeOK
  <2>3. ShownWasAsked' /\ SentWasAsked'
    BY DEF ShownWasAsked, SentWasAsked, ConfirmTypeOK
  <2>4. ButtonMeansUnsent'
    BY DEF ButtonMeansUnsent, ConfirmTypeOK
  <2> QED BY <2>1, <2>2, <2>3, <2>4
<1>3. ASSUME NEW c \in Calls, onWasBroadcast(c)
      PROVE  ConfirmInv'
  <2> USE <1>3 DEF onWasBroadcast
  <2>1. ConfirmTypeOK'
    BY DEF ConfirmTypeOK, Stage
  <2>2. CallsCarryTx' /\ TimersOfCalls'
    BY DEF CallsCarryTx, TimersOfCalls, ConfirmTypeOK, Stage
  <2>3. ShownWasAsked' /\ SentWasAsked'
    BY DEF ShownWasAsked, SentWasAsked, ConfirmTypeOK
  <2>4. ButtonMeansUnsent'
    BY DEF ButtonMeansUnsent, Visible, ConfirmTypeOK
  <2> QED BY <2>1, <2>2, <2>3, <2>4
<1>4. ASSUME NEW c \in Calls, IncludeInBlock(c)
      PROVE  ConfirmInv'
  BY <1>4 DEF IncludeInBlock, ConfirmTypeOK, CallsCarryTx, TimersOfCalls, ShownWasAsked,
              SentWasAsked, ButtonMeansUnsent, Visible
<1>5. ASSUME NEW c \in Calls, onIncluded(c)
      PROVE  ConfirmInv'
  <2> USE <1>5 DEF onIncluded
  <2>1. confirm' = Settled(call[c].tx, "resolved")
    OBVIOUS
  <2>2. ConfirmTypeOK'
    BY <2>1, SettledType DEF ConfirmTypeOK, Stage
  <2>3. CallsCarryTx' /\ TimersOfCalls'
    BY DEF CallsCarryTx, TimersOfCalls, ConfirmTypeOK, Stage
  <2>4. ShownWasAsked' /\ SentWasAsked'
    BY <2>1, SettledType DEF ShownWasAsked, SentWasAsked, ConfirmTypeOK
  <2>5. ButtonMeansUnsent'
    BY DEF ButtonMeansUnsent, Visible, ConfirmTypeOK
  <2> QED BY <2>2, <2>3, <2>4, <2>5
<1>6. ASSUME NEW c \in Calls, onError(c)
      PROVE  ConfirmInv'
  <2> USE <1>6 DEF onError
  <2>1. confirm' = Settled(call[c].tx, "rejected")
    OBVIOUS
  <2>2. ConfirmTypeOK'
    BY <2>1, SettledType DEF ConfirmTypeOK, Stage
  <2>3. CallsCarryTx' /\ TimersOfCalls'
    BY DEF CallsCarryTx, TimersOfCalls, ConfirmTypeOK, Stage
  <2>4. ShownWasAsked' /\ SentWasAsked'
    BY <2>1, SettledType DEF ShownWasAsked, SentWasAsked, ConfirmTypeOK
  <2>5. ButtonMeansUnsent'
    BY DEF ButtonMeansUnsent, Visible, ConfirmTypeOK
  <2> QED BY <2>2, <2>3, <2>4, <2>5
<1>7. ASSUME NEW c \in Calls, broadcast_timeout(c)
      PROVE  ConfirmInv'
  <2> USE <1>7 DEF broadcast_timeout
  <2>1. confirm' = Settled(call[c].tx, "rejected")
    OBVIOUS
  <2>2. ConfirmTypeOK'
    BY <2>1, SettledType DEF ConfirmTypeOK, Stage
  <2>3. CallsCarryTx' /\ TimersOfCalls'
    BY DEF CallsCarryTx, TimersOfCalls, ConfirmTypeOK
  <2>4. ShownWasAsked' /\ SentWasAsked'
    BY <2>1, SettledType DEF ShownWasAsked, SentWasAsked, ConfirmTypeOK
  <2>5. ButtonMeansUnsent'
    BY DEF ButtonMeansUnsent, Visible, ConfirmTypeOK
  <2> QED BY <2>2, <2>3, <2>4, <2>5
<1>8. CASE onClose
  <2> USE <1>8 DEF onClose, Visible
  <2>1. confirm' = Settled(dialog.transaction, "rejected")
    OBVIOUS
  <2>2. ConfirmTypeOK'
    BY <2>1, SettledType DEF ConfirmTypeOK
  <2>3. CallsCarryTx' /\ TimersOfCalls'
    BY DEF CallsCarryTx, TimersOfCalls
  <2>4. ShownWasAsked' /\ SentWasAsked'
    BY <2>1, SettledType DEF ShownWasAsked, SentWasAsked, ConfirmTypeOK
  <2>5. ButtonMeansUnsent'
    BY DEF ButtonMeansUnsent, ConfirmTypeOK
  <2> QED BY <2>2, <2>3, <2>4, <2>5
<1>9. CASE onTogglePropose
  BY <1>9 DEF onTogglePropose, ConfirmTypeOK, CallsCarryTx, TimersOfCalls, ShownWasAsked,
              SentWasAsked, ButtonMeansUnsent, Visible
<1>10. CASE UNCHANGED confirmVars
  BY <1>10 DEF confirmVars, ConfirmTypeOK, CallsCarryTx, TimersOfCalls, ShownWasAsked,
               SentWasAsked, ButtonMeansUnsent, Visible
<1> QED
  BY <1>1, <1>2, <1>3, <1>4, <1>5, <1>6, <1>7, <1>8, <1>9, <1>10 DEF ConfirmNext, Step

\* The invariant holds in every state of the program.
LEMMA ConfirmInvariant == ConfirmSpec => []ConfirmInv
BY ConfirmInvInit, ConfirmInvStep, PTL DEF ConfirmSpec

\* The dialog, the promises and the broadcasts keep their types.
THEOREM ConfirmTypes == ConfirmSpec => []ConfirmTypeOK
<1>1. ConfirmInv => ConfirmTypeOK
  BY DEF ConfirmInv
<1> QED BY <1>1, ConfirmInvariant, PTL

\* While the Confirm button is offered, its transaction was never sent and its
\* caller still waits, whatever the answers to other transactions did to the
\* dialog.
THEOREM ButtonOnce == ConfirmSpec => []ButtonMeansUnsent
<1>1. ConfirmInv => ButtonMeansUnsent
  BY DEF ConfirmInv
<1> QED BY <1>1, ConfirmInvariant, PTL

-----------------------------------------------------------------------------
(* TxConfirm implements Submission.                                        *)

Sent == {call[c].tx : c \in Calls} \ {NoTx}

\* An answer to a call that carries a transaction is Submission's Answer, or a
\* stutter when the caller has been answered before.
LEMMA SettledAnswers ==
    ASSUME ConfirmInv, NEW t \in Txs, NEW outcome \in {"resolved", "rejected"},
           confirm' = Settled(t, outcome), outcome = "resolved" => t \in chain,
           Sent' = Sent, chain' = chain
    PROVE  [S!SubmissionNext]_S!submissionVars
<1>1. CASE confirm[t] = "waiting"
  <2>1. S!Answer(t)
    BY <1>1 DEF S!Answer, Settled, Sent
  <2> QED BY <2>1 DEF S!SubmissionNext
<1>2. CASE confirm[t] # "waiting"
  <2>1. UNCHANGED S!submissionVars
    BY <1>2 DEF S!submissionVars, Settled, Sent
  <2> QED BY <2>1
<1> QED BY <1>1, <1>2

\* A broadcast that has started carries a transaction.
LEMMA CallHasTx ==
    ASSUME ConfirmInv, NEW c \in Calls, call[c].stage # "free"
    PROVE  call[c].tx \in Txs /\ call[c].tx \in Sent
BY DEF ConfirmInv, ConfirmTypeOK, CallsCarryTx, Sent

\* A call that only moves to another stage leaves what was sent.
LEMMA StageSent ==
    ASSUME ConfirmInv, NEW c \in Calls, NEW stage \in Stage,
           call' = [call EXCEPT ![c].stage = stage]
    PROVE  Sent' = Sent
<1>1. \A d \in Calls : call'[d].tx = call[d].tx
  BY DEF ConfirmInv, ConfirmTypeOK
<1> QED BY <1>1 DEF Sent

\* A click sends the transaction of the dialog, and that one only.
LEMMA ClickSent ==
    ASSUME ConfirmInv, NEW c \in Calls, onConfirmClick(c)
    PROVE  dialog.transaction \in Txs /\ Sent' = Sent \cup {dialog.transaction}
<1> USE TxAssumption DEF ConfirmInv, ConfirmTypeOK, onConfirmClick, Visible
<1>1. dialog.transaction \in Txs
  OBVIOUS
<1>2. /\ \A d \in Calls : d # c => call'[d].tx = call[d].tx
      /\ call'[c].tx = dialog.transaction
      /\ call[c].tx = NoTx
  BY DEF CallsCarryTx
<1> QED BY <1>1, <1>2 DEF Sent

\* Every step of the dialog, the node and the timers is a step of Submission or
\* leaves what Submission sees.
LEMMA SubmissionStep ==
    ConfirmInv /\ [ConfirmNext]_confirmVars => [S!SubmissionNext]_S!submissionVars
<1> SUFFICES ASSUME ConfirmInv, [ConfirmNext]_confirmVars
             PROVE  [S!SubmissionNext]_S!submissionVars
  OBVIOUS
<1>1. ASSUME NEW t \in Txs, onConfirm(t)
      PROVE  [S!SubmissionNext]_S!submissionVars
  <2>1. S!Ask(t)
    BY <1>1 DEF onConfirm, S!Ask
  <2> QED BY <2>1 DEF S!SubmissionNext
<1>2. ASSUME NEW c \in Calls, onConfirmClick(c)
      PROVE  [S!SubmissionNext]_S!submissionVars
  <2>1. PICK t \in Txs : t = dialog.transaction /\ Sent' = Sent \cup {t}
    BY <1>2, ClickSent
  <2>2. confirm[t] # "none"
    BY <2>1, TxAssumption DEF ConfirmInv, ShownWasAsked
  <2>3. S!Send(t)
    BY <1>2, <2>1, <2>2 DEF onConfirmClick, S!Send, Sent
  <2> QED BY <2>1, <2>3 DEF S!SubmissionNext
<1>3. ASSUME NEW c \in Calls, onWasBroadcast(c)
      PROVE  UNCHANGED S!submissionVars
  <2>1. Sent' = Sent
    BY <1>3, StageSent DEF onWasBroadcast, Stage
  <2> QED BY <1>3, <2>1 DEF onWasBroadcast, S!submissionVars, Sent
<1>4. ASSUME NEW c \in Calls, IncludeInBlock(c)
      PROVE  [S!SubmissionNext]_S!submissionVars
  <2>1. S!EnterBlock(call[c].tx) /\ call[c].tx \in Txs
    BY <1>4, CallHasTx DEF IncludeInBlock, S!EnterBlock, Sent
  <2> QED BY <2>1 DEF S!SubmissionNext
<1>5. ASSUME NEW c \in Calls, onIncluded(c)
      PROVE  [S!SubmissionNext]_S!submissionVars
  <2>1. Sent' = Sent /\ call[c].tx \in Txs
    BY <1>5, StageSent, CallHasTx DEF onIncluded, Stage
  <2> QED BY <1>5, <2>1, SettledAnswers DEF onIncluded
<1>6. ASSUME NEW c \in Calls, onError(c)
      PROVE  [S!SubmissionNext]_S!submissionVars
  <2>1. Sent' = Sent /\ call[c].tx \in Txs
    BY <1>6, StageSent, CallHasTx DEF onError, Stage
  <2> QED BY <1>6, <2>1, SettledAnswers DEF onError
<1>7. ASSUME NEW c \in Calls, broadcast_timeout(c)
      PROVE  [S!SubmissionNext]_S!submissionVars
  <2>1. call[c].tx \in Txs
    BY <1>7, CallHasTx DEF broadcast_timeout, ConfirmInv, TimersOfCalls
  <2>2. Sent' = Sent
    BY <1>7 DEF broadcast_timeout, Sent
  <2> QED BY <1>7, <2>1, <2>2, SettledAnswers DEF broadcast_timeout
<1>8. CASE onClose
  <2>1. dialog.transaction \in Txs
    BY <1>8 DEF onClose, Visible, ConfirmInv, ConfirmTypeOK
  <2>2. Sent' = Sent
    BY <1>8 DEF onClose, Sent
  <2> QED BY <1>8, <2>1, <2>2, SettledAnswers DEF onClose
<1>9. ASSUME onTogglePropose \/ UNCHANGED confirmVars
      PROVE  UNCHANGED S!submissionVars
  BY <1>9 DEF onTogglePropose, confirmVars, S!submissionVars
<1> QED
  BY <1>1, <1>2, <1>3, <1>4, <1>5, <1>6, <1>7, <1>8, <1>9
     DEF ConfirmNext, Step

\* The dialog, with its one state for any number of broadcasts, keeps
\* process_transaction's promise: each caller is answered about its own
\* transaction, and told that it is in a block only when it is.
THEOREM ConfirmImplementsSubmission == ConfirmSpec => ImplementsSubmission
<1>1. ConfirmInit => S!SubmissionInit
  BY DEF ConfirmInit, S!SubmissionInit
<1> QED
  BY <1>1, ConfirmInvariant, SubmissionStep, PTL
     DEF ConfirmSpec, ImplementsSubmission, S!SubmissionSpec
=============================================================================
