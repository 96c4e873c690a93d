---------------------------- MODULE Signing_proofs ----------------------------
(***************************************************************************)
(* Theorems about Signing: what was proved of the session and of the       *)
(* dialog holds when they are composed, only what was let through is sent, *)
(* and the whole pipeline implements Submission.                           *)
(***************************************************************************)
EXTENDS Signing, TLAPS

\* The theorems of the two parts, with the variables of the composition.
Parts == INSTANCE Dialogs_proofs WITH NoRequest <- NoTx, promise <- asked

-----------------------------------------------------------------------------
(* The inductive invariant.                                                *)

\* Nobody waits for fees, signatures or the user whose unlock() was not resolved, and
\* from then on a balance claim has its keys.
LetThrough ==
    \A t \in Txs : job[t] \in {"fees", "signatures", "confirming"} =>
        /\ asked[t] = "resolved"
        /\ t \in Claims => signer[t] # {}

\* The dialog was asked about what process_transaction handed to it, and nothing else.
ConfirmingIsShown == \A t \in Txs : confirm[t] # "none" <=> job[t] = "confirming"

JobsType == job \in [Txs -> Stage] /\ signer \in [Txs -> SUBSET Keys]

SigningInv ==
    /\ Parts!SessionInv /\ Parts!ConfirmInv /\ JobsType
    /\ LetThrough /\ ConfirmingIsShown

-----------------------------------------------------------------------------
(* The steps of the parts.                                                 *)

\* What moves the session here are steps of WalletUnlock.
LEMMA SessionSteps ==
    /\ session!SessionStep => Parts!Next
    /\ \A r \in Requests : session!unlock(r) => Parts!Next
<1>1. ASSUME session!SessionStep PROVE Parts!SessionStep
  BY <1>1 DEF session!SessionStep, session!validate, session!onCancel, session!onLock,
              session!autoLock, session!onChangeSetting, session!validatePassword,
              session!loginPage, session!onCreateWallet, session!Rerender,
              session!Rendered, session!Settle, session!Unlocked,
              Parts!SessionStep, Parts!validate, Parts!onCancel,
              Parts!onLock, Parts!autoLock, Parts!onChangeSetting,
              Parts!validatePassword, Parts!loginPage,
              Parts!onCreateWallet, Parts!Rerender,
              Parts!Rendered, Parts!Settle, Parts!Unlocked
<1>2. ASSUME NEW r \in Requests, session!unlock(r) PROVE Parts!unlock(r)
  BY <1>2 DEF session!unlock, session!Rendered, session!Settle, session!Unlocked,
              Parts!unlock, Parts!Rendered, Parts!Settle,
              Parts!Unlocked
<1> QED BY <1>1, <1>2 DEF Parts!Next

\* What moves the dialog here are steps of TxConfirm.
LEMMA ConfirmSteps ==
    /\ ConfirmStep => Parts!ConfirmNext
    /\ \A t \in Txs : confirming!onConfirm(t) => Parts!ConfirmNext
<1>1. ASSUME NEW c \in Calls, confirming!Step(c) PROVE Parts!Step(c)
  BY <1>1 DEF confirming!Step, confirming!onConfirmClick, confirming!onWasBroadcast,
              confirming!IncludeInBlock, confirming!onIncluded, confirming!onError,
              confirming!broadcast_timeout, confirming!Visible, confirming!Settled,
              Parts!Step, Parts!onConfirmClick, Parts!onWasBroadcast,
              Parts!IncludeInBlock, Parts!onIncluded, Parts!onError,
              Parts!broadcast_timeout, Parts!Visible, Parts!Settled
<1>2. confirming!onClose => Parts!onClose
  BY DEF confirming!onClose, confirming!Visible, confirming!Settled,
         Parts!onClose, Parts!Visible, Parts!Settled
<1>3. confirming!onTogglePropose => Parts!onTogglePropose
  BY DEF confirming!onTogglePropose, confirming!Visible,
         Parts!onTogglePropose, Parts!Visible
<1>4. ASSUME NEW t \in Txs, confirming!onConfirm(t) PROVE Parts!onConfirm(t)
  BY <1>4 DEF confirming!onConfirm, confirming!getInitialState,
              Parts!onConfirm, Parts!getInitialState
<1> QED BY <1>1, <1>2, <1>3, <1>4 DEF ConfirmStep, Parts!ConfirmNext

\* The session and the dialog keep their invariants whatever the composition does.
LEMMA SessionKept ==
    ASSUME SigningInv,
           session!SessionStep \/ (\E r \in Requests : session!unlock(r)) \/ UNCHANGED sessionVars
    PROVE  Parts!SessionInv'
<1>1. Parts!SessionInv /\ NoTx \notin Requests /\ NoTx \notin Txs
  BY SigningAssumption DEF SigningInv, Requests
<1>2. CASE UNCHANGED sessionVars
  <2>1. [Parts!Next]_(Parts!sessionVars)
    BY <1>2 DEF sessionVars, Parts!sessionVars
  <2> QED BY <1>1, <2>1, Parts!SessionStepInv
<1>3. CASE session!SessionStep \/ \E r \in Requests : session!unlock(r)
  <2>1. Parts!Next
    BY <1>3, SessionSteps
  <2>2. [Parts!Next]_(Parts!sessionVars)
    BY <2>1
  <2> QED BY <1>1, <2>2, Parts!SessionStepInv
<1> QED BY <1>2, <1>3

\* The dialog's invariant holds after a step of the dialog or of others.
LEMMA ConfirmKept ==
    ASSUME SigningInv,
           ConfirmStep \/ (\E t \in Txs : confirming!onConfirm(t)) \/ UNCHANGED confirmVars
    PROVE  Parts!ConfirmInv'
<1>1. Parts!ConfirmInv /\ NoTx \notin Requests /\ NoTx \notin Txs
  BY SigningAssumption DEF SigningInv, Requests
<1>2. CASE UNCHANGED confirmVars
  <2>1. [Parts!ConfirmNext]_(Parts!confirmVars)
    BY <1>2 DEF confirmVars, Parts!confirmVars
  <2> QED BY <1>1, <2>1, Parts!ConfirmInvStep
<1>3. CASE ConfirmStep \/ \E t \in Txs : confirming!onConfirm(t)
  <2>1. Parts!ConfirmNext
    BY <1>3, ConfirmSteps
  <2>2. [Parts!ConfirmNext]_(Parts!confirmVars)
    BY <2>1
  <2> QED BY <1>1, <2>2, Parts!ConfirmInvStep
<1> QED BY <1>2, <1>3

\* An answer of the session is final: here nobody asks again for the same.
LEMMA AnswerIsFinal ==
    ASSUME SigningInv,
           session!SessionStep \/ (\E r \in Requests : session!unlock(r)) \/ UNCHANGED sessionVars
    PROVE  \A q \in Requests : asked[q] = "resolved" => asked'[q] = "resolved"
<1> DEFINE Promises == [Requests -> {"new", "waiting", "resolved", "rejected"}]
<1>0. asked \in Promises
  BY DEF SigningInv, Parts!SessionInv, Parts!TypeOK
<1>1. ASSUME NEW promises \in Promises, NEW r, NEW answer \in {"resolved", "rejected"}
      PROVE  /\ session!Settle(promises, r, answer) \in Promises
             /\ \A q \in Requests : promises[q] = "resolved"
                    => session!Settle(promises, r, answer)[q] = "resolved"
  BY <1>1 DEF session!Settle
<1>2. ASSUME NEW promises \in Promises, NEW r, NEW open \in BOOLEAN,
             session!Rendered(r, open, promises)
      PROVE  \A q \in Requests : promises[q] = "resolved" => asked'[q] = "resolved"
  <2>1. asked' \in {session!Settle(promises, r, "resolved"), promises}
    BY <1>2 DEF session!Rendered
  <2> HIDE DEF Promises
  <2> QED BY <1>1, <1>2, <2>1
<1>3. ASSUME NEW r \in Requests, session!unlock(r)
      PROVE  \A q \in Requests : asked[q] = "resolved" => asked'[q] = "resolved"
  <2> DEFINE now == [asked EXCEPT ![r] = "waiting"]
  <2>1. now \in Promises /\ \A q \in Requests : asked[q] = "resolved" => now[q] = "resolved"
    BY <1>0, <1>3 DEF session!unlock
  <2>2. \/ session!Rendered(pending, TRUE, session!Settle(now, r, "resolved"))
        \/ session!Rendered(r, FALSE, now)
    BY <1>3 DEF session!unlock
  <2> HIDE DEF now, Promises
  <2>3. CASE session!Rendered(pending, TRUE, session!Settle(now, r, "resolved"))
    BY <1>1, <1>2, <2>1, <2>3
  <2>4. CASE session!Rendered(r, FALSE, now)
    BY <1>2, <2>1, <2>4
  <2> QED BY <2>2, <2>3, <2>4
<1>4. ASSUME session!SessionStep
      PROVE  \A q \in Requests : asked[q] = "resolved" => asked'[q] = "resolved"
  <2>1. session!Unlocked \in BOOLEAN
    BY DEF session!Unlocked
  <2>2. \/ asked' = asked
        \/ \E answer \in {"resolved", "rejected"} :
              asked' = session!Settle(asked, pending, answer)
        \/ session!Rendered(pending, TRUE, asked)
        \/ session!Rendered(pending, FALSE, asked)
        \/ session!Rendered(pending, session!Unlocked, asked)
    <3>1. ASSUME (\E by \in {{}, {"wallet"}, {"cloud"}} : session!validate(by)) \/ session!onCancel
          PROVE  \E answer \in {"resolved", "rejected"} :
                    asked' = session!Settle(asked, pending, answer)
      BY <3>1 DEF session!validate, session!onCancel
    <3>2. session!onLock \/ session!validatePassword => asked' = asked
      BY DEF session!onLock, session!validatePassword
    <3>3. session!autoLock => asked' = asked \/ session!Rendered(pending, FALSE, asked)
      BY DEF session!autoLock
    <3>4. ASSUME NEW on, session!onChangeSetting(on)
          PROVE  session!Rendered(pending, session!Unlocked, asked)
      BY <3>4 DEF session!onChangeSetting
    <3>5. session!Rerender => session!Rendered(pending, session!Unlocked, asked)
      BY DEF session!Rerender
    <3>6. ASSUME NEW by, session!loginPage(by) PROVE session!Rendered(pending, TRUE, asked)
      BY <3>6 DEF session!loginPage
    <3>7. session!onCreateWallet => session!Rendered(pending, TRUE, asked)
      BY DEF session!onCreateWallet
    <3> QED BY <1>4, <3>1, <3>2, <3>3, <3>4, <3>5, <3>6, <3>7 DEF session!SessionStep
  <2> HIDE DEF Promises
  <2> QED BY <1>0, <1>1, <1>2, <2>1, <2>2
<1>5. CASE UNCHANGED sessionVars
  BY <1>5 DEF sessionVars
<1> QED BY <1>3, <1>4, <1>5

\* A step of the dialog answers only those whom it was asked about.
LEMMA ConfirmAsksNobody ==
    ASSUME SigningInv, ConfirmStep
    PROVE  \A t \in Txs : confirm'[t] # "none" <=> confirm[t] # "none"
<1>1. confirm \in [Txs -> {"none", "waiting", "resolved", "rejected"}]
  BY DEF SigningInv, Parts!ConfirmInv, Parts!ConfirmTypeOK
<1>2. ASSUME NEW t, NEW answer \in {"resolved", "rejected"},
             confirm' = confirming!Settled(t, answer)
      PROVE  \A u \in Txs : confirm'[u] # "none" <=> confirm[u] # "none"
  BY <1>1, <1>2 DEF confirming!Settled
<1>3. ASSUME NEW c \in Calls, confirming!Step(c)
      PROVE  \/ confirm' = confirm
             \/ confirm' = confirming!Settled(call[c].tx, "resolved")
             \/ confirm' = confirming!Settled(call[c].tx, "rejected")
  BY <1>3 DEF confirming!Step, confirming!onConfirmClick, confirming!onWasBroadcast,
              confirming!IncludeInBlock, confirming!onIncluded, confirming!onError,
              confirming!broadcast_timeout
<1>4. ASSUME confirming!onClose \/ confirming!onTogglePropose
      PROVE  \/ confirm' = confirm
             \/ confirm' = confirming!Settled(dialog.transaction, "rejected")
  BY <1>4 DEF confirming!onClose, confirming!onTogglePropose
<1> QED BY <1>2, <1>3, <1>4 DEF ConfirmStep

-----------------------------------------------------------------------------
(* Every step keeps the invariant.                                         *)

\* A transaction that is not in the dialog goes on, or is rejected.
LEMMA JobKept ==
    ASSUME SigningInv, NEW t \in Txs, NEW stage \in Stage \ {"confirming"},
           job[t] # "confirming", GoOn(t, stage), UNCHANGED confirmVars,
           (\E r \in Requests : session!unlock(r)) \/ UNCHANGED sessionVars,
           signer' \in [Txs -> SUBSET Keys], \A u \in Txs : u # t => signer'[u] = signer[u],
           stage \in {"fees", "signatures"} => /\ asked[t] = "resolved"
                                               /\ t \in Claims => signer'[t] # {}
    PROVE  SigningInv'
<1>1. Parts!SessionInv' /\ Parts!ConfirmInv'
  BY SessionKept, ConfirmKept
<1>2. \A q \in Txs : asked[q] = "resolved" => asked'[q] = "resolved"
  BY AnswerIsFinal DEF Requests
<1>3. job' \in [Txs -> Stage] /\ job'[t] = stage /\ \A u \in Txs : u # t => job'[u] = job[u]
  BY DEF SigningInv, JobsType, GoOn
<1>4. JobsType'
  BY <1>3 DEF JobsType
<1>5. LetThrough'
  BY <1>2, <1>3 DEF SigningInv, LetThrough
<1>6. ConfirmingIsShown'
  BY <1>3 DEF SigningInv, ConfirmingIsShown, confirmVars
<1> QED BY <1>1, <1>4, <1>5, <1>6 DEF SigningInv

\* Every step of a transaction before the dialog keeps the invariant, but the signatures.
LEMMA StepKeeps ==
    ASSUME SigningInv, NEW t \in Txs
    PROVE  /\ job[t] # "confirming" /\ Reject(t) => SigningInv'
           /\ job[t] # "confirming" /\ process_transaction(t) => SigningInv'
           /\ importBalance(t) => SigningInv'
           /\ AccountAnswered(t) => SigningInv'
           /\ ImportUnlocked(t) => SigningInv'
           /\ FeesSet(t) => SigningInv'
           /\ \A named \in SUBSET Keys : UnlockResolved(t, named) => SigningInv'
<1> USE DEF GoOn
<1>0. signer \in [Txs -> SUBSET Keys] /\ job \in [Txs -> Stage] /\ t \in Requests
      /\ (t \in Claims => Import(t) \in Requests)
  BY DEF SigningInv, JobsType, Requests
<1>1. ASSUME job[t] # "confirming", Reject(t) PROVE SigningInv'
  <2>1. "rejected" \in Stage \ {"confirming"}
    BY DEF Stage
  <2> QED BY <1>0, <1>1, <2>1, JobKept DEF Reject
<1>2. ASSUME job[t] # "confirming", process_transaction(t) PROVE SigningInv'
  <2>1. "unlocking" \in Stage \ {"confirming"}
    BY DEF Stage
  <2> QED BY <1>0, <1>2, <2>1, JobKept DEF process_transaction
<1>3. ASSUME importBalance(t) PROVE SigningInv'
  <2>1. "importing" \in Stage \ {"confirming"}
    BY DEF Stage
  <2> QED BY <1>0, <1>3, <2>1, JobKept DEF importBalance
<1>4. ASSUME AccountAnswered(t) PROVE SigningInv'
  <2>1. CASE /\ job[t] = "importing" /\ GoOn(t, "accountKnown")
             /\ UNCHANGED <<sessionVars, confirmVars, signer>>
    <3>1. "accountKnown" \in Stage \ {"confirming"}
      BY DEF Stage
    <3> QED BY <1>0, <2>1, <3>1, JobKept
  <2> QED BY <1>1, <1>2, <1>4, <2>1 DEF AccountAnswered, ClaimBalances
<1>5. ASSUME ImportUnlocked(t) PROVE SigningInv'
  <2>1. CASE /\ job[t] = "importing" /\ GoOn(t, "importUnlocked")
             /\ UNCHANGED <<sessionVars, confirmVars, signer>>
    <3>1. "importUnlocked" \in Stage \ {"confirming"}
      BY DEF Stage
    <3> QED BY <1>0, <2>1, <3>1, JobKept
  <2> QED BY <1>1, <1>2, <1>5, <2>1 DEF ImportUnlocked, ClaimBalances
<1>6. ASSUME FeesSet(t) PROVE SigningInv'
  <2>1. /\ "signatures" \in Stage \ {"confirming"} /\ asked[t] = "resolved"
        /\ t \in Claims => signer[t] # {}
    BY <1>6 DEF FeesSet, Stage, SigningInv, LetThrough
  <2> QED BY <1>0, <1>6, <2>1, JobKept DEF FeesSet
<1>7. ASSUME NEW named \in SUBSET Keys, UnlockResolved(t, named) PROVE SigningInv'
  <2>1. /\ "fees" \in Stage \ {"confirming"} /\ "rejected" \in Stage \ {"confirming"}
        /\ job[t] # "confirming" /\ asked[t] = "resolved"
        /\ UNCHANGED sessionVars /\ UNCHANGED confirmVars
    BY <1>7 DEF UnlockResolved, Stage
  <2>2. CASE named \subseteq unlockedBy
    <3>1. GoOn(t, "fees") /\ signer' = [signer EXCEPT ![t] = named]
      BY <1>7, <2>2 DEF UnlockResolved
    <3>2. t \in Claims => named # {}
      BY <1>7 DEF UnlockResolved
    <3>3. /\ signer' \in [Txs -> SUBSET Keys] /\ signer'[t] = named
          /\ \A u \in Txs : u # t => signer'[u] = signer[u]
      BY <1>0, <3>1
    <3> QED BY <2>1, <3>1, <3>2, <3>3, JobKept
  <2>3. CASE ~ (named \subseteq unlockedBy)
    BY <1>0, <1>7, <2>1, <2>3, JobKept DEF UnlockResolved
  <2> QED BY <2>2, <2>3
<1> QED BY <1>1, <1>2, <1>3, <1>4, <1>5, <1>6, <1>7

\* The signatures are known: the keys are there and the dialog is asked, or the call is rejected.
LEMMA SignaturesKnownKeeps ==
    ASSUME SigningInv, NEW t \in Txs, NEW required \in SUBSET Keys, SignaturesKnown(t, required)
    PROVE  SigningInv'
<1>1. /\ signer \in [Txs -> SUBSET Keys] /\ job \in [Txs -> Stage]
      /\ job[t] = "signatures" /\ UNCHANGED sessionVars
  BY DEF SigningInv, JobsType, SignaturesKnown
<1>2. CASE required \ signer[t] \subseteq unlockedBy
  <2>1. /\ confirming!onConfirm(t) /\ GoOn(t, "confirming")
        /\ signer' = [signer EXCEPT ![t] = @ \cup required]
    BY <1>2 DEF SignaturesKnown
  <2>2. Parts!SessionInv' /\ Parts!ConfirmInv'
    BY <1>1, <2>1, SessionKept, ConfirmKept
  <2>3. /\ job' \in [Txs -> Stage] /\ job'[t] = "confirming"
        /\ \A u \in Txs : u # t => job'[u] = job[u]
    BY <1>1, <2>1 DEF GoOn, Stage
  <2>4. JobsType'
    BY <1>1, <2>1, <2>3 DEF JobsType
  <2>5. LetThrough'
    <3>1. asked' = asked
      BY <1>1 DEF sessionVars
    <3>2. asked[t] = "resolved" /\ (t \in Claims => signer[t] # {})
      BY <1>1 DEF SigningInv, LetThrough
    <3> QED BY <1>1, <2>1, <2>3, <3>1, <3>2 DEF SigningInv, LetThrough
  <2>6. ConfirmingIsShown'
    <3>1. confirm \in [Txs -> {"none", "waiting", "resolved", "rejected"}]
      BY DEF SigningInv, Parts!ConfirmInv, Parts!ConfirmTypeOK
    <3> QED BY <2>1, <2>3, <3>1 DEF SigningInv, ConfirmingIsShown, confirming!onConfirm
  <2> QED BY <2>2, <2>4, <2>5, <2>6 DEF SigningInv
<1>3. CASE ~ (required \ signer[t] \subseteq unlockedBy)
  <2>1. Reject(t)
    BY <1>1, <1>3 DEF SignaturesKnown, Reject
  <2> QED BY <1>1, <2>1, StepKeeps
<1> QED BY <1>2, <1>3

\* No call has been made.
LEMMA SigningInvInit == Init => SigningInv
<1> SUFFICES ASSUME Init PROVE SigningInv
  OBVIOUS
<1>1. session!Init /\ confirming!ConfirmInit /\ NoTx \notin Requests /\ NoTx \notin Txs
  BY SigningAssumption DEF Init, Requests
<1>2. Parts!SessionInv
  <2>1. Parts!Init
    BY <1>1 DEF session!Init, Parts!Init
  <2> QED BY <1>1, <2>1, Parts!SessionInvInit
<1>3. Parts!ConfirmInv
  <2>1. Parts!ConfirmInit
    BY <1>1 DEF confirming!ConfirmInit, confirming!getInitialState, Parts!ConfirmInit,
                Parts!getInitialState
  <2> QED BY <1>1, <2>1, Parts!ConfirmInvInit
<1>4. JobsType /\ LetThrough
  BY DEF Init, JobsType, LetThrough, Stage
<1>5. ConfirmingIsShown
  BY <1>1 DEF Init, ConfirmingIsShown, confirming!ConfirmInit
<1> QED BY <1>2, <1>3, <1>4, <1>5 DEF SigningInv

\* Every step keeps the invariant.
LEMMA SigningInvStep == SigningInv /\ [Next]_signingVars => SigningInv'
<1> SUFFICES ASSUME SigningInv, [Next]_signingVars PROVE SigningInv'
  OBVIOUS
<1>1. ASSUME NEW t \in Txs, Call(t) PROVE SigningInv'
  BY <1>1, StepKeeps DEF Call, MismatchedChain
<1>2. ASSUME NEW t \in Txs,
             importBalance(t) \/ AccountAnswered(t) \/ ImportUnlocked(t) \/ FeesSet(t)
      PROVE  SigningInv'
  BY <1>2, StepKeeps
<1>3. ASSUME NEW t \in Txs, ImportRejected(t) \/ UnlockRejected(t) \/ NodeFails(t)
      PROVE  SigningInv'
  <2>1. job[t] # "confirming" /\ Reject(t)
    BY <1>3 DEF ImportRejected, UnlockRejected, NodeFails
  <2> QED BY <2>1, StepKeeps
<1>4. ASSUME NEW t \in Txs, NEW named \in SUBSET Keys, UnlockResolved(t, named)
      PROVE  SigningInv'
  BY <1>4, StepKeeps
<1>5. ASSUME NEW t \in Txs, NEW required \in SUBSET Keys, SignaturesKnown(t, required)
      PROVE  SigningInv'
  BY <1>5, SignaturesKnownKeeps
<1>6. CASE SessionStep
  <2>1. session!SessionStep /\ UNCHANGED <<confirmVars, job, signer>>
    BY <1>6 DEF SessionStep
  <2>2. Parts!SessionInv' /\ Parts!ConfirmInv'
    BY <2>1, SessionKept, ConfirmKept
  <2>3. \A q \in Txs : asked[q] = "resolved" => asked'[q] = "resolved"
    BY <2>1, AnswerIsFinal DEF Requests
  <2>4. JobsType' /\ LetThrough' /\ ConfirmingIsShown'
    BY <2>1, <2>3 DEF SigningInv, JobsType, LetThrough, ConfirmingIsShown, confirmVars
  <2> QED BY <2>2, <2>4 DEF SigningInv
<1>7. CASE ConfirmStep
  <2>1. UNCHANGED sessionVars /\ UNCHANGED <<job, signer>>
    BY <1>7 DEF ConfirmStep
  <2>2. Parts!SessionInv' /\ Parts!ConfirmInv'
    BY <1>7, <2>1, SessionKept, ConfirmKept
  <2>3. \A t \in Txs : confirm'[t] # "none" <=> confirm[t] # "none"
    BY <1>7, ConfirmAsksNobody
  <2>4. JobsType' /\ LetThrough' /\ ConfirmingIsShown'
    BY <2>1, <2>3 DEF SigningInv, JobsType, LetThrough, ConfirmingIsShown, sessionVars
  <2> QED BY <2>2, <2>4 DEF SigningInv
<1>8. CASE UNCHANGED signingVars
  <2>1. UNCHANGED sessionVars /\ UNCHANGED confirmVars /\ UNCHANGED <<job, signer>>
    BY <1>8 DEF signingVars
  <2>2. Parts!SessionInv' /\ Parts!ConfirmInv'
    BY <2>1, SessionKept, ConfirmKept
  <2>3. JobsType' /\ LetThrough' /\ ConfirmingIsShown'
    BY <2>1 DEF SigningInv, JobsType, LetThrough, ConfirmingIsShown, sessionVars, confirmVars
  <2> QED BY <2>2, <2>3 DEF SigningInv
<1> QED BY <1>1, <1>2, <1>3, <1>4, <1>5, <1>6, <1>7, <1>8 DEF Next

\* The invariant holds throughout.
LEMMA SigningInvariant == Spec => []SigningInv
BY SigningInvInit, SigningInvStep, PTL DEF Spec

-----------------------------------------------------------------------------
(* The theorems.                                                           *)

\* A transaction is on its way to the node only if the dialog was asked about it.
LEMMA SentIsConfirming ==
    ASSUME SigningInv, NEW c \in Calls, call[c].tx # NoTx
    PROVE  call[c].tx \in Txs /\ job[call[c].tx] = "confirming"
<1>1. call[c].tx \in Txs /\ confirm[call[c].tx] # "none"
  BY DEF SigningInv, Parts!ConfirmInv, Parts!ConfirmTypeOK, Parts!SentWasAsked
<1> QED BY <1>1 DEF SigningInv, ConfirmingIsShown

\* Session, dialog and transactions keep their types when they are composed.
THEOREM SigningTypes == Spec => []TypeOK
<1>1. SigningInv => TypeOK
  BY DEF SigningInv, JobsType, TypeOK, Parts!SessionInv, Parts!TypeOK,
         Parts!ConfirmInv, Parts!ConfirmTypeOK, Parts!Stage,
         session!TypeOK, confirming!ConfirmTypeOK, confirming!Stage
<1> QED BY <1>1, SigningInvariant, PTL

\* However locks, answers and other transactions fall between the awaits of
\* process_transaction (WalletDb.js:207), what is sent was let through by the answer to
\* its own unlock(), and a balance claim that is sent has its keys.
THEOREM OnlyUnlockedIsSent == Spec => []SentWasUnlocked
<1>1. SigningInv => SentWasUnlocked
  BY SentIsConfirming DEF SigningInv, LetThrough, SentWasUnlocked
<1> QED BY <1>1, SigningInvariant, PTL

-----------------------------------------------------------------------------
(* The pipeline implements Submission.                                     *)

\* The transaction moves and its caller sees this outcome.
LEMMA OutcomeMoves ==
    ASSUME SigningInv, NEW t \in Txs, NEW stage \in Stage \ {"confirming"}, GoOn(t, stage),
           UNCHANGED confirmVars
    PROVE  /\ UNCHANGED <<call, chain>>
           /\ outcome' = [outcome EXCEPT ![t] = IF stage \in {"none", "rejected"} THEN stage
                                                                              ELSE "waiting"]
<1>1. /\ UNCHANGED <<call, chain, confirm>> /\ job \in [Txs -> Stage]
      /\ job' = [job EXCEPT ![t] = stage]
  BY DEF confirmVars, SigningInv, JobsType, GoOn
<1> QED BY <1>1 DEF outcome, Stage

\* What the caller sees of a transaction that is not in the dialog.
LEMMA OutcomeOfJob ==
    ASSUME NEW t \in Txs
    PROVE  /\ job[t] = "none" => outcome[t] = "none"
           /\ job[t] \in {"importing", "accountKnown", "importUnlocked", "unlocking", "fees",
                          "signatures"} => outcome[t] = "waiting"
           /\ job[t] = "confirming" => outcome[t] = confirm[t]
BY DEF outcome

\* A call that goes on before the dialog is a call, a rejection or a stutter of Submission.
LEMMA MovesImplement ==
    ASSUME SigningInv, NEW t \in Txs, NEW stage \in Stage \ {"none", "confirming"},
           job[t] \notin {"confirming", "rejected"}, GoOn(t, stage), UNCHANGED confirmVars
    PROVE  [S!SubmissionNext]_S!submissionVars
<1>1. /\ UNCHANGED <<call, chain>>
      /\ outcome' = [outcome EXCEPT ![t] = IF stage = "rejected" THEN stage ELSE "waiting"]
  BY OutcomeMoves
<1>2. job[t] \in Stage /\ DOMAIN outcome = Txs
  BY DEF SigningInv, JobsType, outcome
<1>3. CASE job[t] = "none"
  <2>1. outcome[t] = "none"
    BY <1>3, OutcomeOfJob
  <2>2. S!Ask(t) \/ S!Refuse(t)
    BY <1>1, <2>1 DEF S!Ask, S!Refuse
  <2> QED BY <2>2 DEF S!SubmissionNext
<1>4. CASE job[t] # "none"
  <2>1. outcome[t] = "waiting"
    BY <1>2, <1>4, OutcomeOfJob DEF Stage
  <2>2. CASE stage = "rejected"
    <3>1. S!Answer(t)
      BY <1>1, <2>1, <2>2 DEF S!Answer
    <3> QED BY <3>1 DEF S!SubmissionNext
  <2>3. CASE stage # "rejected"
    <3>1. outcome' = outcome
      <4>1. outcome = [u \in Txs |-> outcome[u]]
        BY DEF outcome
      <4>2. outcome' = [outcome EXCEPT ![t] = outcome[t]]
        BY <1>1, <2>1, <2>3
      <4> HIDE DEF outcome
      <4> QED BY <4>1, <4>2
    <3> QED BY <1>1, <3>1 DEF S!submissionVars
  <2> QED BY <2>2, <2>3
<1> QED BY <1>3, <1>4

\* A step that TxConfirm takes for Submission is one of the pipeline too, since what
\* is in the dialog is confirming and nothing else is.
LEMMA ConfirmImplements ==
    ASSUME SigningInv, ConfirmStep
    PROVE  [S!SubmissionNext]_S!submissionVars
<1>1. [Parts!S!SubmissionNext]_(Parts!S!submissionVars)
  <2>1. Parts!ConfirmInv /\ NoTx \notin Requests /\ NoTx \notin Txs
    BY SigningAssumption DEF SigningInv, Requests
  <2>2. Parts!ConfirmNext
    BY ConfirmSteps
  <2>3. [Parts!ConfirmNext]_(Parts!confirmVars)
    BY <2>2
  <2> QED BY <2>1, <2>3, Parts!SubmissionStep
<1>2. /\ UNCHANGED job /\ confirm \in [Txs -> {"none", "waiting", "resolved", "rejected"}]
      /\ \A t \in Txs : confirm[t] # "none" <=> job[t] = "confirming"
      /\ \A t \in Txs : confirm'[t] # "none" <=> confirm[t] # "none"
  BY ConfirmAsksNobody
     DEF ConfirmStep, SigningInv, ConfirmingIsShown, Parts!ConfirmInv,
         Parts!ConfirmTypeOK
<1>3. ASSUME NEW t \in Txs, Parts!S!Ask(t) \/ Parts!S!Refuse(t)
      PROVE  FALSE
  BY <1>2, <1>3 DEF Parts!S!Ask, Parts!S!Refuse
<1>4. ASSUME NEW t \in Txs, Parts!S!Send(t) \/ Parts!S!EnterBlock(t)
      PROVE  S!Send(t) \/ S!EnterBlock(t)
  <2>1. UNCHANGED outcome
    BY <1>2, <1>4 DEF outcome, Parts!S!Send, Parts!S!EnterBlock
  <2>2. Parts!S!Send(t) => outcome[t] # "none"
    BY <1>2, OutcomeOfJob DEF Parts!S!Send
  <2> QED BY <1>4, <2>1, <2>2
          DEF S!Send, S!EnterBlock, Parts!S!Send, Parts!S!EnterBlock
<1>5. ASSUME NEW t \in Txs, Parts!S!Answer(t)
      PROVE  S!Answer(t)
  <2>1. outcome[t] = "waiting" /\ job[t] = "confirming"
    BY <1>2, <1>5, OutcomeOfJob DEF Parts!S!Answer
  <2>2. ASSUME NEW answer, confirm' = [confirm EXCEPT ![t] = answer]
        PROVE  outcome' = [outcome EXCEPT ![t] = answer]
    BY <1>2, <2>1, <2>2 DEF outcome
  <2> QED BY <1>5, <2>1, <2>2 DEF S!Answer, Parts!S!Answer
<1>6. CASE UNCHANGED Parts!S!submissionVars
  BY <1>2, <1>6 DEF Parts!S!submissionVars, S!submissionVars, outcome
<1> QED BY <1>1, <1>3, <1>4, <1>5, <1>6
        DEF S!SubmissionNext, Parts!S!SubmissionNext

\* Every step of the pipeline is a step of Submission or a stutter.
LEMMA SigningImplementsStep ==
    SigningInv /\ [Next]_signingVars => [S!SubmissionNext]_S!submissionVars
<1> SUFFICES ASSUME SigningInv, [Next]_signingVars
             PROVE  [S!SubmissionNext]_S!submissionVars
  OBVIOUS
<1>1. {"importing", "accountKnown", "importUnlocked", "unlocking", "fees", "signatures",
       "rejected"} \subseteq Stage \ {"none", "confirming"}
  BY DEF Stage
<1>2. ASSUME NEW t \in Txs, job[t] \notin {"confirming", "rejected"},
             \/ Reject(t) \/ process_transaction(t) \/ importBalance(t)
             \/ /\ \/ GoOn(t, "accountKnown") \/ GoOn(t, "importUnlocked")
                   \/ GoOn(t, "fees") \/ GoOn(t, "signatures") \/ GoOn(t, "rejected")
                /\ UNCHANGED confirmVars
      PROVE  [S!SubmissionNext]_S!submissionVars
  BY <1>1, <1>2, MovesImplement DEF Reject, process_transaction, importBalance
<1>3. ASSUME NEW t \in Txs,
             \/ Call(t) \/ importBalance(t) \/ AccountAnswered(t) \/ ImportUnlocked(t)
             \/ ImportRejected(t) \/ UnlockRejected(t) \/ FeesSet(t) \/ NodeFails(t)
      PROVE  [S!SubmissionNext]_S!submissionVars
  <2>1. CASE Call(t)
    BY <1>2, <2>1 DEF Call, MismatchedChain
  <2>2. CASE importBalance(t)
    BY <1>2, <2>2 DEF importBalance
  <2>3. CASE AccountAnswered(t)
    BY <1>2, <2>3 DEF AccountAnswered, ClaimBalances
  <2>4. CASE ImportUnlocked(t)
    BY <1>2, <2>4 DEF ImportUnlocked, ClaimBalances
  <2>5. CASE ImportRejected(t) \/ UnlockRejected(t) \/ NodeFails(t)
    BY <1>2, <2>5 DEF ImportRejected, UnlockRejected, NodeFails
  <2>6. CASE FeesSet(t)
    BY <1>2, <2>6 DEF FeesSet
  <2> QED BY <1>3, <2>1, <2>2, <2>3, <2>4, <2>5, <2>6
<1>4. ASSUME NEW t \in Txs, NEW named \in SUBSET Keys, UnlockResolved(t, named)
      PROVE  [S!SubmissionNext]_S!submissionVars
  BY <1>2, <1>4 DEF UnlockResolved
<1>5. ASSUME NEW t \in Txs, NEW required \in SUBSET Keys, SignaturesKnown(t, required)
      PROVE  [S!SubmissionNext]_S!submissionVars
  <2>1. job[t] = "signatures"
    BY <1>5 DEF SignaturesKnown
  <2>2. CASE GoOn(t, "rejected") /\ UNCHANGED confirmVars
    BY <1>2, <2>1, <2>2
  <2>3. CASE confirming!onConfirm(t) /\ GoOn(t, "confirming")
    <3>1. /\ job \in [Txs -> Stage] /\ job' = [job EXCEPT ![t] = "confirming"]
          /\ confirm \in [Txs -> {"none", "waiting", "resolved", "rejected"}]
          /\ confirm' = [confirm EXCEPT ![t] = "waiting"] /\ UNCHANGED <<call, chain>>
      BY <2>3 DEF confirming!onConfirm, GoOn, SigningInv, JobsType, Parts!ConfirmInv,
                  Parts!ConfirmTypeOK
    <3>2. outcome' = outcome
      BY <2>1, <3>1 DEF outcome
    <3> QED BY <3>1, <3>2 DEF S!submissionVars
  <2> QED BY <1>5, <2>2, <2>3 DEF SignaturesKnown
<1>6. CASE SessionStep \/ UNCHANGED signingVars
  <2>1. UNCHANGED confirmVars /\ UNCHANGED job
    BY <1>6 DEF SessionStep, signingVars
  <2> QED BY <2>1 DEF S!submissionVars, outcome, confirmVars
<1>7. CASE ConfirmStep
  BY <1>7, ConfirmImplements
<1> QED BY <1>3, <1>4, <1>5, <1>6, <1>7 DEF Next

\* The pipeline, from the call of process_transaction through the session, the node's
\* answers and the dialog, with locks at every await, keeps the promise of Submission.
THEOREM SigningImplementsSubmission == Spec => ImplementsSubmission
<1>1. Init => S!SubmissionInit
  BY DEF Init, S!SubmissionInit, outcome, confirming!ConfirmInit
<1> QED
  BY <1>1, SigningInvariant, SigningImplementsStep, PTL
     DEF Spec, ImplementsSubmission, S!SubmissionSpec

-----------------------------------------------------------------------------
(* What Submission promises, and the pipeline with it.                     *)

\* Honest needs the types, since a caller's outcome is looked up for everything that
\* was sent.
SubmissionInv == S!SubmissionType /\ S!Honest

\* Each of the five steps keeps outcome, sent and chain consistent.
LEMMA SubmissionInvStep ==
    SubmissionInv /\ [S!SubmissionNext]_S!submissionVars => SubmissionInv'
<1> SUFFICES ASSUME SubmissionInv, [S!SubmissionNext]_S!submissionVars
             PROVE  SubmissionInv'
  OBVIOUS
<1> USE DEF SubmissionInv, S!SubmissionType, S!Honest
<1>1. ASSUME NEW t \in Txs, S!Ask(t) PROVE SubmissionInv'
  BY <1>1 DEF S!Ask
<1>2. ASSUME NEW t \in Txs, S!Refuse(t) PROVE SubmissionInv'
  BY <1>2 DEF S!Refuse
<1>3. ASSUME NEW t \in Txs, S!Send(t) PROVE SubmissionInv'
  BY <1>3 DEF S!Send
<1>4. ASSUME NEW t \in Txs, S!EnterBlock(t) PROVE SubmissionInv'
  BY <1>4 DEF S!EnterBlock
<1>5. ASSUME NEW t \in Txs, S!Answer(t) PROVE SubmissionInv'
  BY <1>5 DEF S!Answer
<1>6. CASE UNCHANGED S!submissionVars
  BY <1>6 DEF S!submissionVars
<1> QED BY <1>1, <1>2, <1>3, <1>4, <1>5, <1>6 DEF S!SubmissionNext

\* Who keeps to Submission is honest: a caller who is resolved finds the transaction
\* in a block, and only what a caller asked for is ever sent.
THEOREM SubmissionHonest == S!SubmissionSpec => []S!Honest
<1>1. S!SubmissionInit => SubmissionInv
  BY DEF S!SubmissionInit, SubmissionInv, S!SubmissionType, S!Honest
<1>2. SubmissionInv => S!Honest
  BY DEF SubmissionInv
<1> QED BY <1>1, <1>2, SubmissionInvStep, PTL DEF S!SubmissionSpec

\* So the callers of process_transaction, imports among them, are told the truth,
\* whatever locks the session under them and whichever transaction the dialog shows.
THEOREM SigningHonest == Spec => []S!Honest
BY SigningImplementsSubmission, SubmissionHonest, PTL DEF ImplementsSubmission
=============================================================================
