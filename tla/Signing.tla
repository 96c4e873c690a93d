------------------------------- MODULE Signing -------------------------------
(***************************************************************************)
(* WalletDb.process_transaction from the call to the dialog                *)
(* (src/app/stores/WalletDb.js:207), and importBalance, which claims       *)
(* balances with it (src/app/actions/WalletActions.js:384), composed with  *)
(* the session (WalletUnlock) and with confirming (TxConfirm).             *)
(*                                                                         *)
(* Between its awaits anything may happen: the auto-lock timer fires, the  *)
(* user locks, another transaction is asked for.  Continuations of a       *)
(* settled promise run before the next task of the event loop.             *)
(***************************************************************************)
EXTENDS FiniteSets

CONSTANTS Txs, NoTx, Calls,
          Claims     \* transactions that name their signer keys (balance claims)

\* What is asked of the session: importBalance unlocks for itself first.
Import(t) == <<"import", t>>
Requests == Txs \cup {Import(t) : t \in Claims}

ASSUME SigningAssumption == NoTx \notin Requests /\ Claims \subseteq Txs

VARIABLES unlockedBy, locked, pending, asked, timeout, timer, modalVisible,
          dialog, confirm, call, broadcastTimer, chain,
          job,       \* how far process_transaction has come
          signer     \* the keys it has attached: of the local wallet, of a cloud login

session == INSTANCE WalletUnlock
              WITH NoRequest <- NoTx, promise <- asked
confirming == INSTANCE TxConfirm

sessionVars == <<unlockedBy, locked, pending, asked, timeout, timer, modalVisible>>
confirmVars == <<dialog, confirm, call, broadcastTimer, chain>>
signingVars == <<sessionVars, confirmVars, job, signer>>

Keys == {"wallet", "cloud"}

\* An import waits for the wallet and for the account, for the wallet with the
\* account known, or for the account.  A transaction waits to be unlocked, for fees
\* and head block, for the required signatures, for the user and the node.  Or it
\* was rejected before that.
Stage == {"none", "importing", "accountKnown", "importUnlocked",
          "unlocking", "fees", "signatures", "confirming", "rejected"}

TypeOK ==
    /\ session!TypeOK /\ confirming!ConfirmTypeOK
    /\ job \in [Txs -> Stage]
    /\ signer \in [Txs -> SUBSET Keys]

Init ==
    /\ session!Init /\ confirming!ConfirmInit
    /\ job = [t \in Txs |-> "none"]
    /\ signer = [t \in Txs |-> {}]

\* No continuation of unlock() is due.
Quiet ==
    /\ \A t \in Txs : job[t] = "unlocking" => asked[t] = "waiting"
    /\ \A t \in Claims : job[t] \in {"importing", "accountKnown"} => asked[Import(t)] = "waiting"

GoOn(t, stage) == job' = [job EXCEPT ![t] = stage]

-----------------------------------------------------------------------------
\* Mutant: process_transaction does not wait for unlock().
NoWait(t) == session!unlock(t) /\ GoOn(t, "fees") /\ UNCHANGED <<confirmVars, signer>>

\* The wallet is unlocked for the transaction, unless it was made for another chain.
process_transaction(t) ==
    /\ session!unlock(t) /\ GoOn(t, "unlocking")
    /\ UNCHANGED <<confirmVars, signer>>

Reject(t) == GoOn(t, "rejected") /\ UNCHANGED <<sessionVars, confirmVars, signer>>

MismatchedChain(t) == Reject(t)

\* Builders of transactions call process_transaction at once, for all but claims.
Call(t) ==
    /\ Quiet /\ job[t] = "none" /\ t \notin Claims
    /\ process_transaction(t) \/ MismatchedChain(t)

importBalance(t) ==
    /\ Quiet /\ job[t] = "none" /\ t \in Claims
    /\ session!unlock(Import(t)) /\ GoOn(t, "importing")
    /\ UNCHANGED <<confirmVars, signer>>

\* The wallet and the account have both answered.  The account may be unknown, have
\* nothing to claim, or the wallet be of another chain.
ClaimBalances(t) == process_transaction(t) \/ Reject(t)

\* The account is looked up, or the lookup fails and the import with it, however
\* long the wallet takes to answer.
AccountAnswered(t) ==
    /\ Quiet
    /\ \/ /\ job[t] = "importing" /\ GoOn(t, "accountKnown")
          /\ UNCHANGED <<sessionVars, confirmVars, signer>>
       \/ job[t] = "importing" /\ Reject(t)
       \/ job[t] = "importUnlocked" /\ ClaimBalances(t)

ImportUnlocked(t) ==
    /\ t \in Claims /\ asked[Import(t)] = "resolved"
    /\ \/ /\ job[t] = "importing" /\ GoOn(t, "importUnlocked")
          /\ UNCHANGED <<sessionVars, confirmVars, signer>>
       \/ job[t] = "accountKnown" /\ ClaimBalances(t)

ImportRejected(t) ==
    /\ t \in Claims /\ asked[Import(t)] = "rejected"
    /\ job[t] \in {"importing", "accountKnown"} /\ Reject(t)

\* Mutant: the claim stands for its keys.
ClaimForKeys(t, named) ==
    /\ job[t] = "unlocking" /\ asked[t] = "resolved"
    /\ GoOn(t, "fees") /\ signer' = [signer EXCEPT ![t] = {t} \cap Claims]
    /\ UNCHANGED <<sessionVars, confirmVars>>

\* unlock() was resolved.  A balance claim takes its keys now, and fails if one
\* of them is still locked; they are attached once the fees are known.
UnlockResolved(t, named) ==
    /\ job[t] = "unlocking" /\ asked[t] = "resolved"
    /\ named # {} <=> t \in Claims
    /\ IF named \subseteq unlockedBy
       THEN GoOn(t, "fees") /\ signer' = [signer EXCEPT ![t] = named]
       ELSE GoOn(t, "rejected") /\ UNCHANGED signer
    /\ UNCHANGED <<sessionVars, confirmVars>>

\* Mutant: the rejection is swallowed and the call forgotten.
ForgetCall(t) ==
    /\ job[t] = "unlocking" /\ asked[t] = "rejected"
    /\ GoOn(t, "none")
    /\ UNCHANGED <<sessionVars, confirmVars, signer>>

UnlockRejected(t) ==
    /\ job[t] = "unlocking" /\ asked[t] = "rejected"
    /\ Reject(t)

\* set_required_fees and update_head_block are answered.
FeesSet(t) ==
    /\ Quiet /\ job[t] = "fees" /\ GoOn(t, "signatures")
    /\ UNCHANGED <<sessionVars, confirmVars, signer>>

\* get_required_signatures is answered.  A required key that was not named before
\* is looked up now; getPrivateKey throws when its source is locked meanwhile.
SignaturesKnown(t, required) ==
    /\ Quiet /\ job[t] = "signatures"
    /\ IF required \ signer[t] \subseteq unlockedBy
       THEN /\ confirming!onConfirm(t) /\ GoOn(t, "confirming")
            /\ signer' = [signer EXCEPT ![t] = @ \cup required]
       ELSE /\ GoOn(t, "rejected")
            /\ UNCHANGED <<confirmVars, signer>>
    /\ UNCHANGED sessionVars

\* The node's answer is an error.
NodeFails(t) ==
    /\ Quiet /\ job[t] \in {"fees", "signatures"} /\ Reject(t)

SessionStep == Quiet /\ session!SessionStep /\ UNCHANGED <<confirmVars, job, signer>>

ConfirmStep ==
    /\ Quiet
    /\ \/ \E c \in Calls : confirming!Step(c)
       \/ confirming!onClose \/ confirming!onTogglePropose
    /\ UNCHANGED <<sessionVars, job, signer>>

Next ==
    \/ \E t \in Txs :
          \/ Call(t) \/ importBalance(t)
          \/ AccountAnswered(t) \/ ImportUnlocked(t) \/ ImportRejected(t)
          \/ \E named \in SUBSET Keys : UnlockResolved(t, named)
          \/ UnlockRejected(t) \/ FeesSet(t)
          \/ \E required \in SUBSET Keys : SignaturesKnown(t, required)
          \/ NodeFails(t)
    \/ SessionStep \/ ConfirmStep

Spec == Init /\ [][Next]_signingVars

-----------------------------------------------------------------------------
(* What is promised.                                                       *)

\* What the caller of process_transaction sees.
outcome ==
    [t \in Txs |-> CASE job[t] = "none" -> "none"
                     [] job[t] = "rejected" -> "rejected"
                     [] job[t] = "confirming" -> confirm[t]
                     [] OTHER -> "waiting"]

\* The whole pipeline, with the session that may lock under it, keeps the promise
\* of Submission to the callers of process_transaction.
S == INSTANCE Submission
        WITH sent <- {call[c].tx : c \in Calls} \ {NoTx}
ImplementsSubmission == S!SubmissionSpec

\* Whatever is sent was let through by the answer to its own unlock(), not by
\* another caller's, and carries a key if it is a balance claim.
SentWasUnlocked ==
    \A c \in Calls : call[c].tx # NoTx =>
        /\ asked[call[c].tx] = "resolved"
        /\ call[c].tx \in Claims => signer[call[c].tx] # {}
=============================================================================
