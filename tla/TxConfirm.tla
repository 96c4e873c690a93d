------------------------------ MODULE TxConfirm ------------------------------
(***************************************************************************)
(* Confirming and broadcasting transactions:                               *)
(* src/app/actions/TransactionConfirmActions.js,                           *)
(* stores/TransactionConfirmStore.js and the dialog                        *)
(* components/Blockchain/TransactionConfirm.jsx.                           *)
(*                                                                         *)
(* There is one dialog, but any number of broadcasts on their way: every   *)
(* answer is written into the dialog's state, whichever transaction that   *)
(* shows by then.  resolve and reject were taken from the dialog when the  *)
(* user confirmed.                                                         *)
(***************************************************************************)
CONSTANTS Txs,      \* transactions handed to confirm()
          NoTx,     \* state.transaction is null
          Calls     \* calls of broadcast(); how many there are is a bound

ASSUME TxAssumption == NoTx \notin Txs

VARIABLES dialog,    \* TransactionConfirmStore.state
          confirm,   \* the promise process_transaction made for a transaction
          call,      \* the broadcasts: the transaction and how far it has come
          broadcastTimer,   \* broadcasts whose broadcast_timeout is running
          chain      \* transactions contained in a block

confirmVars == <<dialog, confirm, call, broadcastTimer, chain>>

\* A broadcast was sent, acknowledged by the node, or answered for good.
Stage == {"free", "sent", "acked", "done"}

ConfirmTypeOK ==
    /\ dialog \in [transaction : Txs \cup {NoTx}, broadcasted : Txs \cup {NoTx},
                   error : BOOLEAN, broadcasting : BOOLEAN, broadcast : BOOLEAN,
                   included : BOOLEAN, closed : BOOLEAN, propose : BOOLEAN]
    /\ confirm \in [Txs -> {"none", "waiting", "resolved", "rejected"}]
    /\ call \in [Calls -> [tx : Txs \cup {NoTx}, stage : Stage]]
    /\ broadcastTimer \subseteq Calls
    /\ chain \subseteq Txs

getInitialState ==
    [transaction |-> NoTx, broadcasted |-> NoTx, error |-> FALSE, broadcasting |-> FALSE,
     broadcast |-> FALSE, included |-> FALSE, closed |-> TRUE, propose |-> FALSE]

ConfirmInit ==
    /\ dialog = getInitialState
    /\ confirm = [t \in Txs |-> "none"]
    /\ call = [c \in Calls |-> [tx |-> NoTx, stage |-> "free"]]
    /\ broadcastTimer = {} /\ chain = {}

Visible == dialog.transaction # NoTx /\ ~ dialog.closed

Settled(t, outcome) ==
    IF confirm[t] = "waiting" THEN [confirm EXCEPT ![t] = outcome] ELSE confirm

-----------------------------------------------------------------------------
\* process_transaction has the signatures: the dialog shows t and nothing else.
onConfirm(t) ==
    /\ confirm[t] = "none"
    /\ confirm' = [confirm EXCEPT ![t] = "waiting"]
    /\ dialog' = [getInitialState EXCEPT !.transaction = t, !.closed = FALSE]
    /\ UNCHANGED <<call, broadcastTimer, chain>>

\* The button, or Enter, which the dialog takes in whatever state it shows.  As a
\* proposal it leaves the store alone: a new transaction goes to process_transaction
\* and comes back as onConfirm, and the caller of the old one is not answered.
onConfirmClick(c) ==
    /\ Visible /\ ~ dialog.propose /\ call[c].stage = "free"
    /\ call' = [call EXCEPT ![c] = [tx |-> dialog.transaction, stage |-> "sent"]]
    /\ broadcastTimer' = broadcastTimer \cup {c}
    /\ dialog' = [dialog EXCEPT !.broadcasting = TRUE, !.closed = TRUE]
    /\ UNCHANGED <<confirm, chain>>

\* Mutant: a stage the answers do not know.
UnknownStage(c) ==
    /\ call[c].stage = "sent"
    /\ call' = [call EXCEPT ![c].stage = "broadcast"]
    /\ dialog' = [dialog EXCEPT !.broadcasting = FALSE, !.broadcast = TRUE]
    /\ UNCHANGED <<confirm, broadcastTimer, chain>>

\* The node has taken the transaction.
onWasBroadcast(c) ==
    /\ call[c].stage = "sent"
    /\ call' = [call EXCEPT ![c].stage = "acked"]
    /\ dialog' = [dialog EXCEPT !.broadcasting = FALSE, !.broadcast = TRUE]
    /\ UNCHANGED <<confirm, broadcastTimer, chain>>

\* A block contains the transaction, whether or not anyone hears of it.
IncludeInBlock(c) ==
    /\ call[c].stage \in {"sent", "acked"}
    /\ chain' = chain \cup {call[c].tx}
    /\ UNCHANGED <<dialog, confirm, call, broadcastTimer>>

\* Mutant: the promise is looked up in the store when the answer arrives.
AnswerWhoIsShown(c) ==
    /\ call[c].stage = "acked" /\ call[c].tx \in chain
    /\ call' = [call EXCEPT ![c].stage = "done"]
    /\ broadcastTimer' = broadcastTimer \ {c}
    /\ confirm' = Settled(dialog.transaction, "resolved")
    /\ dialog' = [dialog EXCEPT !.error = FALSE, !.broadcasting = FALSE,
                                !.broadcast = TRUE, !.included = TRUE,
                                !.broadcasted = dialog.transaction]
    /\ UNCHANGED chain

\* The answer that a block contains the transaction.
onIncluded(c) ==
    /\ call[c].stage = "acked" /\ call[c].tx \in chain
    /\ call' = [call EXCEPT ![c].stage = "done"]
    /\ broadcastTimer' = broadcastTimer \ {c}
    /\ confirm' = Settled(call[c].tx, "resolved")
    /\ dialog' = [dialog EXCEPT !.error = FALSE, !.broadcasting = FALSE,
                                !.broadcast = TRUE, !.included = TRUE,
                                !.broadcasted = dialog.transaction]
    /\ UNCHANGED chain

\* The node refuses the transaction; the dialog opens again.
onError(c) ==
    /\ call[c].stage = "sent"
    /\ call' = [call EXCEPT ![c].stage = "done"]
    /\ broadcastTimer' = broadcastTimer \ {c}
    /\ confirm' = Settled(call[c].tx, "rejected")
    /\ dialog' = [dialog EXCEPT !.error = TRUE, !.broadcasting = FALSE,
                                !.broadcast = FALSE, !.closed = FALSE]
    /\ UNCHANGED chain

\* Mutant: the timeout tells the dialog and not the caller.
TimeoutUntold(c) ==
    /\ c \in broadcastTimer /\ broadcastTimer' = broadcastTimer \ {c}
    /\ dialog' = [dialog EXCEPT !.error = TRUE, !.broadcasting = FALSE,
                                !.broadcast = FALSE, !.closed = FALSE]
    /\ UNCHANGED <<confirm, call, chain>>

\* Mutant: the timeout opens the dialog without an error.
TimeoutNoError(c) ==
    /\ c \in broadcastTimer /\ broadcastTimer' = broadcastTimer \ {c}
    /\ confirm' = Settled(call[c].tx, "rejected")
    /\ dialog' = [dialog EXCEPT !.broadcasting = FALSE, !.broadcast = FALSE,
                                !.closed = FALSE]
    /\ UNCHANGED <<call, chain>>

\* Twice the expiration time has passed; a late answer is still listened to.
broadcast_timeout(c) ==
    /\ c \in broadcastTimer /\ broadcastTimer' = broadcastTimer \ {c}
    /\ confirm' = Settled(call[c].tx, "rejected")
    /\ dialog' = [dialog EXCEPT !.error = TRUE, !.broadcasting = FALSE,
                                !.broadcast = FALSE, !.closed = FALSE]
    /\ UNCHANGED <<call, chain>>

onClose ==
    /\ Visible
    /\ confirm' = Settled(dialog.transaction, "rejected")
    /\ dialog' = [dialog EXCEPT !.closed = TRUE]
    /\ UNCHANGED <<call, broadcastTimer, chain>>

\* The switch is there until something was broadcast.
onTogglePropose ==
    /\ Visible /\ ~ (dialog.broadcast \/ dialog.broadcasting \/ dialog.error)
    /\ dialog' = [dialog EXCEPT !.propose = ~ @]
    /\ UNCHANGED <<confirm, call, broadcastTimer, chain>>

Step(c) ==
    \/ onConfirmClick(c) \/ onWasBroadcast(c) \/ IncludeInBlock(c)
    \/ onIncluded(c) \/ onError(c) \/ broadcast_timeout(c)

ConfirmNext ==
    \/ \E t \in Txs : onConfirm(t)
    \/ \E c \in Calls : Step(c)
    \/ onClose \/ onTogglePropose

\* setTimeout fires; nothing else has to happen.
Fairness == \A c \in Calls : WF_confirmVars(broadcast_timeout(c))

ConfirmSpec == ConfirmInit /\ [][ConfirmNext]_confirmVars
LiveSpec == ConfirmSpec /\ Fairness

-----------------------------------------------------------------------------
(* What is promised.                                                       *)

\* process_transaction's caller is told the truth about its own transaction,
\* whatever the dialog shows when the answer comes: TxConfirm implements
\* Submission.
S == INSTANCE Submission
        WITH outcome <- confirm, sent <- {call[c].tx : c \in Calls} \ {NoTx}
ImplementsSubmission == S!SubmissionSpec

\* The dialog offers the Confirm button for a transaction at most once: while it
\* is offered the caller waits and nothing was sent, although answers about other
\* transactions open, mark and clear the same dialog.
ButtonMeansUnsent ==
    /\ Visible
    /\ ~ (dialog.error \/ dialog.included \/ dialog.broadcast \/ dialog.broadcasting)
    => /\ confirm[dialog.transaction] = "waiting"
       /\ \A c \in Calls : call[c].tx # dialog.transaction

\* Whoever confirmed is answered, even when the node never answers.
ConfirmedIsAnswered ==
    \A c \in Calls : \A t \in Txs :
        call[c].tx = t ~> confirm[t] \in {"resolved", "rejected"}
=============================================================================
