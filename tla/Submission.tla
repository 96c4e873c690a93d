------------------------------ MODULE Submission ------------------------------
(***************************************************************************)
(* What process_transaction (src/app/stores/WalletDb.js:207) promises its  *)
(* callers: one answer per transaction, and "resolved" only for a          *)
(* transaction that a block contains.  Abstract: it knows neither dialogs, *)
(* nor locks, nor timers.                                                  *)
(***************************************************************************)
CONSTANT Txs

VARIABLES outcome,   \* what the caller of process_transaction sees
          sent,      \* transactions handed to the node
          chain      \* transactions contained in a block

submissionVars == <<outcome, sent, chain>>

SubmissionInit ==
    /\ outcome = [t \in Txs |-> "none"]
    /\ sent = {} /\ chain = {}

Ask(t) ==
    /\ outcome[t] = "none"
    /\ outcome' = [outcome EXCEPT ![t] = "waiting"]
    /\ UNCHANGED <<sent, chain>>

\* The call itself is refused.
Refuse(t) ==
    /\ outcome[t] = "none"
    /\ outcome' = [outcome EXCEPT ![t] = "rejected"]
    /\ UNCHANGED <<sent, chain>>

Send(t) ==
    /\ outcome[t] # "none"
    /\ sent' = sent \cup {t}
    /\ UNCHANGED <<outcome, chain>>

EnterBlock(t) ==
    /\ t \in sent
    /\ chain' = chain \cup {t}
    /\ UNCHANGED <<outcome, sent>>

Answer(t) ==
    /\ outcome[t] = "waiting"
    /\ \/ outcome' = [outcome EXCEPT ![t] = "rejected"]
       \/ t \in chain /\ outcome' = [outcome EXCEPT ![t] = "resolved"]
    /\ UNCHANGED <<sent, chain>>

SubmissionNext ==
    \E t \in Txs : Ask(t) \/ Refuse(t) \/ Send(t) \/ EnterBlock(t) \/ Answer(t)

SubmissionSpec == SubmissionInit /\ [][SubmissionNext]_submissionVars

SubmissionType ==
    /\ outcome \in [Txs -> {"none", "waiting", "resolved", "rejected"}]
    /\ sent \subseteq Txs /\ chain \subseteq Txs

\* A block contains what was sent, only what was asked for was sent, and a
\* caller who is told so finds the transaction in a block.
Honest ==
    /\ \A t \in chain : t \in sent
    /\ \A t \in sent : outcome[t] # "none"
    /\ \A t \in Txs : outcome[t] = "resolved" => t \in chain
=============================================================================
