----------------------------- MODULE ImportPage -----------------------------
(***************************************************************************)
(* The page that imports private keys: components/Wallet/ImportKeys.jsx    *)
(* with lib/restore/RestoreAsyncGuard.js and stores/ImportKeysStore.js.    *)
(*                                                                         *)
(* A page reads a file or takes a pasted key, looks up the accounts of a   *)
(* key, and imports what the user confirms: after the wallet is unlocked,  *)
(* a timer, the lookups and a worker.  Each of these answers when the user *)
(* may have reset the page, left it, or opened another.  What remains over *)
(* pages is the flag of ImportKeysStore, which shows a spinner instead of  *)
(* the page, and the work that is under way.                               *)
(***************************************************************************)
EXTENDS Naturals, FiniteSets

CONSTANTS Keys,           \* private keys
          Files,          \* what may be chosen: kind, keys, and whether "" opens it
          MaxPages,       \* pages opened
          MaxVersion,     \* resets of the first page by the user; of the next, one less
          MaxLookups,     \* lookups under way
          MaxImports      \* clicks on the import button

NoInput == [kind |-> "none", keys |-> {}, open |-> TRUE]
Pasted(k) == [kind |-> "wif", keys |-> {k}, open |-> TRUE]

ASSUME ImportPageAssumption ==
    /\ Files \subseteq [kind : {"export", "hosted", "wif", "junk"}, keys : SUBSET Keys,
                        open : BOOLEAN]
    /\ \A f \in Files : f.kind = "wif" => \E k \in Keys : f.keys = {k}
    /\ MaxPages \in Nat /\ MaxVersion \in Nat /\ MaxLookups \in Nat /\ MaxImports \in Nat

VARIABLES page,           \* the instance that was mounted last, and its guard
          form,           \* its state
          chosen,         \* history: what the user put in since the last reset
          reads,          \* files that are read or filtered
          lookups,        \* accounts that are looked up
          imports,        \* imports, each a click on the button
          timeout,        \* the import whose timer the guard knows
          importing,      \* ImportKeysStore
          stored,         \* PrivateKeyStore.keys
          overlap         \* history: an import cleared the flag of another

importPageVars == <<page, form, chosen, reads, lookups, imports, timeout, importing, stored,
                    overlap>>

Ids == 1..MaxImports
Stamps == (0..MaxPages) \X Nat

TypeOK ==
    /\ page \in [no : 0..MaxPages, mounted : BOOLEAN, version : Nat, privateKey : BOOLEAN]
    /\ form \in [accountKeys : SUBSET Keys, keys : SUBSET Keys, pubs : SUBSET Keys,
                 associated : SUBSET Keys, filtering : BOOLEAN, success : BOOLEAN,
                 message : {"none", "unrecognized", "unreadable"}]
    /\ form.pubs \subseteq form.keys
    /\ chosen \in Files \cup {NoInput} \cup {Pasted(k) : k \in Keys}
    /\ reads \subseteq [of : Stamps, file : Files, at : {"reading", "filtering"}]
    /\ lookups \subseteq [of : Stamps, key : Keys, at : {"asked", "found", "linking"}]
    /\ imports \in [Ids -> [at : {"idle", "unlocking", "timer", "lookups", "worker", "swallowed",
                                  "dupLookups", "updating", "ended"},
                            asked : Stamps, of : Stamps,
                            confirmed : SUBSET Keys, keys : SUBSET Keys]]
    /\ timeout \in 0..MaxImports
    /\ importing \in BOOLEAN /\ overlap \in BOOLEAN
    /\ stored \subseteq Keys

-----------------------------------------------------------------------------
(* RestoreAsyncGuard.                                                      *)

Now == <<page.no, page.version>>
isActive(stamp) == page.mounted /\ stamp = Now
isMounted(stamp) == page.mounted /\ stamp[1] = page.no

\* cancelReader: a file that is still read is aborted, one that is filtered is not.
cancelReader ==
    reads' = {r \in reads : ~ (r.at = "reading" /\ r.of[1] = page.no)}

invalidate ==
    /\ page' = [page EXCEPT !.version = @ + 1]
    /\ cancelReader

EmptyForm(filtering) ==
    [accountKeys |-> {}, keys |-> {}, pubs |-> {}, associated |-> {}, filtering |-> filtering,
     success |-> FALSE, message |-> "none"]

\* Mutant: what is under way stays valid.
ResetOnly ==
    /\ UNCHANGED <<page, reads>> /\ form' = EmptyForm(form.filtering) /\ chosen' = NoInput

\* ImportKeys.reset: genesis_filter_initalizing is not part of the initial state.
reset ==
    /\ invalidate
    /\ form' = EmptyForm(form.filtering)
    /\ chosen' = NoInput

-----------------------------------------------------------------------------
(* Opening, leaving and filling the page.                                  *)

\* componentDidMount of a page for pasted keys or for files.
componentDidMount ==
    /\ ~ page.mounted /\ page.no < MaxPages
    /\ \E privateKey \in BOOLEAN :
          page' = [no |-> page.no + 1, mounted |-> TRUE, version |-> 0,
                   privateKey |-> privateKey]
    /\ form' = EmptyForm(FALSE) /\ chosen' = NoInput
    /\ UNCHANGED <<reads, lookups, imports, timeout, importing, stored, overlap>>

\* Mutant: the flag survives the page.
UnmountOnly ==
    /\ page.mounted
    /\ page' = [page EXCEPT !.mounted = FALSE, !.version = @ + 1]
    /\ cancelReader
    /\ imports' = [i \in Ids |-> IF i = timeout THEN [imports[i] EXCEPT !.at = "ended"]
                                                ELSE imports[i]]
    /\ timeout' = 0
    /\ UNCHANGED <<form, chosen, lookups, stored, overlap, importing>>

\* The guard aborts the file and the timer that it knows, and the flag is cleared.
componentWillUnmount ==
    /\ page.mounted
    /\ page' = [page EXCEPT !.mounted = FALSE, !.version = @ + 1]
    /\ cancelReader
    /\ imports' = [i \in Ids |-> IF i = timeout THEN [imports[i] EXCEPT !.at = "ended"]
                                                ELSE imports[i]]
    /\ timeout' = 0
    /\ importing' = FALSE
    /\ UNCHANGED <<form, chosen, lookups, stored, overlap>>

\* What the page renders: nothing below the spinner or the dialog of unlock().
Shown ==
    /\ page.mounted /\ ~ importing
    /\ \A i \in Ids : imports[i].at # "unlocking"

Inputs == Shown /\ ~ form.success /\ form.keys = {} /\ ~ form.filtering

\* The Cancel, Reset and Done buttons.
onCancel ==
    /\ Shown /\ page.version + page.no =< MaxVersion
    /\ form.success \/ form.keys # {} \/ Inputs
    /\ reset
    /\ UNCHANGED <<lookups, imports, timeout, importing, stored, overlap>>

\* addByPattern: the text is one key; its accounts are looked up.
addByPattern(k) ==
    /\ form' = [form EXCEPT !.keys = @ \cup {k}, !.pubs = @ \cup {k}]
    /\ lookups' = lookups \cup {[of |-> Now, key |-> k, at |-> "asked"]}

onWif(k) ==
    /\ Inputs /\ page.privateKey /\ Cardinality(lookups) < MaxLookups
    /\ addByPattern(k) /\ chosen' = Pasted(k)
    /\ UNCHANGED <<page, reads, imports, timeout, importing, stored, overlap>>

\* upload: resets the page, whatever the file turns out to be.
upload(file) ==
    /\ Inputs /\ ~ page.privateKey
    /\ page.version + page.no =< MaxVersion /\ Cardinality(lookups) < MaxLookups
    /\ page' = [page EXCEPT !.version = @ + 1]
    /\ reads' = {r \in reads : ~ (r.at = "reading" /\ r.of[1] = page.no)}
                   \cup {[of |-> Now', file |-> file, at |-> "reading"]}
    /\ form' = EmptyForm(form.filtering) /\ chosen' = file
    /\ UNCHANGED <<lookups, imports, timeout, importing, stored, overlap>>

\* _passwordCheck and _decryptPrivateKeys: the empty password is tried first.
WithKeys(file, keys) ==
    IF file.open THEN [form EXCEPT !.keys = @ \cup keys, !.pubs = @ \cup keys,
                                   !.associated = @ \cup keys, !.filtering = FALSE]
    ELSE [form EXCEPT !.accountKeys = keys, !.filtering = FALSE]

enterPassword ==
    /\ Inputs /\ ~ page.privateKey
    /\ form' = [form EXCEPT !.keys = form.accountKeys, !.pubs = form.accountKeys,
                            !.associated = form.accountKeys, !.accountKeys = {}]
    /\ form.accountKeys # {}
    /\ UNCHANGED <<page, chosen, reads, lookups, imports, timeout, importing, stored, overlap>>

Drop(r) == reads' = reads \ {r}

\* reader.onload and _parseImportKeyUpload.  The keys of an export pass the genesis
\* filter if it was deployed.  _parseWalletJson throws for every file: enckeys is
\* the variable of a block that has ended (line 391).
onload(r) ==
    /\ r.at = "reading" /\ isActive(r.of)
    /\ \/ /\ r.file.kind = "export"
          /\ reads' = (reads \ {r}) \cup {[r EXCEPT !.at = "filtering"]}
          /\ form' = [form EXCEPT !.filtering = TRUE] /\ UNCHANGED lookups
       \/ /\ r.file.kind = "export"
          /\ form' = WithKeys(r.file, r.file.keys) /\ Drop(r) /\ UNCHANGED lookups
       \/ /\ r.file.kind \in {"hosted", "junk"}
          /\ form' = [form EXCEPT !.message = "unrecognized"] /\ Drop(r) /\ UNCHANGED lookups
       \/ /\ r.file.kind = "wif"
          /\ Drop(r) /\ \E k \in r.file.keys : addByPattern(k)

onerror(r) ==
    /\ r.at = "reading" /\ isActive(r.of)
    /\ Drop(r) /\ form' = [form EXCEPT !.message = "unreadable"]
    /\ UNCHANGED lookups

\* The filter has its bloom file and drops the keys that are not in genesis.
filtered(r) ==
    /\ r.at = "filtering"
    /\ Drop(r)
    /\ IF isActive(r.of) THEN \E keys \in SUBSET r.file.keys : form' = WithKeys(r.file, keys)
       ELSE UNCHANGED form
    /\ UNCHANGED lookups

fileAnswers ==
    /\ \E r \in reads : onload(r) \/ onerror(r) \/ filtered(r)
    /\ UNCHANGED <<page, chosen, imports, timeout, importing, stored, overlap>>

\* The answer to a lookup is taken while the input is the same, and its accounts
\* are linked; a lookup also ends when it fails.
lookupAnswers ==
    /\ \E l \in lookups :
          \/ /\ l.at = "asked" /\ isActive(l.of)
             /\ lookups' = (lookups \ {l}) \cup {[l EXCEPT !.at = "found"]}
             /\ UNCHANGED form
          \/ /\ l.at = "found" /\ isActive(l.of)
             /\ lookups' = (lookups \ {l}) \cup {[l EXCEPT !.at = "linking"]}
             /\ form' = [form EXCEPT !.associated = {l.key}]
          \/ lookups' = lookups \ {l} /\ UNCHANGED form
    /\ UNCHANGED <<page, chosen, reads, imports, timeout, importing, stored, overlap>>

-----------------------------------------------------------------------------
(* Importing.                                                              *)

UnderWay(i) ==
    /\ imports[i].at \in {"timer", "lookups", "worker", "dupLookups", "updating"}
    /\ isMounted(imports[i].of)

Goto(i, at) == imports' = [imports EXCEPT ![i].at = at]

\* The flag is cleared, whoever set it.
Finish(i) ==
    /\ importing' = FALSE
    /\ overlap' = (overlap \/ \E j \in Ids \ {i} : UnderWay(j))

\* Mutant: imported_keys_public keeps the keys that are stored already.
DupsCounted(dups) == [form EXCEPT !.keys = @ \ dups]

WithoutDups(dups) == [form EXCEPT !.pubs = @ \ dups, !.keys = @ \ dups]

\* _saveImport: keys that are stored already are taken out; if none is left the
\* names of the stored ones are updated, and otherwise the wallet is unlocked.
_saveImport(i) ==
    /\ Shown /\ ~ form.success /\ form.keys # {}
    /\ imports[i].at = "idle" /\ \A j \in Ids : j < i => imports[j].at # "idle"
    /\ LET dups == form.pubs \cap stored
           rest == form.pubs \ stored
           job(at, keys) == [at |-> at, asked |-> Now, of |-> Now, confirmed |-> keys, keys |-> {}]
       IN  IF rest = {}
           THEN /\ importing' = TRUE
                /\ imports' = [imports EXCEPT ![i] = job("dupLookups", dups)]
                /\ form' = [form EXCEPT !.pubs = {}]
           ELSE /\ imports' = [imports EXCEPT ![i] = job("unlocking", form.keys \ dups)]
                /\ form' = WithoutDups(dups)
                /\ UNCHANGED importing
    /\ UNCHANGED <<page, chosen, reads, lookups, timeout, stored, overlap>>

\* WalletUnlockActions.unlock: the user unlocks the wallet or cancels.
unlocked(i) ==
    /\ imports[i].at = "unlocking"
    /\ \/ isMounted(imports[i].of) /\ Goto(i, "timer") /\ importing' = TRUE /\ timeout' = i
       \/ Goto(i, "ended") /\ UNCHANGED <<importing, timeout>>
    /\ UNCHANGED <<page, form, chosen, reads, lookups, stored, overlap>>

\* The timer of 200 ms, and saveImport: the lookups of this moment are waited for.
timerFires(i) ==
    /\ imports[i].at = "timer"
    /\ IF isMounted(imports[i].of)
       THEN /\ imports' = [imports EXCEPT ![i].at = "lookups", ![i].of = Now]
            /\ timeout' = 0 /\ UNCHANGED <<importing, overlap>>
       ELSE Goto(i, "ended") /\ Finish(i) /\ UNCHANGED timeout
    /\ UNCHANGED <<page, form, chosen, reads, lookups, stored>>

Settled(i) == \A l \in lookups : l.of # imports[i].of

\* The page is reset and the worker gets what the page showed.
startWorker(i) ==
    /\ reset
    /\ imports' = [imports EXCEPT ![i].at = "worker", ![i].keys = form.keys, ![i].of = Now']

\* Mutant: the lookups are not waited for.
ImportAtOnce(i) ==
    /\ imports[i].at = "lookups"
    /\ IF isMounted(imports[i].of) THEN startWorker(i)
       ELSE Goto(i, "ended") /\ UNCHANGED <<page, form, chosen, reads>>
    /\ UNCHANGED <<lookups, timeout, importing, stored, overlap>>

saveImport(i) ==
    /\ imports[i].at = "lookups" /\ Settled(i)
    /\ IF isMounted(imports[i].of) THEN startWorker(i)
       ELSE Goto(i, "ended") /\ UNCHANGED <<page, form, chosen, reads>>
    /\ UNCHANGED <<lookups, timeout, importing, stored, overlap>>

\* importKeysWorker: all keys are stored, or it fails; success is shown if the page
\* is as saveImport left it.
workerAnswers(i) ==
    /\ imports[i].at = "worker" /\ Goto(i, "ended") /\ Finish(i)
    /\ \/ /\ stored' = stored \cup imports[i].keys
          /\ form' = [form EXCEPT !.success = @ \/ isActive(imports[i].of)]
       \/ UNCHANGED <<stored, form>>
    /\ UNCHANGED <<page, chosen, reads, lookups, timeout>>

\* An exception in the answer of the AES worker, as of a database that is closed,
\* is logged and nothing else happens (WalletDb.js:805).
workerThrows(i) ==
    /\ imports[i].at = "worker" /\ Goto(i, "swallowed")
    /\ UNCHANGED <<page, form, chosen, reads, lookups, timeout, importing, stored, overlap>>

updateAccounts(i) ==
    /\ imports[i].at = "dupLookups" /\ Settled(i) /\ Goto(i, "updating")
    /\ UNCHANGED <<page, form, chosen, reads, lookups, timeout, importing, stored, overlap>>

accountsUpdated(i) ==
    /\ imports[i].at = "updating" /\ Goto(i, "ended") /\ Finish(i)
    /\ \/ /\ isMounted(imports[i].of)
          /\ invalidate /\ chosen' = NoInput
          /\ form' = [EmptyForm(form.filtering) EXCEPT !.success = TRUE]
       \/ UNCHANGED <<page, form, chosen, reads>>
    /\ UNCHANGED <<lookups, timeout, stored>>

importGoesOn(i) ==
    \/ timerFires(i) \/ saveImport(i) \/ workerAnswers(i) \/ workerThrows(i)
    \/ updateAccounts(i) \/ accountsUpdated(i)

Init ==
    /\ page = [no |-> 0, mounted |-> FALSE, version |-> 0, privateKey |-> TRUE]
    /\ form = EmptyForm(FALSE) /\ chosen = NoInput
    /\ reads = {} /\ lookups = {}
    /\ imports = [i \in Ids |-> [at |-> "idle", asked |-> Now, of |-> Now, confirmed |-> {},
                                 keys |-> {}]]
    /\ timeout = 0 /\ importing = FALSE /\ overlap = FALSE
    /\ stored \in SUBSET Keys

Next ==
    \/ componentDidMount \/ componentWillUnmount \/ onCancel
    \/ fileAnswers \/ enterPassword \/ lookupAnswers
    \/ \E k \in Keys : onWif(k)
    \/ \E file \in Files : upload(file)
    \/ \E i \in Ids : _saveImport(i) \/ unlocked(i) \/ importGoesOn(i)

\* Timers fire, lookups are answered or fail, workers and IndexedDB answer; the
\* user need never do anything.
Spec ==
    /\ Init /\ [][Next]_importPageVars
    /\ WF_importPageVars(lookupAnswers)
    /\ \A i \in Ids : WF_importPageVars(importGoesOn(i))

-----------------------------------------------------------------------------
(* What is promised.                                                       *)

\* restore_async_guard_test.js "invalidates pending work when a new file is
\* selected": keys and accounts on the page are of what the user put in last,
\* whatever answers arrive for an earlier file, key or page.
CurrentInput ==
    form.accountKeys \cup form.keys \cup form.associated \subseteq chosen.keys

\* What is given to the worker is what the user confirmed, and the accounts of
\* these keys have been looked up, unless the end of an earlier import brought the
\* page back while another was under way.
ConfirmedIsImported ==
    overlap \/ \A i \in Ids : imports[i].at = "worker" =>
                  /\ imports[i].keys = imports[i].confirmed
                  /\ \A l \in lookups : l.of # imports[i].asked

\* The spinner ends, also for whoever leaves the page during an import and comes
\* back, unless the answer of a worker was swallowed.
ImportEnds ==
    importing ~> (~ importing \/ \E i \in Ids : imports[i].at = "swallowed")
=============================================================================
