-------------------------- MODULE ImportPage_proofs --------------------------
(***************************************************************************)
(* Theorems about ImportPage: what the page shows is of what the user put  *)
(* in last, and a worker gets the keys that were confirmed, for any number *)
(* of pages, resets, files, lookups and imports.                           *)
(***************************************************************************)
EXTENDS ImportPage, TLAPS

-----------------------------------------------------------------------------
(* The inductive invariant.                                                *)

\* Stamps are of this moment or of the past, and the past does not come back.
Past(stamp) ==
    \/ stamp[1] < page.no
    \/ stamp[1] = page.no /\ stamp[2] < page.version
Known(stamp) == Past(stamp) \/ stamp = Now

StampInv ==
    /\ \A r \in reads : Known(r.of)
    /\ \A l \in lookups : Known(l.of)
    /\ \A i \in Ids : Known(imports[i].of) /\ Known(imports[i].asked)

\* What is still valid is about what the user put in last: one file at most, which
\* has not filled the page yet, or a key that is on the page already.
InputInv ==
    /\ CurrentInput
    /\ \A r \in reads : r.of = Now =>
          /\ r.file = chosen /\ ~ page.privateKey
          /\ form.keys = {} /\ form.accountKeys = {}
    /\ \A r, s \in reads : r.of = Now /\ s.of = Now => r = s
    /\ \A l \in lookups : l.of = Now => l.key \in chosen.keys /\ form.keys # {}
    /\ page.privateKey => /\ form.accountKeys = {}
                          /\ form.keys = {} => form.associated = {}

\* An import that is not with its worker yet, on the page that is shown.
Waiting(i) == imports[i].at \in {"unlocking", "timer", "lookups"} /\ isMounted(imports[i].of)
Active(i) == UnderWay(i) \/ imports[i].at = "unlocking"

\* While the flag does its work one import is active, and the page stays as it was
\* confirmed until the worker has it.
ImportInv ==
    /\ \A i \in Ids : UnderWay(i) => importing
    /\ \A i, j \in Ids : Active(i) /\ Active(j) => i = j
    /\ \A i \in Ids : Waiting(i) =>
          /\ imports[i].asked = Now /\ imports[i].of = Now
          /\ imports[i].confirmed = form.keys /\ form.keys # {}
    /\ \A i \in Ids : imports[i].at = "worker" =>
          /\ imports[i].keys = imports[i].confirmed
          /\ Past(imports[i].asked) /\ \A l \in lookups : l.of # imports[i].asked

PageInv == TypeOK /\ StampInv /\ InputInv /\ (overlap \/ ImportInv)


-----------------------------------------------------------------------------
(* What the actions do to the page, its state and the imports.             *)

Pages == [no : 0..MaxPages, mounted : BOOLEAN, version : Nat, privateKey : BOOLEAN]
Forms == [accountKeys : SUBSET Keys, keys : SUBSET Keys, pubs : SUBSET Keys,
          associated : SUBSET Keys, filtering : BOOLEAN, success : BOOLEAN,
          message : {"none", "unrecognized", "unreadable"}]
Places == {"idle", "unlocking", "timer", "lookups", "worker", "swallowed", "dupLookups",
           "updating", "ended"}
Jobs == [at : Places, asked : Stamps, of : Stamps, confirmed : SUBSET Keys, keys : SUBSET Keys]

\* The input is another one: a reset of the page, or another page.
Newer ==
    \/ page'.no = page.no + 1
    \/ page'.no = page.no /\ page'.version = page.version + 1

\* The page and nothing of its place.
Reset ==
    /\ page'.no = page.no /\ page'.mounted = page.mounted
    /\ page'.version = page.version + 1 /\ page'.privateKey = page.privateKey

\* What the next form holds.
Fills(accountKeys, keys, associated) ==
    form'.accountKeys = accountKeys /\ form'.keys = keys /\ form'.associated = associated

\* Import i alone moves.
Moves(i, job) ==
    /\ imports' \in [Ids -> Jobs] /\ imports'[i] = job
    /\ \A j \in Ids : j # i => imports'[j] = imports[j]

\* The parts of the types.
LEMMA Parts ==
    ASSUME TypeOK
    PROVE  /\ page \in Pages /\ form \in Forms /\ Now \in Stamps
           /\ imports \in [Ids -> Jobs]
           /\ \A i \in Ids : imports[i] \in Jobs
BY DEF TypeOK, Pages, Forms, Jobs, Places, Now, Stamps

\* A new version of the page is a page.
LEMMA PageRenewed ==
    ASSUME TypeOK, page' = [page EXCEPT !.version = @ + 1]
    PROVE  page' \in Pages /\ Reset
BY Parts DEF Pages, Reset

\* The page is left.
LEMMA PageLeft ==
    ASSUME TypeOK, page' = [page EXCEPT !.mounted = FALSE, !.version = @ + 1]
    PROVE  /\ page' \in Pages
           /\ page'.no = page.no /\ page'.version = page.version + 1
           /\ page'.mounted = FALSE /\ page'.privateKey = page.privateKey
<1> DEFINE now == [page EXCEPT !.mounted = FALSE, !.version = @ + 1]
<1>1. now = [x \in DOMAIN page |-> IF x = "version" THEN page.version + 1 ELSE
                                   IF x = "mounted" THEN FALSE ELSE page[x]]
  OBVIOUS
<1>2. DOMAIN page = {"no", "mounted", "version", "privateKey"}
  BY Parts DEF Pages
<1>3. /\ now.no = page.no /\ now.version = page.version + 1
      /\ now.privateKey = page.privateKey /\ now.mounted = FALSE
      /\ DOMAIN now = {"no", "mounted", "version", "privateKey"}
  BY <1>1, <1>2
<1>5. now = [no |-> now.no, mounted |-> now.mounted, version |-> now.version,
             privateKey |-> now.privateKey]
  <2>1. now = [x \in {"no", "mounted", "version", "privateKey"} |-> now[x]]
    BY <1>1, <1>3
  <2> HIDE DEF now
  <2> QED BY <2>1
<1>4. page.no \in 0..MaxPages /\ page.version + 1 \in Nat /\ page.privateKey \in BOOLEAN
  BY Parts DEF Pages
<1>6. now \in Pages
  BY <1>3, <1>4, <1>5 DEF Pages
<1> QED BY <1>3, <1>6

\* The empty state of a page.
LEMMA Emptied ==
    ASSUME NEW filtering \in BOOLEAN, form' = EmptyForm(filtering)
    PROVE  form' \in Forms /\ form'.pubs \subseteq form'.keys /\ Fills({}, {}, {})
BY DEF EmptyForm, Forms, Fills

\* One field is set, and it is no key of the form.
LEMMA FieldSet ==
    ASSUME TypeOK, NEW b \in BOOLEAN, NEW S \in SUBSET Keys,
           NEW m \in {"none", "unrecognized", "unreadable"},
           \/ form' = [form EXCEPT !.filtering = b]
           \/ form' = [form EXCEPT !.success = b]
           \/ form' = [form EXCEPT !.message = m]
           \/ form' = [form EXCEPT !.pubs = {}]
    PROVE  /\ form' \in Forms /\ form'.pubs \subseteq form'.keys
           /\ Fills(form.accountKeys, form.keys, form.associated)
<1>1. form \in Forms /\ form.pubs \subseteq form.keys
  BY Parts DEF TypeOK
<1>2. CASE form' = [form EXCEPT !.filtering = b]
  BY <1>1, <1>2 DEF Forms, Fills
<1>3. CASE form' = [form EXCEPT !.success = b]
  BY <1>1, <1>3 DEF Forms, Fills
<1>4. CASE form' = [form EXCEPT !.message = m]
  BY <1>1, <1>4 DEF Forms, Fills
<1>5. CASE form' = [form EXCEPT !.pubs = {}]
  BY <1>1, <1>5 DEF Forms, Fills
<1> QED BY <1>2, <1>3, <1>4, <1>5

\* The linked accounts are set.
LEMMA Linked ==
    ASSUME TypeOK, NEW S \in SUBSET Keys, form' = [form EXCEPT !.associated = S]
    PROVE  /\ form' \in Forms /\ form'.pubs \subseteq form'.keys
           /\ Fills(form.accountKeys, form.keys, S)
<1>1. form \in Forms /\ form.pubs \subseteq form.keys
  BY Parts DEF TypeOK
<1> QED BY <1>1 DEF Forms, Fills

\* The keys and the public keys are set: addByPattern and WithoutDups.
LEMMA KeysSet ==
    ASSUME TypeOK, NEW A \in SUBSET Keys, NEW B \in SUBSET A,
           \/ form' = [form EXCEPT !.keys = A, !.pubs = B]
           \/ form' = [form EXCEPT !.pubs = B, !.keys = A]
    PROVE  /\ form' \in Forms /\ form'.pubs \subseteq form'.keys
           /\ Fills(form.accountKeys, A, form.associated)
<1>1. form \in Forms /\ DOMAIN form = {"accountKeys", "keys", "pubs", "associated",
                                      "filtering", "success", "message"}
  BY Parts DEF Forms
<1>2. form' = [x \in DOMAIN form |-> IF x = "pubs" THEN B ELSE IF x = "keys" THEN A ELSE form[x]]
  <2>1. CASE form' = [form EXCEPT !.keys = A, !.pubs = B]
    BY <2>1
  <2>2. CASE form' = [form EXCEPT !.pubs = B, !.keys = A]
    BY <2>2
  <2> QED BY <2>1, <2>2
<1>3. form' = [accountKeys |-> form.accountKeys, keys |-> A, pubs |-> B,
               associated |-> form.associated, filtering |-> form.filtering,
               success |-> form.success, message |-> form.message]
  BY <1>1, <1>2
<1> QED BY <1>1, <1>3 DEF Forms, Fills

\* The keys of a file are shown, or wait for their password.
LEMMA KeysOpened ==
    ASSUME TypeOK, NEW file, NEW S \in SUBSET Keys, form' = WithKeys(file, S)
    PROVE  /\ form' \in Forms /\ form'.pubs \subseteq form'.keys
           /\ \/ Fills(form.accountKeys, form.keys \cup S, form.associated \cup S)
              \/ Fills(S, form.keys, form.associated)
<1>1. form \in Forms /\ DOMAIN form = {"accountKeys", "keys", "pubs", "associated",
                                      "filtering", "success", "message"}
  BY Parts DEF Forms
<1>2. form.pubs \subseteq form.keys
  BY DEF TypeOK
<1>3. CASE file.open
  <2> DEFINE A == form.keys \cup S
             B == form.pubs \cup S
             C == form.associated \cup S
  <2>1. form' = [form EXCEPT !.keys = A, !.pubs = B, !.associated = C, !.filtering = FALSE]
    BY <1>3 DEF WithKeys
  <2>2. A \in SUBSET Keys /\ B \in SUBSET A /\ C \in SUBSET Keys
    BY <1>1, <1>2 DEF Forms
  <2>3. Fills(form.accountKeys, A, C) /\ form' \in Forms /\ form'.pubs \subseteq form'.keys
    <3> HIDE DEF A, B, C
    <3>1. form' = [x \in DOMAIN form |-> IF x = "filtering" THEN FALSE ELSE
                                         IF x = "associated" THEN C ELSE
                                         IF x = "pubs" THEN B ELSE
                                         IF x = "keys" THEN A ELSE form[x]]
      BY <2>1
    <3>2. form' = [accountKeys |-> form.accountKeys, keys |-> A, pubs |-> B,
                   associated |-> C, filtering |-> FALSE,
                   success |-> form.success, message |-> form.message]
      BY <1>1, <3>1
    <3> QED BY <1>1, <2>2, <3>2 DEF Forms, Fills
  <2> QED BY <2>3
<1>4. CASE ~ file.open
  <2>1. form' = [form EXCEPT !.accountKeys = S, !.filtering = FALSE]
    BY <1>4 DEF WithKeys
  <2>2. form' = [x \in DOMAIN form |-> IF x = "filtering" THEN FALSE ELSE
                                       IF x = "accountKeys" THEN S ELSE form[x]]
    BY <2>1
  <2>3. form' = [accountKeys |-> S, keys |-> form.keys, pubs |-> form.pubs,
                 associated |-> form.associated, filtering |-> FALSE,
                 success |-> form.success, message |-> form.message]
    BY <1>1, <2>2
  <2> QED BY <1>1, <1>2, <2>3 DEF Forms, Fills
<1> QED BY <1>3, <1>4

\* The password opens the keys that waited for it.
LEMMA PasswordOpens ==
    ASSUME TypeOK, enterPassword
    PROVE  /\ form' \in Forms /\ form'.pubs \subseteq form'.keys
           /\ Fills({}, form.accountKeys, form.accountKeys)
<1>1. form \in Forms /\ DOMAIN form = {"accountKeys", "keys", "pubs", "associated",
                                      "filtering", "success", "message"}
  BY Parts DEF Forms
<1> DEFINE A == form.accountKeys
<1>2. form' = [form EXCEPT !.keys = A, !.pubs = A, !.associated = A, !.accountKeys = {}]
  BY DEF enterPassword
<1>3. form' = [x \in DOMAIN form |-> IF x = "accountKeys" THEN {} ELSE
                                     IF x \in {"keys", "pubs", "associated"} THEN A ELSE form[x]]
  BY <1>2
<1>4. form' = [accountKeys |-> {}, keys |-> A, pubs |-> A, associated |-> A,
               filtering |-> form.filtering, success |-> form.success,
               message |-> form.message]
  BY <1>1, <1>3
<1> QED BY <1>1, <1>4 DEF Forms, Fills

\* What becomes of an import.
LEMMA Moved ==
    ASSUME TypeOK, NEW i \in Ids, NEW at \in Places
    PROVE  /\ Goto(i, at) => Moves(i, [at |-> at, asked |-> imports[i].asked, of |-> imports[i].of,
                                       confirmed |-> imports[i].confirmed,
                                       keys |-> imports[i].keys])
           /\ imports' = [imports EXCEPT ![i].at = at, ![i].of = Now]
                 => Moves(i, [at |-> at, asked |-> imports[i].asked, of |-> Now,
                              confirmed |-> imports[i].confirmed, keys |-> imports[i].keys])
           /\ \A S \in SUBSET Keys, stamp \in Stamps :
                 imports' = [imports EXCEPT ![i].at = at, ![i].keys = S, ![i].of = stamp]
                 => Moves(i, [at |-> at, asked |-> imports[i].asked, of |-> stamp,
                              confirmed |-> imports[i].confirmed, keys |-> S])
           /\ \A job \in Jobs : imports' = [imports EXCEPT ![i] = job] => Moves(i, job)
<1>1. imports \in [Ids -> Jobs] /\ Now \in Stamps
  BY Parts
<1>2. imports[i] \in Jobs /\ DOMAIN imports[i] = {"at", "asked", "of", "confirmed", "keys"}
  BY <1>1 DEF Jobs
<1>3. ASSUME NEW job \in Jobs, imports' = [imports EXCEPT ![i] = job]
      PROVE  Moves(i, job)
  BY <1>1, <1>3 DEF Moves
<1>4. ASSUME Goto(i, at)
      PROVE  Moves(i, [at |-> at, asked |-> imports[i].asked, of |-> imports[i].of,
                       confirmed |-> imports[i].confirmed, keys |-> imports[i].keys])
  <2> DEFINE job == [imports[i] EXCEPT !.at = at]
  <2>1. job = [at |-> at, asked |-> imports[i].asked, of |-> imports[i].of,
               confirmed |-> imports[i].confirmed, keys |-> imports[i].keys]
    BY <1>2 DEF Jobs
  <2>2. job \in Jobs
    BY <1>2 DEF Jobs
  <2>3. imports' = [imports EXCEPT ![i] = job]
    BY <1>4 DEF Goto
  <2> QED BY <1>3, <2>1, <2>2, <2>3
<1>5. ASSUME imports' = [imports EXCEPT ![i].at = at, ![i].of = Now]
      PROVE  Moves(i, [at |-> at, asked |-> imports[i].asked, of |-> Now,
                       confirmed |-> imports[i].confirmed, keys |-> imports[i].keys])
  <2> DEFINE job == [imports[i] EXCEPT !.at = at, !.of = Now]
  <2>1. job = [x \in DOMAIN imports[i] |-> IF x = "of" THEN Now ELSE
                                           IF x = "at" THEN at ELSE imports[i][x]]
    OBVIOUS
  <2>2. job = [at |-> at, asked |-> imports[i].asked, of |-> Now,
               confirmed |-> imports[i].confirmed, keys |-> imports[i].keys]
    BY <1>2, <2>1
  <2>3. imports' = [imports EXCEPT ![i] = job]
    BY <1>5
  <2>4. [at |-> at, asked |-> imports[i].asked, of |-> Now,
         confirmed |-> imports[i].confirmed, keys |-> imports[i].keys] \in Jobs
    BY <1>1, <1>2 DEF Jobs
  <2> QED BY <1>3, <2>2, <2>3, <2>4
<1>6. ASSUME NEW S \in SUBSET Keys, NEW stamp \in Stamps,
             imports' = [imports EXCEPT ![i].at = at, ![i].keys = S, ![i].of = stamp]
      PROVE  Moves(i, [at |-> at, asked |-> imports[i].asked, of |-> stamp,
                       confirmed |-> imports[i].confirmed, keys |-> S])
  <2> DEFINE job == [imports[i] EXCEPT !.at = at, !.keys = S, !.of = stamp]
  <2>1. job = [x \in DOMAIN imports[i] |-> IF x = "of" THEN stamp ELSE IF x = "keys" THEN S ELSE
                                           IF x = "at" THEN at ELSE imports[i][x]]
    OBVIOUS
  <2>2. job = [at |-> at, asked |-> imports[i].asked, of |-> stamp,
               confirmed |-> imports[i].confirmed, keys |-> S]
    BY <1>2, <2>1
  <2>3. imports' = [imports EXCEPT ![i] = job]
    BY <1>6
  <2>4. [at |-> at, asked |-> imports[i].asked, of |-> stamp,
         confirmed |-> imports[i].confirmed, keys |-> S] \in Jobs
    BY <1>2 DEF Jobs
  <2> QED BY <1>3, <2>2, <2>3, <2>4
<1> QED BY <1>3, <1>4, <1>5, <1>6

-----------------------------------------------------------------------------
(* The types.                                                              *)

InputsType ==
    /\ reads \subseteq [of : Stamps, file : Files, at : {"reading", "filtering"}]
    /\ lookups \subseteq [of : Stamps, key : Keys, at : {"asked", "found", "linking"}]
    /\ chosen \in Files \cup {NoInput} \cup {Pasted(k) : k \in Keys}

ImportsType ==
    /\ imports \in [Ids -> Jobs]
    /\ timeout \in 0..MaxImports
    /\ importing \in BOOLEAN /\ overlap \in BOOLEAN
    /\ stored \subseteq Keys

PageType == page \in Pages

FormType == form \in Forms /\ form.pubs \subseteq form.keys

\* The type invariant in parts.
LEMMA TypeParts ==
    /\ TypeOK <=> PageType /\ FormType /\ InputsType /\ ImportsType
    /\ TypeOK' <=> PageType' /\ FormType' /\ InputsType' /\ ImportsType'
BY DEF TypeOK, PageType, FormType, InputsType, ImportsType, Pages, Forms, Jobs, Places

\* The parts that a step leaves alone.
LEMMA PartsKept ==
    ASSUME TypeOK
    PROVE  /\ UNCHANGED page => PageType'
           /\ UNCHANGED form => FormType'
           /\ UNCHANGED <<chosen, reads, lookups>> => InputsType'
           /\ UNCHANGED <<imports, timeout, importing, stored, overlap>> => ImportsType'
BY TypeParts DEF PageType, FormType, InputsType, ImportsType

\* The next stamp is a stamp.
LEMMA NextStamp == PageType' => Now' \in Stamps
BY DEF PageType, Pages, Now, Stamps

\* What the user may have put in.
LEMMA ChosenTypes ==
    /\ NoInput \in Files \cup {NoInput} \cup {Pasted(k) : k \in Keys}
    /\ \A f \in Files : f \in Files \cup {NoInput} \cup {Pasted(k) : k \in Keys}
    /\ \A k \in Keys : Pasted(k) \in Files \cup {NoInput} \cup {Pasted(j) : j \in Keys}
OBVIOUS

\* componentDidMount: a newer page, with an empty form.
LEMMA MountType ==
    ASSUME TypeOK, componentDidMount
    PROVE  /\ TypeOK' /\ Newer /\ page'.no = page.no + 1 /\ ~ page.mounted
           /\ Fills({}, {}, {}) /\ chosen' = NoInput
<1>1. PICK privateKey \in BOOLEAN :
         page' = [no |-> page.no + 1, mounted |-> TRUE, version |-> 0,
                  privateKey |-> privateKey]
  BY DEF componentDidMount
<1>2. page.no + 1 \in 0..MaxPages
  BY Parts, ImportPageAssumption DEF componentDidMount, Pages
<1>3. PageType' /\ page'.no = page.no + 1
  BY <1>1, <1>2 DEF PageType, Pages
<1>4. FormType' /\ Fills({}, {}, {})
  BY Emptied DEF componentDidMount, FormType
<1>5. InputsType' /\ ImportsType'
  BY TypeParts, ChosenTypes DEF componentDidMount, InputsType, ImportsType
<1> QED BY <1>3, <1>4, <1>5, TypeParts DEF Newer, componentDidMount

\* componentWillUnmount: the page is left, and the import whose timer the guard knows ends.
LEMMA UnmountType ==
    ASSUME TypeOK, componentWillUnmount
    PROVE  /\ TypeOK' /\ Newer /\ page'.privateKey = page.privateKey /\ ~ page'.mounted
           /\ \A i \in Ids : /\ imports'[i].of = imports[i].of
                             /\ imports'[i].asked = imports[i].asked
                             /\ imports'[i].at \in {"ended", imports[i].at}
                             /\ imports'[i].at # "ended" => imports'[i] = imports[i]
<1>1. /\ PageType' /\ Newer /\ page'.privateKey = page.privateKey /\ page'.mounted = FALSE
  BY PageLeft DEF componentWillUnmount, PageType, Newer
<1>2. FormType' /\ reads' \subseteq reads
  BY TypeParts DEF componentWillUnmount, FormType, cancelReader
<1>3. InputsType'
  BY <1>2, TypeParts DEF componentWillUnmount, InputsType
<1>4. ASSUME NEW i \in Ids
      PROVE  /\ [imports[i] EXCEPT !.at = "ended"] \in Jobs
             /\ [imports[i] EXCEPT !.at = "ended"].of = imports[i].of
             /\ [imports[i] EXCEPT !.at = "ended"].asked = imports[i].asked
             /\ [imports[i] EXCEPT !.at = "ended"].at = "ended"
  BY Parts DEF Jobs, Places
<1>5. imports' = [i \in Ids |-> IF i = timeout THEN [imports[i] EXCEPT !.at = "ended"]
                                               ELSE imports[i]]
  BY DEF componentWillUnmount
<1>6. imports' \in [Ids -> Jobs]
  BY <1>4, <1>5, Parts
<1>7. ImportsType'
  <2>1. timeout' \in 0..MaxImports
    BY ImportPageAssumption DEF componentWillUnmount
  <2>2. importing' \in BOOLEAN
    BY DEF componentWillUnmount
  <2>3. overlap' \in BOOLEAN /\ stored' \subseteq Keys
    BY TypeParts DEF componentWillUnmount, ImportsType
  <2> QED BY <1>6, <2>1, <2>2, <2>3 DEF ImportsType
<1> QED BY <1>1, <1>2, <1>3, <1>4, <1>5, <1>7, TypeParts

\* invalidate and reset.
LEMMA ResetType ==
    ASSUME TypeOK, reset
    PROVE  /\ PageType' /\ FormType' /\ Reset /\ Newer
           /\ reads' \subseteq reads /\ Fills({}, {}, {}) /\ chosen' = NoInput
<1>1. page' \in Pages /\ Reset
  BY PageRenewed DEF reset, invalidate
<1>2. form.filtering \in BOOLEAN
  BY Parts DEF Forms
<1>3. form' \in Forms /\ form'.pubs \subseteq form'.keys /\ Fills({}, {}, {})
  BY <1>2, Emptied DEF reset
<1> QED BY <1>1, <1>3 DEF PageType, FormType, Reset, Newer, reset, invalidate, cancelReader

\* onCancel is a reset.
LEMMA CancelType ==
    ASSUME TypeOK, onCancel
    PROVE  /\ TypeOK' /\ Reset /\ Newer
           /\ reads' \subseteq reads /\ Fills({}, {}, {}) /\ chosen' = NoInput
<1>1. reset
  BY DEF onCancel
<1>2. InputsType' /\ ImportsType'
  BY <1>1, ResetType, ChosenTypes, TypeParts DEF onCancel, InputsType, ImportsType
<1> QED BY <1>1, <1>2, ResetType, TypeParts

\* upload resets the page and reads one file for it.
LEMMA UploadType ==
    ASSUME TypeOK, NEW file \in Files, upload(file)
    PROVE  /\ TypeOK' /\ Reset /\ Newer /\ Fills({}, {}, {}) /\ chosen' = file
           /\ \A r \in reads' : r \in reads \/ (r.of = Now' /\ r.file = file)
           /\ \A r, s \in reads' : r \in reads \/ s \in reads \/ r = s
<1>1. page' \in Pages /\ Reset
  BY PageRenewed DEF upload
<1>2. form.filtering \in BOOLEAN
  BY Parts DEF Forms
<1>3. form' \in Forms /\ form'.pubs \subseteq form'.keys /\ Fills({}, {}, {})
  BY <1>2, Emptied DEF upload
<1>4. Now' \in Stamps
  BY <1>1, NextStamp DEF PageType
<1> DEFINE new == [of |-> Now', file |-> file, at |-> "reading"]
<1>5. reads' \subseteq reads \cup {new} /\ chosen' = file
  BY DEF upload
<1>6. InputsType' /\ ImportsType'
  BY <1>4, <1>5, ChosenTypes, TypeParts DEF upload, InputsType, ImportsType
<1> QED BY <1>1, <1>3, <1>5, <1>6, TypeParts DEF PageType, FormType, Reset, Newer

\* A key is put on the page, and looked up.
LEMMA KeyAdded ==
    ASSUME TypeOK, NEW k \in Keys, addByPattern(k), UNCHANGED page
    PROVE  /\ FormType' /\ Fills(form.accountKeys, form.keys \cup {k}, form.associated)
           /\ lookups' \subseteq [of : Stamps, key : Keys, at : {"asked", "found", "linking"}]
           /\ \A l \in lookups' : l \in lookups \/ (l.of = Now /\ l.key = k)
<1>1. form.keys \cup {k} \in SUBSET Keys /\ form.pubs \cup {k} \in SUBSET (form.keys \cup {k})
  BY Parts DEF Forms, TypeOK
<1>2. FormType' /\ Fills(form.accountKeys, form.keys \cup {k}, form.associated)
  BY <1>1, KeysSet DEF addByPattern, FormType
<1> DEFINE new == [of |-> Now, key |-> k, at |-> "asked"]
<1>3. new \in [of : Stamps, key : Keys, at : {"asked", "found", "linking"}]
  BY Parts
<1>4. lookups' = lookups \cup {new}
  BY DEF addByPattern
<1> QED BY <1>2, <1>3, <1>4, TypeParts DEF InputsType

\* onWif adds a key and looks it up.
LEMMA WifType ==
    ASSUME TypeOK, NEW k \in Keys, onWif(k)
    PROVE  /\ TypeOK' /\ Fills(form.accountKeys, form.keys \cup {k}, form.associated)
           /\ \A l \in lookups' : l \in lookups \/ (l.of = Now /\ l.key = k)
<1>1. addByPattern(k) /\ UNCHANGED page
  BY DEF onWif
<1>2. InputsType' /\ ImportsType' /\ PageType'
  BY <1>1, KeyAdded, ChosenTypes, TypeParts DEF onWif, InputsType, ImportsType, PageType
<1> QED BY <1>1, <1>2, KeyAdded, TypeParts

\* enterPassword shows the keys that waited.
LEMMA PasswordType ==
    ASSUME TypeOK, enterPassword
    PROVE  TypeOK' /\ Fills({}, form.accountKeys, form.accountKeys)
<1>1. FormType'
  BY PasswordOpens DEF FormType
<1> QED BY <1>1, PasswordOpens, PartsKept, TypeParts DEF enterPassword

\* The keys, the accounts and the password's keys of the page stay.
FillsSame == Fills(form.accountKeys, form.keys, form.associated)

\* A file that is still valid is parsed, goes on to the filter, or is refused.
FileIsRead(r) ==
    \/ /\ \A s \in reads' : (s \in reads /\ s # r) \/ (s.of = r.of /\ s.file = r.file)
       /\ \A s, t \in reads' : s \in reads \ {r} \/ t \in reads \ {r} \/ s = t
       /\ FillsSame /\ UNCHANGED lookups
    \/ /\ reads' = reads \ {r} /\ UNCHANGED lookups
       /\ \E S \in SUBSET r.file.keys :
             \/ Fills(form.accountKeys, form.keys \cup S, form.associated \cup S)
             \/ Fills(S, form.keys, form.associated)
    \/ /\ reads' = reads \ {r}
       /\ \E k \in r.file.keys :
             /\ Fills(form.accountKeys, form.keys \cup {k}, form.associated)
             /\ \A l \in lookups' : l \in lookups \/ (l.of = Now /\ l.key = k)

\* A step of a file reads it for the page as it is, or drops it.
LEMMA FileType ==
    ASSUME TypeOK, fileAnswers
    PROVE  /\ TypeOK'
           /\ \E r \in reads :
                 \/ r.of = Now /\ FileIsRead(r)
                 \/ reads' = reads \ {r} /\ UNCHANGED <<form, lookups>>
<1> DEFINE Read == [of : Stamps, file : Files, at : {"reading", "filtering"}]
           Lookup == [of : Stamps, key : Keys, at : {"asked", "found", "linking"}]
           Does(r) == \/ r.of = Now /\ FileIsRead(r)
                      \/ reads' = reads \ {r} /\ UNCHANGED <<form, lookups>>
<1>1. PICK r \in reads : onload(r) \/ onerror(r) \/ filtered(r)
  BY DEF fileAnswers
<1>2. reads \subseteq Read /\ lookups \subseteq Lookup
  BY TypeParts DEF InputsType
<1>3. r.file \in Files /\ r.file.keys \in SUBSET Keys /\ r \in Read
  BY <1>1, <1>2, ImportPageAssumption
<1>4. UNCHANGED <<page, chosen, imports, timeout, importing, stored, overlap>>
  BY DEF fileAnswers
<1>5. SUFFICES FormType' /\ reads' \subseteq Read /\ lookups' \subseteq Lookup /\ Does(r)
  <2>1. InputsType' /\ ImportsType' /\ PageType'
    BY <1>4, <1>5, TypeParts, PartsKept DEF InputsType
  <2> QED BY <1>5, <2>1, TypeParts
<1>6. CASE UNCHANGED form /\ Drop(r) /\ UNCHANGED lookups
  <2>1. FormType'
    BY <1>6, PartsKept
  <2> QED BY <2>1, <1>6, <1>2 DEF Drop
<1>7. ASSUME r.of = Now, Drop(r), UNCHANGED lookups, NEW m \in {"unrecognized", "unreadable"},
             form' = [form EXCEPT !.message = m]
      PROVE  FormType' /\ reads' \subseteq Read /\ lookups' \subseteq Lookup /\ Does(r)
  <2>1. FormType' /\ FillsSame
    BY <1>7, FieldSet DEF FormType, FillsSame
  <2>2. reads' = reads \ {r}
    BY <1>7 DEF Drop
  <2>3. FileIsRead(r)
    BY <2>1, <2>2, <1>7 DEF FileIsRead
  <2> QED BY <2>1, <2>2, <2>3, <1>7, <1>2
<1>8. ASSUME r.of = Now, Drop(r), UNCHANGED lookups, NEW S \in SUBSET r.file.keys,
             form' = WithKeys(r.file, S)
      PROVE  FormType' /\ reads' \subseteq Read /\ lookups' \subseteq Lookup /\ Does(r)
  <2>1. S \in SUBSET Keys
    BY <1>3, <1>8
  <2>2. /\ FormType'
        /\ \/ Fills(form.accountKeys, form.keys \cup S, form.associated \cup S)
           \/ Fills(S, form.keys, form.associated)
    BY <2>1, <1>8, KeysOpened DEF FormType
  <2>3. reads' = reads \ {r}
    BY <1>8 DEF Drop
  <2>4. FileIsRead(r)
    BY <2>2, <2>3, <1>8 DEF FileIsRead
  <2> QED BY <2>2, <2>3, <2>4, <1>8, <1>2
<1>9. CASE onload(r)
  <2>1. r.of = Now
    BY <1>9 DEF onload, isActive
  <2>2. CASE /\ reads' = (reads \ {r}) \cup {[r EXCEPT !.at = "filtering"]}
             /\ form' = [form EXCEPT !.filtering = TRUE] /\ UNCHANGED lookups
    <3> DEFINE new == [r EXCEPT !.at = "filtering"]
    <3>1. new \in Read /\ new.of = r.of /\ new.file = r.file
      BY <1>3
    <3>2. FormType' /\ FillsSame
      BY <2>2, FieldSet DEF FormType, FillsSame
    <3>3. reads' = (reads \ {r}) \cup {new}
      BY <2>2
    <3> HIDE DEF new
    <3>4. FileIsRead(r)
      BY <2>2, <3>1, <3>2, <3>3 DEF FileIsRead
    <3> QED BY <2>1, <2>2, <3>1, <3>2, <3>3, <3>4, <1>2
  <2>3. CASE form' = WithKeys(r.file, r.file.keys) /\ Drop(r) /\ UNCHANGED lookups
    BY <2>1, <2>3, <1>8
  <2>4. CASE form' = [form EXCEPT !.message = "unrecognized"] /\ Drop(r) /\ UNCHANGED lookups
    BY <2>1, <2>4, <1>7
  <2>5. CASE Drop(r) /\ \E k \in r.file.keys : addByPattern(k)
    <3>1. PICK k \in r.file.keys : addByPattern(k)
      BY <2>5
    <3>2. k \in Keys /\ reads' = reads \ {r}
      BY <1>3, <3>1, <2>5 DEF Drop
    <3>3. /\ FormType' /\ Fills(form.accountKeys, form.keys \cup {k}, form.associated)
          /\ lookups' \subseteq Lookup
          /\ \A l \in lookups' : l \in lookups \/ (l.of = Now /\ l.key = k)
      BY <3>1, <3>2, <1>4, KeyAdded
    <3>4. FileIsRead(r)
      BY <3>1, <3>2, <3>3 DEF FileIsRead
    <3> QED BY <2>1, <3>2, <3>3, <3>4, <1>2
  <2> QED BY <1>9, <2>2, <2>3, <2>4, <2>5 DEF onload
<1>10. CASE onerror(r)
  BY <1>10, <1>7 DEF onerror, isActive
<1>11. CASE filtered(r)
  <2>1. CASE isActive(r.of)
    <3>1. PICK S \in SUBSET r.file.keys : form' = WithKeys(r.file, S)
      BY <1>11, <2>1 DEF filtered
    <3> QED BY <3>1, <2>1, <1>11, <1>8 DEF filtered, isActive
  <2>2. CASE ~ isActive(r.of)
    BY <2>2, <1>11, <1>6 DEF filtered
  <2> QED BY <2>1, <2>2
<1> QED BY <1>1, <1>9, <1>10, <1>11

\* A step of a lookup links its account at most, if it is of this moment.
LEMMA LookupType ==
    ASSUME TypeOK, lookupAnswers
    PROVE  /\ TypeOK'
           /\ \A l \in lookups' : \E m \in lookups : l.of = m.of /\ l.key = m.key
           /\ \/ FillsSame
              \/ \E l \in lookups : l.of = Now /\ Fills(form.accountKeys, form.keys, {l.key})
<1> DEFINE Lookup == [of : Stamps, key : Keys, at : {"asked", "found", "linking"}]
<1>1. PICK l \in lookups :
         \/ /\ l.at = "asked" /\ isActive(l.of)
            /\ lookups' = (lookups \ {l}) \cup {[l EXCEPT !.at = "found"]}
            /\ UNCHANGED form
         \/ /\ l.at = "found" /\ isActive(l.of)
            /\ lookups' = (lookups \ {l}) \cup {[l EXCEPT !.at = "linking"]}
            /\ form' = [form EXCEPT !.associated = {l.key}]
         \/ lookups' = lookups \ {l} /\ UNCHANGED form
  BY DEF lookupAnswers
<1>2. lookups \subseteq Lookup /\ l \in Lookup
  BY <1>1, TypeParts DEF InputsType
<1>3. ASSUME NEW at \in {"found", "linking"},
             lookups' = (lookups \ {l}) \cup {[l EXCEPT !.at = at]}
      PROVE  /\ lookups' \subseteq Lookup
             /\ \A m \in lookups' : \E n \in lookups : m.of = n.of /\ m.key = n.key
  <2> DEFINE new == [l EXCEPT !.at = at]
  <2>1. new \in Lookup /\ new.of = l.of /\ new.key = l.key
    BY <1>2
  <2>2. lookups' = (lookups \ {l}) \cup {new}
    BY <1>3
  <2> HIDE DEF new
  <2> QED BY <1>1, <1>2, <2>1, <2>2
<1>4. /\ lookups' \subseteq Lookup
      /\ \A m \in lookups' : \E n \in lookups : m.of = n.of /\ m.key = n.key
  <2>1. CASE lookups' = lookups \ {l}
    BY <1>2, <2>1
  <2> QED BY <1>1, <1>3, <2>1
<1>5. /\ FormType'
      /\ FillsSame \/ (l.of = Now /\ Fills(form.accountKeys, form.keys, {l.key}))
  <2>1. CASE UNCHANGED form
    BY <2>1, PartsKept DEF FillsSame, Fills
  <2>2. CASE isActive(l.of) /\ form' = [form EXCEPT !.associated = {l.key}]
    <3>1. {l.key} \in SUBSET Keys
      BY <1>2
    <3> QED BY <2>2, <3>1, Linked DEF FormType, isActive
  <2> QED BY <1>1, <2>1, <2>2
<1>6. InputsType' /\ ImportsType' /\ PageType'
  BY <1>4, TypeParts, PartsKept DEF lookupAnswers, InputsType
<1> QED BY <1>1, <1>4, <1>5, <1>6, TypeParts

\* The page and its input stay, or are reset.
InputsStay == UNCHANGED <<page, chosen, reads, lookups>> /\ FillsSame
InputsReset ==
    /\ Reset /\ Newer /\ Fills({}, {}, {}) /\ chosen' = NoInput
    /\ reads' \subseteq reads /\ UNCHANGED lookups

\* The form changes or not, but neither page nor input.
LEMMA StillTypes ==
    ASSUME TypeOK, UNCHANGED <<page, chosen, reads, lookups>>
    PROVE  /\ PageType' /\ InputsType'
           /\ UNCHANGED form => FormType' /\ InputsStay
BY PartsKept DEF InputsStay, FillsSame, Fills

\* Where an import ends or goes on, with all else of it.
GoesTo(i, at) ==
    Moves(i, [at |-> at, asked |-> imports[i].asked, of |-> imports[i].of,
              confirmed |-> imports[i].confirmed, keys |-> imports[i].keys])

\* The end of an import.
Ends(i) == GoesTo(i, "ended") /\ Finish(i)

\* The flag stays a flag.
LEMMA FinishTypes ==
    ASSUME NEW i \in Ids, Finish(i)
    PROVE  importing' \in BOOLEAN /\ overlap' \in BOOLEAN
<1>1. importing' \in BOOLEAN
  BY DEF Finish
<1>2. overlap' \in BOOLEAN
  BY DEF Finish
<1> QED BY <1>1, <1>2

\* _saveImport: names are updated, or an import of what the page keeps begins.
LEMMA ConfirmedType ==
    ASSUME TypeOK, NEW i \in Ids, _saveImport(i)
    PROVE  /\ TypeOK' /\ UNCHANGED <<page, chosen, reads, lookups, overlap>>
           /\ Shown /\ form.keys # {}
           /\ \/ /\ importing'
                 /\ Moves(i, [at |-> "dupLookups", asked |-> Now, of |-> Now,
                              confirmed |-> form.pubs \cap stored, keys |-> {}])
                 /\ FillsSame
              \/ /\ UNCHANGED importing
                 /\ \E A \in SUBSET form.keys :
                       /\ A # {} /\ Fills(form.accountKeys, A, form.associated)
                       /\ Moves(i, [at |-> "unlocking", asked |-> Now, of |-> Now,
                                    confirmed |-> A, keys |-> {}])
<1> DEFINE dups == form.pubs \cap stored
           rest == form.pubs \ stored
           job(at, keys) == [at |-> at, asked |-> Now, of |-> Now, confirmed |-> keys, keys |-> {}]
<1>1. UNCHANGED <<page, chosen, reads, lookups, timeout, stored, overlap>>
  BY DEF _saveImport
<1>2. Shown /\ form.keys # {}
  BY DEF _saveImport
<1>3. form.pubs \subseteq form.keys /\ form.keys \subseteq Keys /\ Now \in Stamps
  BY Parts DEF TypeOK, Forms
<1>4. ASSUME imports' \in [Ids -> Jobs], importing' \in BOOLEAN
      PROVE  ImportsType'
  BY <1>1, <1>4, TypeParts DEF ImportsType
<1>5. ASSUME NEW at \in Places, NEW S \in SUBSET Keys, imports' = [imports EXCEPT ![i] = job(at, S)]
      PROVE  Moves(i, job(at, S))
  <2>1. job(at, S) \in Jobs
    BY <1>3 DEF Jobs
  <2> QED BY <2>1, <1>5, Moved
<1>6. CASE rest = {}
  <2>1. /\ importing' = TRUE /\ imports' = [imports EXCEPT ![i] = job("dupLookups", dups)]
        /\ form' = [form EXCEPT !.pubs = {}]
    BY <1>6 DEF _saveImport
  <2>2. Moves(i, job("dupLookups", dups))
    BY <2>1, <1>3, <1>5 DEF Places
  <2>3. FormType' /\ FillsSame
    BY <2>1, FieldSet DEF FormType, FillsSame
  <2>4. importing' /\ importing' \in BOOLEAN
    BY <2>1
  <2>5. ImportsType'
    BY <2>2, <2>4, <1>4 DEF Moves
  <2> QED BY <1>1, <1>2, <2>2, <2>3, <2>4, <2>5, StillTypes, TypeParts
<1>7. CASE rest # {}
  <2> DEFINE A == form.keys \ dups
  <2>1. /\ UNCHANGED importing /\ imports' = [imports EXCEPT ![i] = job("unlocking", A)]
        /\ form' = [form EXCEPT !.pubs = @ \ dups, !.keys = @ \ dups]
    BY <1>7 DEF _saveImport, WithoutDups
  <2>2. A \in SUBSET form.keys /\ A \in SUBSET Keys /\ form.pubs \ dups \in SUBSET A /\ A # {}
    BY <1>3, <1>7
  <2>3. Moves(i, job("unlocking", A))
    BY <2>1, <2>2, <1>5 DEF Places
  <2>4. FormType' /\ Fills(form.accountKeys, A, form.associated)
    BY <2>1, <2>2, KeysSet DEF FormType
  <2>5. ImportsType'
    BY <2>1, <2>3, <1>4, TypeParts DEF Moves, ImportsType
  <2> QED BY <1>1, <1>2, <2>1, <2>2, <2>3, <2>4, <2>5, StillTypes, TypeParts
<1> QED BY <1>6, <1>7

\* The answer to unlock(): the import goes on to its timer, or ends.
LEMMA UnlockedType ==
    ASSUME TypeOK, NEW i \in Ids, unlocked(i)
    PROVE  /\ TypeOK' /\ InputsStay /\ UNCHANGED overlap
           /\ imports[i].at = "unlocking"
           /\ \/ isMounted(imports[i].of) /\ GoesTo(i, "timer") /\ importing'
              \/ GoesTo(i, "ended") /\ UNCHANGED importing
<1>1. /\ UNCHANGED <<page, form, chosen, reads, lookups, stored, overlap>>
      /\ imports[i].at = "unlocking"
  BY DEF unlocked
<1>2. CASE isMounted(imports[i].of) /\ Goto(i, "timer") /\ importing' = TRUE /\ timeout' = i
  <2>1. GoesTo(i, "timer")
    BY <1>2, Moved DEF Places, GoesTo
  <2>2. timeout' \in 0..MaxImports
    BY <1>2, ImportPageAssumption DEF Ids
  <2>3. importing' \in BOOLEAN
    BY <1>2
  <2>4. ImportsType'
    BY <1>1, <2>1, <2>2, <2>3, TypeParts DEF GoesTo, Moves, ImportsType
  <2> QED BY <1>1, <1>2, <2>1, <2>4, StillTypes, TypeParts
<1>3. CASE Goto(i, "ended") /\ UNCHANGED <<importing, timeout>>
  <2>1. GoesTo(i, "ended")
    BY <1>3, Moved DEF Places, GoesTo
  <2>2. ImportsType'
    BY <1>1, <1>3, <2>1, TypeParts DEF GoesTo, Moves, ImportsType
  <2> QED BY <1>1, <1>3, <2>1, <2>2, StillTypes, TypeParts
<1> QED BY <1>2, <1>3 DEF unlocked

\* The timer: the lookups are waited for, or the import ends.
LEMMA TimerType ==
    ASSUME TypeOK, NEW i \in Ids, timerFires(i)
    PROVE  /\ TypeOK' /\ InputsStay
           /\ imports[i].at = "timer"
           /\ \/ /\ isMounted(imports[i].of) /\ UNCHANGED <<importing, overlap>>
                 /\ Moves(i, [at |-> "lookups", asked |-> imports[i].asked, of |-> Now,
                              confirmed |-> imports[i].confirmed, keys |-> imports[i].keys])
              \/ Ends(i)
<1>1. UNCHANGED <<page, form, chosen, reads, lookups, stored>> /\ imports[i].at = "timer"
  BY DEF timerFires
<1>2. CASE isMounted(imports[i].of)
  <2>1. /\ imports' = [imports EXCEPT ![i].at = "lookups", ![i].of = Now]
        /\ timeout' = 0 /\ UNCHANGED <<importing, overlap>>
    BY <1>2 DEF timerFires
  <2>2. Moves(i, [at |-> "lookups", asked |-> imports[i].asked, of |-> Now,
                  confirmed |-> imports[i].confirmed, keys |-> imports[i].keys])
    BY <2>1, Moved DEF Places
  <2>3. timeout' \in 0..MaxImports
    BY <2>1, ImportPageAssumption
  <2>4. ImportsType'
    BY <1>1, <2>1, <2>2, <2>3, TypeParts DEF Moves, ImportsType
  <2> QED BY <1>1, <1>2, <2>1, <2>2, <2>4, StillTypes, TypeParts
<1>3. CASE ~ isMounted(imports[i].of)
  <2>1. Goto(i, "ended") /\ Finish(i) /\ UNCHANGED timeout
    BY <1>3 DEF timerFires
  <2>2. GoesTo(i, "ended")
    BY <2>1, Moved DEF Places, GoesTo
  <2>3. ImportsType'
    BY <1>1, <2>1, <2>2, FinishTypes, TypeParts DEF GoesTo, Moves, ImportsType
  <2> QED BY <1>1, <2>1, <2>2, <2>3, StillTypes, TypeParts DEF Ends
<1> QED BY <1>2, <1>3

\* saveImport: the page is reset and the worker begins, or the import ends.
LEMMA SaveType ==
    ASSUME TypeOK, NEW i \in Ids, saveImport(i)
    PROVE  /\ TypeOK' /\ UNCHANGED <<importing, overlap>>
           /\ imports[i].at = "lookups"
           /\ \/ /\ isMounted(imports[i].of) /\ Settled(i) /\ InputsReset
                 /\ Moves(i, [at |-> "worker", asked |-> imports[i].asked, of |-> Now',
                              confirmed |-> imports[i].confirmed, keys |-> form.keys])
              \/ InputsStay /\ GoesTo(i, "ended")
<1>1. UNCHANGED <<lookups, timeout, importing, stored, overlap>> /\ imports[i].at = "lookups"
  BY DEF saveImport
<1>2. CASE isMounted(imports[i].of)
  <2>1. /\ reset
        /\ imports' = [imports EXCEPT ![i].at = "worker", ![i].keys = form.keys, ![i].of = Now']
    BY <1>2 DEF saveImport, startWorker
  <2>2. PageType' /\ FormType' /\ InputsReset
    BY <2>1, <1>1, ResetType DEF InputsReset
  <2>3. Now' \in Stamps /\ form.keys \in SUBSET Keys
    BY <2>2, NextStamp, Parts DEF Forms
  <2>4. Moves(i, [at |-> "worker", asked |-> imports[i].asked, of |-> Now',
                  confirmed |-> imports[i].confirmed, keys |-> form.keys])
    BY <2>1, <2>3, Moved DEF Places
  <2>5. ImportsType'
    BY <1>1, <2>4, TypeParts DEF Moves, ImportsType
  <2>6. InputsType'
    BY <1>1, <2>2, ChosenTypes, TypeParts DEF InputsReset, InputsType
  <2> QED BY <1>1, <1>2, <2>2, <2>4, <2>5, <2>6, TypeParts DEF saveImport
<1>3. CASE ~ isMounted(imports[i].of)
  <2>1. Goto(i, "ended") /\ UNCHANGED <<page, form, chosen, reads>>
    BY <1>3 DEF saveImport
  <2>2. GoesTo(i, "ended")
    BY <2>1, Moved DEF Places, GoesTo
  <2>3. ImportsType'
    BY <1>1, <2>2, TypeParts DEF GoesTo, Moves, ImportsType
  <2> QED BY <1>1, <2>1, <2>2, <2>3, StillTypes, TypeParts
<1> QED BY <1>2, <1>3

\* The worker answers: the import ends.
LEMMA WorkerType ==
    ASSUME TypeOK, NEW i \in Ids, workerAnswers(i)
    PROVE  TypeOK' /\ InputsStay /\ Ends(i)
<1>1. UNCHANGED <<page, chosen, reads, lookups, timeout>> /\ Goto(i, "ended") /\ Finish(i)
  BY DEF workerAnswers
<1>2. Ends(i)
  BY <1>1, Moved DEF Places, GoesTo, Ends
<1>3. FormType' /\ FillsSame
  <2>1. (form.success \/ isActive(imports[i].of)) \in BOOLEAN
    OBVIOUS
  <2>2. CASE form' = [form EXCEPT !.success = @ \/ isActive(imports[i].of)]
    BY <2>1, <2>2, FieldSet DEF FormType, FillsSame
  <2>3. CASE UNCHANGED form
    BY <2>3, PartsKept DEF FillsSame, Fills
  <2> QED BY <2>2, <2>3 DEF workerAnswers
<1>4. stored' \subseteq Keys
  <2>1. imports[i].keys \subseteq Keys /\ stored \subseteq Keys
    BY Parts, TypeParts DEF Jobs, ImportsType
  <2> QED BY <2>1 DEF workerAnswers
<1>5. ImportsType'
  BY <1>1, <1>2, <1>4, FinishTypes, TypeParts DEF Ends, GoesTo, Moves, ImportsType
<1> QED BY <1>1, <1>2, <1>3, <1>5, StillTypes, TypeParts DEF InputsStay

\* An exception of the worker: the import never ends.
LEMMA ThrowsType ==
    ASSUME TypeOK, NEW i \in Ids, workerThrows(i)
    PROVE  TypeOK' /\ InputsStay /\ UNCHANGED <<importing, overlap>> /\ GoesTo(i, "swallowed")
<1>1. GoesTo(i, "swallowed")
  BY Moved DEF Places, GoesTo, workerThrows
<1>2. ImportsType'
  BY <1>1, TypeParts DEF workerThrows, GoesTo, Moves, ImportsType
<1> QED BY <1>1, <1>2, StillTypes, TypeParts DEF workerThrows

\* updateAccounts: the names are on their way.
LEMMA UpdateType ==
    ASSUME TypeOK, NEW i \in Ids, updateAccounts(i)
    PROVE  /\ TypeOK' /\ InputsStay /\ UNCHANGED <<importing, overlap>>
           /\ imports[i].at = "dupLookups" /\ GoesTo(i, "updating")
<1>1. GoesTo(i, "updating")
  BY Moved DEF Places, GoesTo, updateAccounts
<1>2. ImportsType'
  BY <1>1, TypeParts DEF updateAccounts, GoesTo, Moves, ImportsType
<1> QED BY <1>1, <1>2, StillTypes, TypeParts DEF updateAccounts

\* The names are updated: the import ends, and the page is reset if it is shown.
LEMMA UpdatedType ==
    ASSUME TypeOK, NEW i \in Ids, accountsUpdated(i)
    PROVE  /\ TypeOK' /\ imports[i].at = "updating" /\ Ends(i)
           /\ InputsStay \/ (InputsReset /\ isMounted(imports[i].of))
<1>1. Ends(i)
  BY Moved DEF Places, GoesTo, Ends, accountsUpdated
<1>2. ImportsType'
  BY <1>1, FinishTypes, TypeParts DEF accountsUpdated, Ends, GoesTo, Moves, ImportsType
<1>3. CASE UNCHANGED <<page, form, chosen, reads>>
  BY <1>1, <1>2, <1>3, StillTypes, TypeParts DEF accountsUpdated
<1>4. CASE /\ isMounted(imports[i].of)
           /\ invalidate /\ chosen' = NoInput
           /\ form' = [EmptyForm(form.filtering) EXCEPT !.success = TRUE]
  <2>1. PageType' /\ Reset /\ Newer
    BY <1>4, PageRenewed DEF invalidate, PageType, Reset, Newer
  <2>2. form.filtering \in BOOLEAN
    BY Parts DEF Forms
  <2>3. FormType' /\ Fills({}, {}, {})
    BY <2>2, <1>4 DEF EmptyForm, FormType, Forms, Fills
  <2>4. reads' \subseteq reads /\ UNCHANGED lookups
    BY <1>4 DEF invalidate, cancelReader, accountsUpdated
  <2>5. InputsType'
    BY <2>4, <1>4, ChosenTypes, TypeParts DEF InputsType
  <2> QED BY <1>1, <1>2, <1>4, <2>1, <2>3, <2>4, <2>5, TypeParts DEF InputsReset, accountsUpdated
<1> QED BY <1>3, <1>4 DEF accountsUpdated

\* Nothing changes.
LEMMA StutterType == ASSUME TypeOK, UNCHANGED importPageVars PROVE TypeOK' /\ InputsStay
BY DEF TypeOK, importPageVars, InputsStay, FillsSame, Fills

\* Every step keeps the types.
LEMMA TypesKept == ASSUME TypeOK, [Next]_importPageVars PROVE TypeOK'
<1>1. CASE fileAnswers \/ lookupAnswers
  BY <1>1, FileType, LookupType
<1>2. CASE \E k \in Keys : onWif(k)
  BY <1>2, WifType
<1>3. CASE \E file \in Files : upload(file)
  BY <1>3, UploadType
<1>4. CASE \E i \in Ids : _saveImport(i) \/ unlocked(i) \/ importGoesOn(i)
  <2>1. PICK i \in Ids : _saveImport(i) \/ unlocked(i) \/ importGoesOn(i)
    BY <1>4
  <2>2. CASE _saveImport(i) \/ unlocked(i)
    BY <2>2, ConfirmedType, UnlockedType
  <2>3. CASE importGoesOn(i)
    BY <2>3, TimerType, SaveType, WorkerType, ThrowsType, UpdateType, UpdatedType DEF importGoesOn
  <2> QED BY <2>1, <2>2, <2>3
<1> QED BY <1>1, <1>2, <1>3, <1>4, MountType, UnmountType, CancelType, PasswordType, StutterType
        DEF Next

-----------------------------------------------------------------------------
(* The stamps.                                                             *)

\* The past stays the past; a reset or another page makes it of all that was.
LEMMA StampsAge ==
    ASSUME TypeOK, TypeOK', UNCHANGED page \/ Newer, NEW stamp \in Stamps
    PROVE  /\ Past(stamp) => Past(stamp)' /\ stamp # Now
           /\ Known(stamp) => Known(stamp)'
           /\ Newer /\ Known(stamp) => Past(stamp)' /\ stamp # Now'
<1>1. /\ page.no \in Nat /\ page.version \in Nat /\ page'.no \in Nat /\ page'.version \in Nat
      /\ stamp[1] \in Nat /\ stamp[2] \in Nat /\ stamp = <<stamp[1], stamp[2]>>
  BY ImportPageAssumption DEF TypeOK, Stamps
<1>2. stamp = Now <=> stamp[1] = page.no /\ stamp[2] = page.version
  BY <1>1 DEF Now
<1>3. stamp = Now' <=> stamp[1] = page'.no /\ stamp[2] = page'.version
  BY <1>1 DEF Now
<1>4. CASE UNCHANGED page /\ ~ Newer
  BY <1>1, <1>2, <1>3, <1>4 DEF Past, Known
<1>5. CASE Newer
  BY <1>1, <1>2, <1>3, <1>5 DEF Past, Known, Newer
<1> QED BY <1>4, <1>5

\* What a step may do to stamps.
StampsStep ==
    /\ UNCHANGED page \/ Newer
    /\ \A r \in reads' : r.of = Now' \/ \E s \in reads : r.of = s.of
    /\ \A l \in lookups' : l.of = Now' \/ \E m \in lookups : l.of = m.of
    /\ \A i \in Ids : /\ imports'[i].of \in {imports[i].of, Now, Now'}
                      /\ imports'[i].asked \in {imports[i].asked, Now}

\* Such a step keeps all stamps of this moment or of the past.
LEMMA StampsKept ==
    ASSUME TypeOK, TypeOK', StampInv, StampsStep
    PROVE  StampInv'
<1>1. /\ \A r \in reads : r.of \in Stamps
      /\ \A l \in lookups : l.of \in Stamps
      /\ \A i \in Ids : imports[i].of \in Stamps /\ imports[i].asked \in Stamps
      /\ Now \in Stamps
  BY Parts DEF TypeOK, Jobs
<1>2. \A stamp \in Stamps : Known(stamp) => Known(stamp)'
  BY StampsAge DEF StampsStep
<1>3. Known(Now) /\ \A stamp : stamp = Now' => Known(stamp)'
  BY DEF Known
<1>4. \A r \in reads' : Known(r.of)'
  BY <1>1, <1>2, <1>3 DEF StampInv, StampsStep
<1>5. \A l \in lookups' : Known(l.of)'
  BY <1>1, <1>2, <1>3 DEF StampInv, StampsStep
<1>6. \A i \in Ids : Known(imports[i].of)' /\ Known(imports[i].asked)'
  BY <1>1, <1>2, <1>3 DEF StampInv, StampsStep
<1> QED BY <1>4, <1>5, <1>6 DEF StampInv

-----------------------------------------------------------------------------
(* What the user put in last.                                              *)

\* Nothing of the page changes.
LEMMA InputKept ==
    ASSUME InputInv, InputsStay
    PROVE  InputInv'
<1>1. Now' = Now /\ page' = page /\ chosen' = chosen /\ reads' = reads /\ lookups' = lookups
  BY DEF Now, InputsStay
<1>2. /\ form'.accountKeys = form.accountKeys /\ form'.keys = form.keys
      /\ form'.associated = form.associated
  BY DEF InputsStay, FillsSame, Fills
<1> QED BY <1>1, <1>2 DEF InputInv, CurrentInput

\* The page is reset, or another one, or a file is chosen: nothing is valid but
\* that file.
LEMMA InputReset ==
    ASSUME TypeOK, TypeOK', StampInv, Newer, Fills({}, {}, {}), UNCHANGED lookups,
           \A r \in reads' : r \in reads \/ (r.of = Now' /\ r.file = chosen' /\ ~ page'.privateKey),
           \A r, s \in reads' : r \in reads \/ s \in reads \/ r = s
    PROVE  InputInv'
<1>1. /\ \A r \in reads : r.of # Now'
      /\ \A l \in lookups : l.of # Now'
  BY StampsAge DEF StampInv, TypeOK
<1>2. form'.accountKeys = {} /\ form'.keys = {} /\ form'.associated = {}
  BY DEF Fills
<1>3. CurrentInput'
  BY <1>2 DEF CurrentInput
<1> QED BY <1>1, <1>2, <1>3 DEF InputInv

\* The page is left: nothing is valid.
LEMMA InputLeft ==
    ASSUME TypeOK, TypeOK', StampInv, InputInv, Newer, page'.privateKey = page.privateKey,
           UNCHANGED <<form, chosen, lookups>>, reads' \subseteq reads
    PROVE  InputInv'
<1>1. /\ \A r \in reads : r.of # Now'
      /\ \A l \in lookups : l.of # Now'
  BY StampsAge DEF StampInv, TypeOK
<1> QED BY <1>1 DEF InputInv, CurrentInput

\* A key is pasted.
LEMMA InputPasted ==
    ASSUME TypeOK, InputInv, NEW k \in Keys, onWif(k)
    PROVE  InputInv'
<1>1. /\ form'.accountKeys = form.accountKeys /\ form'.keys = form.keys \cup {k}
      /\ form'.associated = form.associated
      /\ \A l \in lookups' : l \in lookups \/ (l.of = Now /\ l.key = k)
  BY WifType DEF Fills
<1>2. /\ UNCHANGED <<page, reads>> /\ page.privateKey /\ form.keys = {} /\ chosen' = Pasted(k)
      /\ Now' = Now
  BY DEF onWif, Inputs, Now
<1>3. form.accountKeys = {} /\ form.associated = {}
  BY <1>2 DEF InputInv
<1>4. chosen'.keys = {k}
  BY <1>2 DEF Pasted
<1>5. \A l \in lookups : l.of # Now
  BY <1>2 DEF InputInv
<1>6. \A r \in reads : r.of # Now
  BY <1>2 DEF InputInv
<1> QED BY <1>1, <1>2, <1>3, <1>4, <1>5, <1>6 DEF InputInv, CurrentInput

\* A password is entered.
LEMMA InputOpened ==
    ASSUME TypeOK, InputInv, enterPassword
    PROVE  InputInv'
<1>1. form'.accountKeys = {} /\ form'.keys = form.accountKeys /\ form'.associated = form.accountKeys
  BY PasswordType DEF Fills
<1>2. /\ UNCHANGED <<page, chosen, reads, lookups>> /\ form.accountKeys # {} /\ ~ page.privateKey
      /\ Now' = Now
  BY DEF enterPassword, Now
<1>3. \A r \in reads : r.of # Now
  BY <1>2 DEF InputInv
<1> QED BY <1>1, <1>2, <1>3 DEF InputInv, CurrentInput

\* A valid file was the only one, and the page was empty: what it fills is of it.
LEMMA InputRead ==
    ASSUME TypeOK, InputInv, NEW r \in reads, r.of = Now, FileIsRead(r),
           UNCHANGED <<page, chosen>>
    PROVE  InputInv'
<1>1. /\ r.file = chosen /\ ~ page.privateKey /\ form.keys = {} /\ form.accountKeys = {}
      /\ \A s \in reads : s.of = Now => s = r
      /\ \A l \in lookups : l.of # Now
  BY DEF InputInv
<1>2. Now' = Now /\ form.associated \subseteq chosen.keys
  BY DEF Now, InputInv, CurrentInput
<1>3. CASE /\ \A s \in reads' : (s \in reads /\ s # r) \/ (s.of = r.of /\ s.file = r.file)
           /\ \A s, t \in reads' : s \in reads \ {r} \/ t \in reads \ {r} \/ s = t
           /\ FillsSame /\ UNCHANGED lookups
  <2>1. form'.accountKeys = {} /\ form'.keys = {} /\ form'.associated = form.associated
    BY <1>1, <1>3 DEF FillsSame, Fills
  <2>2. /\ \A s \in reads' : s.of = Now => s.file = r.file
        /\ \A s, t \in reads' : s.of = Now /\ t.of = Now => s = t
    BY <1>1, <1>3
  <2> QED BY <1>1, <1>2, <1>3, <2>1, <2>2 DEF InputInv, CurrentInput
<1>4. CASE /\ reads' = reads \ {r} /\ UNCHANGED lookups
           /\ \E S \in SUBSET r.file.keys :
                 \/ Fills(form.accountKeys, form.keys \cup S, form.associated \cup S)
                 \/ Fills(S, form.keys, form.associated)
  <2>1. PICK S \in SUBSET r.file.keys :
           \/ Fills(form.accountKeys, form.keys \cup S, form.associated \cup S)
           \/ Fills(S, form.keys, form.associated)
    BY <1>4
  <2>2. form'.accountKeys \cup form'.keys \cup form'.associated \subseteq chosen.keys
    BY <1>1, <1>2, <2>1 DEF Fills
  <2>3. \A s \in reads' : s.of # Now
    BY <1>1, <1>4
  <2> QED BY <1>1, <1>2, <1>4, <2>2, <2>3 DEF InputInv, CurrentInput
<1>5. CASE /\ reads' = reads \ {r}
           /\ \E k \in r.file.keys :
                 /\ Fills(form.accountKeys, form.keys \cup {k}, form.associated)
                 /\ \A l \in lookups' : l \in lookups \/ (l.of = Now /\ l.key = k)
  <2>1. PICK k \in r.file.keys :
           /\ Fills(form.accountKeys, form.keys \cup {k}, form.associated)
           /\ \A l \in lookups' : l \in lookups \/ (l.of = Now /\ l.key = k)
    BY <1>5
  <2>2. form'.accountKeys \cup form'.keys \cup form'.associated \subseteq chosen.keys
    BY <1>1, <1>2, <2>1 DEF Fills
  <2>3. form'.keys # {}
    BY <2>1 DEF Fills
  <2>4. \A s \in reads' : s.of # Now
    BY <1>1, <1>5
  <2> QED BY <1>1, <1>2, <2>1, <2>2, <2>3, <2>4 DEF InputInv, CurrentInput
<1> QED BY <1>3, <1>4, <1>5 DEF FileIsRead

\* A step of a file: it was the only valid one, or it leaves the page alone.
LEMMA InputFile ==
    ASSUME TypeOK, InputInv, fileAnswers
    PROVE  InputInv' /\ StampsStep
<1>1. PICK r \in reads : \/ r.of = Now /\ FileIsRead(r)
                         \/ reads' = reads \ {r} /\ UNCHANGED <<form, lookups>>
  BY FileType
<1>2. UNCHANGED <<page, chosen, imports>>
  BY DEF fileAnswers
<1>3. CASE r.of = Now /\ FileIsRead(r)
  <2>1. InputInv'
    BY <1>1, <1>2, <1>3, InputRead
  <2>2. /\ \A s \in reads' : \E t \in reads : s.of = t.of
        /\ \A l \in lookups' : l.of = Now' \/ \E m \in lookups : l.of = m.of
    BY <1>1, <1>2, <1>3 DEF FileIsRead, Now
  <2> QED BY <1>2, <2>1, <2>2 DEF StampsStep
<1>4. CASE reads' = reads \ {r} /\ UNCHANGED <<form, lookups>>
  <2>1. Now' = Now
    BY <1>2 DEF Now
  <2> QED BY <1>2, <1>4, <2>1 DEF InputInv, CurrentInput, StampsStep
<1> QED BY <1>1, <1>3, <1>4

\* A step of a lookup: what it links is of the input.
LEMMA InputLookup ==
    ASSUME TypeOK, InputInv, lookupAnswers
    PROVE  InputInv' /\ StampsStep
<1>1. /\ \A l \in lookups' : \E m \in lookups : l.of = m.of /\ l.key = m.key
      /\ \/ FillsSame
         \/ \E l \in lookups : l.of = Now /\ Fills(form.accountKeys, form.keys, {l.key})
  BY LookupType
<1>2. UNCHANGED <<page, chosen, reads, imports>> /\ Now' = Now
  BY DEF lookupAnswers, Now
<1>3. /\ form'.accountKeys = form.accountKeys /\ form'.keys = form.keys
      /\ \/ form'.associated = form.associated
         \/ form'.associated \subseteq chosen.keys /\ form.keys # {}
  BY <1>1 DEF FillsSame, Fills, InputInv
<1>4. InputInv'
  <2>1. CurrentInput'
    BY <1>2, <1>3 DEF InputInv, CurrentInput
  <2>2. \A l \in lookups' : l.of = Now' => l.key \in chosen'.keys /\ form'.keys # {}
    BY <1>1, <1>2, <1>3 DEF InputInv
  <2> QED BY <1>2, <1>3, <2>1, <2>2 DEF InputInv
<1> QED BY <1>1, <1>2, <1>4 DEF StampsStep

\* The button leaves keys on the page, or all of them.
LEMMA InputConfirmed ==
    ASSUME TypeOK, InputInv, NEW i \in Ids, _saveImport(i)
    PROVE  InputInv' /\ StampsStep
<1>1. UNCHANGED <<page, chosen, reads, lookups>> /\ form.keys # {} /\ Now' = Now
  BY ConfirmedType DEF Now
<1>2. /\ form'.accountKeys = form.accountKeys /\ form'.associated = form.associated
      /\ form'.keys \subseteq form.keys /\ form'.keys # {}
  BY <1>1, ConfirmedType DEF FillsSame, Fills
<1>3. \A r \in reads : r.of # Now
  BY <1>1 DEF InputInv
<1>4. InputInv'
  <2>1. CurrentInput'
    BY <1>1, <1>2 DEF InputInv, CurrentInput
  <2> QED BY <1>1, <1>2, <1>3, <2>1 DEF InputInv
<1>5. \A j \in Ids : /\ imports'[j].of \in {imports[j].of, Now}
                     /\ imports'[j].asked \in {imports[j].asked, Now}
  <2>1. PICK at, S : Moves(i, [at |-> at, asked |-> Now, of |-> Now, confirmed |-> S, keys |-> {}])
    BY ConfirmedType
  <2>2. imports'[i].of = Now /\ imports'[i].asked = Now
    BY <2>1 DEF Moves
  <2> QED BY <2>1, <2>2 DEF Moves
<1> QED BY <1>1, <1>4, <1>5 DEF StampsStep

\* An import moves, and the page stays or is reset.
LEMMA MovesStamps ==
    ASSUME NEW i \in Ids, NEW at, NEW of \in {imports[i].of, Now, Now'}, NEW confirmed, NEW keys,
           Moves(i, [at |-> at, asked |-> imports[i].asked, of |-> of, confirmed |-> confirmed,
                     keys |-> keys]),
           InputsStay \/ InputsReset
    PROVE  StampsStep
<1>1. imports'[i].of = of /\ imports'[i].asked = imports[i].asked
  BY DEF Moves
<1>2. \A j \in Ids : /\ imports'[j].of \in {imports[j].of, Now, Now'}
                     /\ imports'[j].asked \in {imports[j].asked, Now}
  BY <1>1 DEF Moves
<1>3. /\ UNCHANGED page \/ Newer
      /\ reads' \subseteq reads /\ lookups' = lookups
  BY DEF InputsStay, InputsReset
<1> QED BY <1>2, <1>3 DEF StampsStep

\* Whether the page stays or is reset, what is on it is of what was put in last.
LEMMA StaysOrResets ==
    ASSUME TypeOK, TypeOK', StampInv, InputInv, InputsStay \/ InputsReset
    PROVE  InputInv'
<1>1. CASE InputsStay
  BY <1>1, InputKept
<1>2. CASE InputsReset
  BY <1>2, InputReset DEF InputsReset
<1> QED BY <1>1, <1>2

\* An import that goes on.
LEMMA InputImport ==
    ASSUME TypeOK, StampInv, InputInv, NEW i \in Ids, unlocked(i) \/ importGoesOn(i)
    PROVE  InputInv' /\ StampsStep
<1>1. TypeOK' /\ (InputsStay \/ InputsReset)
  BY UnlockedType, TimerType, SaveType, WorkerType, ThrowsType, UpdateType, UpdatedType
     DEF importGoesOn
<1>2. InputInv'
  BY <1>1, StaysOrResets
<1>3. \A at : GoesTo(i, at) => StampsStep
  BY <1>1, MovesStamps DEF GoesTo
<1>4. CASE unlocked(i)
  BY <1>2, <1>3, <1>4, UnlockedType
<1>5. CASE timerFires(i)
  <2>1. CASE Moves(i, [at |-> "lookups", asked |-> imports[i].asked, of |-> Now,
                       confirmed |-> imports[i].confirmed, keys |-> imports[i].keys])
    BY <1>1, <1>2, <2>1, MovesStamps
  <2>2. CASE Ends(i)
    BY <1>2, <1>3, <2>2 DEF Ends
  <2> QED BY <1>5, <2>1, <2>2, TimerType
<1>6. CASE saveImport(i)
  <2>1. CASE Moves(i, [at |-> "worker", asked |-> imports[i].asked, of |-> Now',
                       confirmed |-> imports[i].confirmed, keys |-> form.keys])
    BY <1>1, <1>2, <2>1, MovesStamps
  <2>2. CASE GoesTo(i, "ended")
    BY <1>2, <1>3, <2>2
  <2> QED BY <1>6, <2>1, <2>2, SaveType
<1>7. CASE workerAnswers(i) \/ workerThrows(i) \/ updateAccounts(i) \/ accountsUpdated(i)
  BY <1>2, <1>3, <1>7, WorkerType, ThrowsType, UpdateType, UpdatedType DEF Ends
<1> QED BY <1>4, <1>5, <1>6, <1>7 DEF importGoesOn

\* Every step keeps the stamps and what the page shows.
LEMMA InputsKept ==
    ASSUME TypeOK, TypeOK', StampInv, InputInv, [Next]_importPageVars
    PROVE  InputInv' /\ StampInv'
<1> SUFFICES InputInv' /\ StampsStep
  BY StampsKept
<1>1. CASE componentDidMount
  <2>1. /\ Newer /\ Fills({}, {}, {})
        /\ UNCHANGED <<reads, lookups, imports>>
    BY <1>1, MountType DEF componentDidMount
  <2>2. InputInv'
    BY <2>1, InputReset
  <2> QED BY <2>1, <2>2 DEF StampsStep
<1>2. CASE componentWillUnmount
  <2>1. /\ UNCHANGED <<form, chosen, lookups>> /\ reads' \subseteq reads
        /\ Newer /\ page'.privateKey = page.privateKey
    BY <1>2, UnmountType DEF componentWillUnmount, cancelReader
  <2>2. InputInv'
    BY <2>1, InputLeft
  <2> QED BY <1>2, <2>1, <2>2, UnmountType DEF StampsStep
<1>3. CASE onCancel
  <2>1. /\ Newer /\ Fills({}, {}, {}) /\ chosen' = NoInput /\ reads' \subseteq reads
        /\ UNCHANGED <<lookups, imports>>
    BY <1>3, CancelType DEF onCancel
  <2>2. InputInv'
    BY <2>1, InputReset
  <2> QED BY <2>1, <2>2 DEF StampsStep
<1>4. CASE fileAnswers \/ lookupAnswers
  BY <1>4, InputFile, InputLookup
<1>5. CASE enterPassword
  BY <1>5, InputOpened DEF enterPassword, StampsStep
<1>6. CASE \E k \in Keys : onWif(k)
  <2>1. PICK k \in Keys : onWif(k)
    BY <1>6
  <2>2. /\ UNCHANGED <<page, reads, imports>> /\ Now' = Now
        /\ \A l \in lookups' : l \in lookups \/ (l.of = Now /\ l.key = k)
    BY <2>1, WifType DEF onWif, Now
  <2> QED BY <2>1, <2>2, InputPasted DEF StampsStep
<1>7. CASE \E file \in Files : upload(file)
  <2>1. PICK file \in Files : upload(file)
    BY <1>7
  <2>2. /\ Newer /\ Reset /\ Fills({}, {}, {}) /\ chosen' = file /\ ~ page.privateKey
        /\ UNCHANGED <<lookups, imports>>
        /\ \A r \in reads' : r \in reads \/ (r.of = Now' /\ r.file = file)
        /\ \A r, s \in reads' : r \in reads \/ s \in reads \/ r = s
    BY <2>1, UploadType DEF upload
  <2>3. ~ page'.privateKey
    BY <2>2 DEF Reset
  <2>4. InputInv'
    BY <2>2, <2>3, InputReset
  <2> QED BY <2>2, <2>4 DEF StampsStep
<1>8. CASE \E i \in Ids : _saveImport(i) \/ unlocked(i) \/ importGoesOn(i)
  BY <1>8, InputConfirmed, InputImport
<1>9. CASE UNCHANGED importPageVars
  <2>1. InputInv'
    BY <1>9, StutterType, InputKept
  <2> QED BY <1>9, <2>1 DEF importPageVars, StampsStep
<1> QED BY <1>1, <1>2, <1>3, <1>4, <1>5, <1>6, <1>7, <1>8, <1>9 DEF Next

-----------------------------------------------------------------------------
(* The imports.                                                            *)

\* The past is not now.
LEMMA PastIsOver ==
    ASSUME TypeOK, NEW stamp, Past(stamp)
    PROVE  stamp # Now
<1>1. page.no \in Nat /\ page.version \in Nat
  BY ImportPageAssumption DEF TypeOK
<1> QED BY <1>1 DEF Past, Now

\* A worker has what was confirmed, in the past.
LEMMA WorkerStays ==
    ASSUME TypeOK, TypeOK', ImportInv, NEW i \in Ids, imports[i].at = "worker",
           imports'[i] = imports[i], UNCHANGED lookups, UNCHANGED page \/ Newer
    PROVE  /\ imports'[i].keys = imports'[i].confirmed
           /\ Past(imports[i].asked)' /\ \A l \in lookups' : l.of # imports'[i].asked
<1>1. /\ imports[i].keys = imports[i].confirmed
      /\ Past(imports[i].asked) /\ \A l \in lookups : l.of # imports[i].asked
  BY DEF ImportInv
<1>2. imports[i].asked \in Stamps /\ imports'[i].asked = imports[i].asked
  BY Parts DEF Jobs
<1>3. \A s \in Stamps : Past(s) => Past(s)'
  BY StampsAge
<1>4. Past(imports[i].asked)'
  BY <1>1, <1>2, <1>3 DEF Past
<1> QED BY <1>1, <1>4

\* Imports and page stay; the form may fill while nobody waits with it, and keys
\* are looked up.
LEMMA ImportsAside ==
    ASSUME TypeOK, ImportInv, UNCHANGED <<page, imports, importing>>,
           form'.keys = form.keys \/ ~ \E i \in Ids : Waiting(i),
           \A l \in lookups' : l.of = Now \/ \E m \in lookups : l.of = m.of
    PROVE  ImportInv'
<1>1. Now' = Now
  BY DEF Now
<1>2. \A i \in Ids : /\ UnderWay(i)' <=> UnderWay(i)
                     /\ Active(i)' <=> Active(i)
                     /\ Waiting(i)' <=> Waiting(i)
                     /\ Past(imports[i].asked)' <=> Past(imports[i].asked)
  BY DEF UnderWay, Active, Waiting, isMounted, Past
<1>3. \A i \in Ids : Past(imports[i].asked) => imports[i].asked # Now
  BY PastIsOver
<1>4. \A i \in Ids : UnderWay(i)' => importing'
  BY <1>2 DEF ImportInv
<1>5. \A i, j \in Ids : Active(i)' /\ Active(j)' => i = j
  BY <1>2 DEF ImportInv
<1>6. \A i \in Ids : Waiting(i)' =>
         /\ imports'[i].asked = Now' /\ imports'[i].of = Now'
         /\ imports'[i].confirmed = form'.keys /\ form'.keys # {}
  BY <1>1, <1>2 DEF ImportInv
<1>7. \A i \in Ids : imports'[i].at = "worker" =>
         /\ imports'[i].keys = imports'[i].confirmed
         /\ Past(imports[i].asked)' /\ \A l \in lookups' : l.of # imports'[i].asked
  BY <1>2, <1>3 DEF ImportInv
<1> QED BY <1>4, <1>5, <1>6, <1>7 DEF ImportInv

\* The page is reset or another one while no import is active on it, or is left.
LEMMA ImportsBehind ==
    ASSUME TypeOK, TypeOK', ImportInv, StampInv, Newer, UNCHANGED lookups,
           \A i \in Ids : imports'[i].at = "ended" \/ imports'[i] = imports[i],
           \A i \in Ids : UnderWay(i)' => FALSE,
           \A i \in Ids : imports'[i].at = "unlocking" => ~ isMounted(imports[i].of)'
    PROVE  ImportInv'
<1>1. \A i \in Ids : Active(i)' => Active(i)
  BY DEF Active
<1>2. \A i \in Ids : ~ Waiting(i)'
  BY DEF Waiting, UnderWay
<1>3. \A i \in Ids : imports'[i].at = "worker" =>
         /\ imports'[i].keys = imports'[i].confirmed
         /\ Past(imports[i].asked)' /\ \A l \in lookups' : l.of # imports'[i].asked
  <2> SUFFICES ASSUME NEW i \in Ids, imports'[i].at = "worker"
               PROVE  /\ imports'[i].keys = imports'[i].confirmed
                      /\ Past(imports[i].asked)' /\ \A l \in lookups' : l.of # imports'[i].asked
    OBVIOUS
  <2>1. imports'[i] = imports[i]
    OBVIOUS
  <2> QED BY <2>1, WorkerStays
<1> QED BY <1>1, <1>2, <1>3 DEF ImportInv

\* Nobody is active on a page that can be used.
LEMMA NobodyActive ==
    ASSUME ImportInv, Shown
    PROVE  \A i \in Ids : ~ Active(i) /\ ~ UnderWay(i) /\ ~ Waiting(i)
BY DEF ImportInv, Shown, Active, UnderWay, Waiting

\* The page is reset by the user.
LEMMA ImportsReset ==
    ASSUME TypeOK, TypeOK', ImportInv, StampInv, Shown, Reset, Newer, UNCHANGED <<lookups, imports>>
    PROVE  ImportInv'
<1>1. \A i \in Ids : isMounted(imports[i].of)' <=> isMounted(imports[i].of)
  BY DEF isMounted, Reset
<1>2. \A i \in Ids : UnderWay(i)' <=> UnderWay(i)
  BY <1>1 DEF UnderWay
<1>3. \A i \in Ids : imports'[i].at # "unlocking"
  BY DEF Shown
<1> QED BY <1>2, <1>3, NobodyActive, ImportsBehind

\* Another page is opened, and the stamps are of earlier ones.
LEMMA ImportsMount ==
    ASSUME TypeOK, StampInv, ImportInv, componentDidMount
    PROVE  ImportInv'
<1>1. /\ TypeOK' /\ Newer /\ page'.no = page.no + 1 /\ UNCHANGED <<lookups, imports>>
  BY MountType DEF componentDidMount
<1>2. \A i \in Ids : imports[i].of \in Stamps /\ Known(imports[i].of)
  BY Parts DEF StampInv, Jobs
<1>3. \A i \in Ids : imports[i].of[1] # page'.no
  <2>1. page.no \in Nat
    BY ImportPageAssumption DEF TypeOK
  <2>2. \A s \in Stamps : Known(s) => s[1] \in Nat /\ s[1] =< page.no
    BY <2>1, ImportPageAssumption DEF Known, Past, Stamps, Now
  <2> QED BY <1>1, <1>2, <2>1, <2>2
<1>4. \A i \in Ids : ~ isMounted(imports[i].of)'
  BY <1>1, <1>3 DEF isMounted
<1> QED BY <1>1, <1>4, ImportsBehind DEF UnderWay

\* The page is left: the flag is cleared, and nobody is under way.
LEMMA ImportsUnmount ==
    ASSUME TypeOK, StampInv, ImportInv, componentWillUnmount
    PROVE  ImportInv'
<1>1. /\ TypeOK' /\ Newer /\ ~ page'.mounted /\ UNCHANGED lookups
      /\ \A i \in Ids : imports'[i].at = "ended" \/ imports'[i] = imports[i]
  BY UnmountType DEF componentWillUnmount
<1>2. \A i \in Ids : ~ isMounted(imports[i].of)'
  BY <1>1 DEF isMounted
<1> QED BY <1>1, <1>2, ImportsBehind DEF UnderWay

\* An import ends or is left, and the flag with it, or another would be under way.
LEMMA ImportEnded ==
    ASSUME TypeOK, TypeOK', StampInv, ImportInv, NEW i \in Ids,
           GoesTo(i, "ended") \/ GoesTo(i, "swallowed"),
           \/ UNCHANGED importing
           \/ \A j \in Ids \ {i} : ~ UnderWay(j),
           \/ InputsStay
           \/ InputsReset /\ UnderWay(i)
    PROVE  ImportInv'
<1>1. /\ imports'[i].at \in {"ended", "swallowed"}
      /\ \A j \in Ids : j # i => imports'[j] = imports[j]
  BY DEF GoesTo, Moves
<1>2. /\ page'.no = page.no /\ page'.mounted = page.mounted /\ UNCHANGED lookups
      /\ UNCHANGED page \/ Newer
  BY DEF InputsStay, InputsReset, Reset
<1>3. \A j \in Ids : /\ UnderWay(j)' => UnderWay(j) /\ j # i
                     /\ Active(j)' => Active(j) /\ j # i
                     /\ Waiting(j)' => Waiting(j) /\ j # i
  BY <1>1, <1>2 DEF UnderWay, Active, Waiting, isMounted
<1>4. \A j \in Ids : Waiting(j)' =>
         /\ imports'[j].asked = Now' /\ imports'[j].of = Now'
         /\ imports'[j].confirmed = form'.keys /\ form'.keys # {}
  <2>1. CASE InputsStay
    <3>1. Now' = Now /\ form'.keys = form.keys
      BY <2>1 DEF InputsStay, FillsSame, Fills, Now
    <3> QED BY <1>1, <1>3, <3>1 DEF ImportInv
  <2>2. CASE InputsReset /\ UnderWay(i)
    <3>1. \A j \in Ids : j # i => ~ Active(j)
      BY <2>2 DEF ImportInv, Active
    <3>2. \A j \in Ids : Waiting(j) => Active(j)
      BY DEF Waiting, Active, UnderWay
    <3> QED BY <1>3, <3>1, <3>2
  <2> QED BY <2>1, <2>2
<1>5. \A j \in Ids : UnderWay(j)' => importing'
  BY <1>3 DEF ImportInv
<1>6. \A j, k \in Ids : Active(j)' /\ Active(k)' => j = k
  BY <1>3 DEF ImportInv
<1>7. \A j \in Ids : imports'[j].at = "worker" =>
         /\ imports'[j].keys = imports'[j].confirmed
         /\ Past(imports[j].asked)' /\ \A l \in lookups' : l.of # imports'[j].asked
  <2> SUFFICES ASSUME NEW j \in Ids, imports'[j].at = "worker"
               PROVE  /\ imports'[j].keys = imports'[j].confirmed
                      /\ Past(imports[j].asked)' /\ \A l \in lookups' : l.of # imports'[j].asked
    OBVIOUS
  <2>1. imports'[j] = imports[j]
    BY <1>1
  <2> QED BY <2>1, <1>2, WorkerStays
<1> QED BY <1>4, <1>5, <1>6, <1>7 DEF ImportInv

\* The only import that is active moves on, on the page that it was confirmed on.
LEMMA ImportMoves ==
    ASSUME TypeOK, TypeOK', ImportInv, NEW i \in Ids, NEW job, Moves(i, job), job.at # "worker",
           UNCHANGED <<page, lookups>>,
           \A j \in Ids \ {i} : ~ Active(j),
           UnderWay(i)' => importing',
           job.at \in {"unlocking", "timer", "lookups"} /\ isMounted(job.of) =>
              job.asked = Now /\ job.of = Now /\ job.confirmed = form'.keys /\ form'.keys # {}
    PROVE  ImportInv'
<1>1. imports'[i] = job /\ \A j \in Ids : j # i => imports'[j] = imports[j]
  BY DEF Moves
<1>2. Now' = Now
  BY DEF Now
<1>3. \A j \in Ids : /\ UnderWay(j)' => j = i
                     /\ Active(j)' => j = i
                     /\ Waiting(j)' => j = i
  BY <1>1 DEF UnderWay, Active, Waiting, isMounted
<1>4. \A j \in Ids : Waiting(j)' =>
         /\ imports'[j].asked = Now' /\ imports'[j].of = Now'
         /\ imports'[j].confirmed = form'.keys /\ form'.keys # {}
  BY <1>1, <1>2, <1>3 DEF Waiting, isMounted
<1>5. \A j \in Ids : imports'[j].at = "worker" =>
         /\ imports'[j].keys = imports'[j].confirmed
         /\ Past(imports[j].asked)' /\ \A l \in lookups' : l.of # imports'[j].asked
  <2> SUFFICES ASSUME NEW j \in Ids, imports'[j].at = "worker"
               PROVE  /\ imports'[j].keys = imports'[j].confirmed
                      /\ Past(imports[j].asked)' /\ \A l \in lookups' : l.of # imports'[j].asked
    OBVIOUS
  <2>1. imports'[j] = imports[j]
    BY <1>1
  <2> QED BY <2>1, WorkerStays
<1>6. \A j \in Ids : UnderWay(j)' => importing'
  BY <1>3
<1>7. \A j, k \in Ids : Active(j)' /\ Active(k)' => j = k
  BY <1>3
<1> QED BY <1>4, <1>5, <1>6, <1>7 DEF ImportInv

\* The button is clicked when nobody is active.
LEMMA ImportConfirmed ==
    ASSUME TypeOK, ImportInv, NEW i \in Ids, _saveImport(i)
    PROVE  ImportInv'
<1>1. /\ TypeOK' /\ UNCHANGED <<page, lookups>> /\ Shown
      /\ \A j \in Ids : ~ Active(j)
  BY ConfirmedType, NobodyActive
<1>2. CASE /\ importing'
           /\ Moves(i, [at |-> "dupLookups", asked |-> Now, of |-> Now,
                        confirmed |-> form.pubs \cap stored, keys |-> {}])
  BY <1>1, <1>2, ImportMoves
<1>3. CASE \E A \in SUBSET form.keys :
              /\ A # {} /\ Fills(form.accountKeys, A, form.associated)
              /\ Moves(i, [at |-> "unlocking", asked |-> Now, of |-> Now,
                           confirmed |-> A, keys |-> {}])
  <2>1. PICK A \in SUBSET form.keys :
           /\ A # {} /\ Fills(form.accountKeys, A, form.associated)
           /\ Moves(i, [at |-> "unlocking", asked |-> Now, of |-> Now,
                        confirmed |-> A, keys |-> {}])
    BY <1>3
  <2>2. form'.keys = A /\ imports'[i].at = "unlocking"
    BY <2>1 DEF Fills, Moves
  <2>3. ~ UnderWay(i)'
    BY <2>2 DEF UnderWay
  <2> QED BY <1>1, <2>1, <2>2, <2>3, ImportMoves
<1> QED BY <1>2, <1>3, ConfirmedType

\* Whoever clears the flag is the only one under way, unless it is an overlap.
LEMMA EndsAlone ==
    ASSUME NEW i \in Ids, Ends(i), ~ overlap'
    PROVE  ~ overlap /\ \A j \in Ids \ {i} : ~ UnderWay(j)
BY DEF Ends, Finish

\* The worker gets the keys of the page, which is as it was when they were confirmed.
LEMMA ImportStarts ==
    ASSUME TypeOK, TypeOK', StampInv, ImportInv, NEW i \in Ids, imports[i].at = "lookups",
           UNCHANGED importing,
           isMounted(imports[i].of), Settled(i), InputsReset,
           Moves(i, [at |-> "worker", asked |-> imports[i].asked, of |-> Now',
                     confirmed |-> imports[i].confirmed, keys |-> form.keys])
    PROVE  ImportInv'
<1>1. Waiting(i) /\ UnderWay(i) /\ Active(i)
  BY DEF Waiting, UnderWay, Active
<1>2. /\ imports[i].asked = Now /\ imports[i].of = Now
      /\ imports[i].confirmed = form.keys /\ form.keys # {}
  BY <1>1 DEF ImportInv
<1>3. importing' /\ \A j \in Ids : j # i => ~ Active(j)
  BY <1>1 DEF ImportInv
<1>4. /\ imports'[i].at = "worker" /\ imports'[i].asked = Now
      /\ imports'[i].confirmed = form.keys /\ imports'[i].keys = form.keys
      /\ \A j \in Ids : j # i => imports'[j] = imports[j]
  BY <1>2 DEF Moves
<1>5. Newer /\ UNCHANGED lookups /\ page'.no = page.no /\ page'.mounted = page.mounted
  BY DEF InputsReset, Reset
<1>6. \A j \in Ids : (Active(j)' => j = i) /\ (UnderWay(j)' => j = i) /\ ~ Waiting(j)'
  BY <1>3, <1>4, <1>5 DEF Active, UnderWay, Waiting, isMounted
<1>7. Past(imports[i].asked)'
  <2>1. \A s \in Stamps : Known(s) => Past(s)'
    BY <1>5, StampsAge
  <2>2. Now \in Stamps /\ Known(Now)
    BY Parts DEF Known
  <2> QED BY <1>4, <2>1, <2>2 DEF Past
<1>8. \A l \in lookups' : l.of # Now
  BY <1>2, <1>5 DEF Settled
<1>9. \A j \in Ids : imports'[j].at = "worker" =>
         /\ imports'[j].keys = imports'[j].confirmed
         /\ Past(imports[j].asked)' /\ \A l \in lookups' : l.of # imports'[j].asked
  <2>1. ASSUME NEW j \in Ids, j # i, imports'[j].at = "worker"
        PROVE  /\ imports'[j].keys = imports'[j].confirmed
               /\ Past(imports[j].asked)' /\ \A l \in lookups' : l.of # imports'[j].asked
    BY <2>1, <1>4, <1>5, WorkerStays
  <2> QED BY <2>1, <1>4, <1>7, <1>8
<1>10. \A j \in Ids : UnderWay(j)' => importing'
  BY <1>3
<1>11. \A j, k \in Ids : Active(j)' /\ Active(k)' => j = k
  BY <1>6
<1> QED BY <1>6, <1>9, <1>10, <1>11 DEF ImportInv

\* Names are updated instead of keys, whether the page is still shown or not.
LEMMA ImportUpdates ==
    ASSUME TypeOK, TypeOK', ImportInv, NEW i \in Ids, imports[i].at = "dupLookups",
           InputsStay, UNCHANGED importing, GoesTo(i, "updating")
    PROVE  ImportInv'
<1>1. /\ imports'[i].at = "updating" /\ imports'[i].of = imports[i].of
      /\ \A j \in Ids : j # i => imports'[j] = imports[j]
  BY DEF GoesTo, Moves
<1>2. /\ UNCHANGED <<page, lookups>> /\ form'.keys = form.keys /\ Now' = Now
  BY DEF InputsStay, FillsSame, Fills, Now
<1>3. \A j \in Ids : /\ UnderWay(j)' <=> UnderWay(j)
                     /\ Active(j)' <=> Active(j)
                     /\ Waiting(j)' => Waiting(j) /\ j # i
  BY <1>1, <1>2 DEF UnderWay, Active, Waiting, isMounted
<1>4. \A j \in Ids : Waiting(j)' =>
         /\ imports'[j].asked = Now' /\ imports'[j].of = Now'
         /\ imports'[j].confirmed = form'.keys /\ form'.keys # {}
  BY <1>1, <1>2, <1>3 DEF ImportInv
<1>5. \A j \in Ids : imports'[j].at = "worker" =>
         /\ imports'[j].keys = imports'[j].confirmed
         /\ Past(imports[j].asked)' /\ \A l \in lookups' : l.of # imports'[j].asked
  <2> SUFFICES ASSUME NEW j \in Ids, imports'[j].at = "worker"
               PROVE  /\ imports'[j].keys = imports'[j].confirmed
                      /\ Past(imports[j].asked)' /\ \A l \in lookups' : l.of # imports'[j].asked
    OBVIOUS
  <2>1. imports'[j] = imports[j]
    BY <1>1
  <2> QED BY <1>2, <2>1, WorkerStays
<1>6. \A j \in Ids : UnderWay(j)' => importing'
  BY <1>3 DEF ImportInv
<1>7. \A j, k \in Ids : Active(j)' /\ Active(k)' => j = k
  BY <1>3 DEF ImportInv
<1> QED BY <1>4, <1>5, <1>6, <1>7 DEF ImportInv

\* An import goes on, and nobody overlaps.
LEMMA ImportGoesOn ==
    ASSUME TypeOK, StampInv, overlap \/ ImportInv, NEW i \in Ids, unlocked(i) \/ importGoesOn(i)
    PROVE  overlap' \/ ImportInv'
<1>1. CASE unlocked(i)
  <2>1. /\ TypeOK' /\ InputsStay /\ UNCHANGED overlap /\ imports[i].at = "unlocking"
    BY <1>1, UnlockedType
  <2> SUFFICES ASSUME ImportInv PROVE ImportInv'
    BY <2>1
  <2>2. \A j \in Ids \ {i} : ~ Active(j)
    BY <2>1 DEF ImportInv, Active
  <2>3. CASE isMounted(imports[i].of) /\ GoesTo(i, "timer") /\ importing'
    <3>1. Waiting(i)
      BY <2>1, <2>3 DEF Waiting
    <3>2. /\ imports[i].asked = Now /\ imports[i].of = Now
          /\ imports[i].confirmed = form.keys /\ form.keys # {}
      BY <3>1 DEF ImportInv
    <3>3. UNCHANGED <<page, lookups>> /\ form'.keys = form.keys
      BY <2>1 DEF InputsStay, FillsSame, Fills
    <3> QED BY <2>1, <2>2, <2>3, <3>2, <3>3, ImportMoves DEF GoesTo
  <2>4. CASE GoesTo(i, "ended") /\ UNCHANGED importing
    BY <2>1, <2>4, ImportEnded
  <2> QED BY <1>1, <2>3, <2>4, UnlockedType
<1>2. CASE timerFires(i)
  <2>1. TypeOK' /\ InputsStay /\ imports[i].at = "timer"
    BY <1>2, TimerType
  <2>2. CASE /\ isMounted(imports[i].of) /\ UNCHANGED <<importing, overlap>>
             /\ Moves(i, [at |-> "lookups", asked |-> imports[i].asked, of |-> Now,
                          confirmed |-> imports[i].confirmed, keys |-> imports[i].keys])
    <3> SUFFICES ASSUME ImportInv PROVE ImportInv'
      BY <2>2
    <3>1. Waiting(i) /\ UnderWay(i)
      BY <2>1, <2>2 DEF Waiting, UnderWay
    <3>2. /\ imports[i].asked = Now /\ imports[i].of = Now
          /\ imports[i].confirmed = form.keys /\ form.keys # {}
      BY <3>1 DEF ImportInv
    <3>3. UNCHANGED <<page, lookups>> /\ form'.keys = form.keys
      BY <2>1 DEF InputsStay, FillsSame, Fills
    <3>4. importing' /\ \A j \in Ids \ {i} : ~ Active(j)
      BY <2>2, <3>1 DEF ImportInv, Active
    <3> QED BY <2>1, <2>2, <3>2, <3>3, <3>4, ImportMoves
  <2>3. CASE Ends(i)
    BY <2>1, <2>3, EndsAlone, ImportEnded DEF Ends
  <2> QED BY <1>2, <2>2, <2>3, TimerType
<1>3. CASE saveImport(i)
  <2>1. TypeOK' /\ UNCHANGED <<importing, overlap>> /\ imports[i].at = "lookups"
    BY <1>3, SaveType
  <2> SUFFICES ASSUME ImportInv PROVE ImportInv'
    BY <2>1
  <2>2. CASE /\ isMounted(imports[i].of) /\ Settled(i) /\ InputsReset
             /\ Moves(i, [at |-> "worker", asked |-> imports[i].asked, of |-> Now',
                          confirmed |-> imports[i].confirmed, keys |-> form.keys])
    BY <2>1, <2>2, ImportStarts
  <2>3. CASE InputsStay /\ GoesTo(i, "ended")
    BY <2>1, <2>3, ImportEnded
  <2> QED BY <1>3, <2>2, <2>3, SaveType
<1>4. CASE workerAnswers(i)
  <2>1. TypeOK' /\ InputsStay /\ Ends(i)
    BY <1>4, WorkerType
  <2> QED BY <2>1, EndsAlone, ImportEnded DEF Ends
<1>5. CASE workerThrows(i)
  BY <1>5, ThrowsType, ImportEnded
<1>6. CASE updateAccounts(i)
  <2>1. /\ TypeOK' /\ InputsStay /\ UNCHANGED <<importing, overlap>>
        /\ imports[i].at = "dupLookups" /\ GoesTo(i, "updating")
    BY <1>6, UpdateType
  <2> SUFFICES ASSUME ImportInv PROVE ImportInv'
    BY <2>1
  <2> QED BY <2>1, ImportUpdates
<1>7. CASE accountsUpdated(i)
  <2>1. /\ TypeOK' /\ imports[i].at = "updating" /\ Ends(i)
        /\ InputsStay \/ (InputsReset /\ isMounted(imports[i].of))
    BY <1>7, UpdatedType
  <2>2. InputsStay \/ (InputsReset /\ UnderWay(i))
    BY <2>1 DEF UnderWay
  <2> QED BY <2>1, <2>2, EndsAlone, ImportEnded DEF Ends
<1> QED BY <1>1, <1>2, <1>3, <1>4, <1>5, <1>6, <1>7 DEF importGoesOn

\* Every step keeps the imports apart, or overlaps.
LEMMA ImportsKept ==
    ASSUME TypeOK, StampInv, InputInv, overlap \/ ImportInv, [Next]_importPageVars
    PROVE  overlap' \/ ImportInv'
<1>1. CASE \E i \in Ids : unlocked(i) \/ importGoesOn(i)
  BY <1>1, ImportGoesOn
<1>2. CASE UNCHANGED importPageVars
  <2>1. UNCHANGED overlap /\ (ImportInv => ImportInv')
    BY <1>2, ImportsAside DEF importPageVars
  <2> QED BY <2>1
<1>3. CASE \/ componentDidMount \/ componentWillUnmount \/ onCancel
           \/ fileAnswers \/ enterPassword \/ lookupAnswers
           \/ (\E k \in Keys : onWif(k)) \/ (\E file \in Files : upload(file))
           \/ \E i \in Ids : _saveImport(i)
  <2>1. UNCHANGED overlap
    BY <1>3, ConfirmedType DEF componentDidMount, componentWillUnmount, onCancel, fileAnswers,
       enterPassword, lookupAnswers, onWif, upload
  <2> SUFFICES ASSUME ImportInv PROVE ImportInv'
    BY <2>1
  <2>2. CASE componentDidMount \/ componentWillUnmount
    BY <2>2, ImportsMount, ImportsUnmount
  <2>3. CASE onCancel
    BY <2>3, CancelType, ImportsReset DEF onCancel
  <2>4. CASE \E file \in Files : upload(file)
    BY <2>4, UploadType, ImportsReset DEF upload, Inputs
  <2>5. CASE fileAnswers
    <3>1. PICK r \in reads : \/ r.of = Now /\ FileIsRead(r)
                             \/ reads' = reads \ {r} /\ UNCHANGED <<form, lookups>>
      BY <2>5, FileType
    <3>2. UNCHANGED <<page, imports, importing>>
      BY <2>5 DEF fileAnswers
    <3>3. CASE r.of = Now /\ FileIsRead(r)
      <4>1. form.keys = {}
        BY <3>1, <3>3 DEF InputInv
      <4>2. ~ \E i \in Ids : Waiting(i)
        BY <4>1 DEF ImportInv
      <4>3. \A l \in lookups' : l.of = Now \/ \E m \in lookups : l.of = m.of
        BY <3>3 DEF FileIsRead
      <4> QED BY <3>2, <4>2, <4>3, ImportsAside
    <3>4. CASE UNCHANGED <<form, lookups>>
      BY <3>2, <3>4, ImportsAside
    <3> QED BY <3>1, <3>3, <3>4
  <2>6. CASE enterPassword
    BY <2>6, NobodyActive, ImportsAside DEF enterPassword, Inputs
  <2>7. CASE lookupAnswers
    <3>1. /\ form'.keys = form.keys
          /\ \A l \in lookups' : \E m \in lookups : l.of = m.of
      BY <2>7, LookupType DEF FillsSame, Fills
    <3> QED BY <2>7, <3>1, ImportsAside DEF lookupAnswers
  <2>8. CASE \E k \in Keys : onWif(k)
    <3>1. PICK k \in Keys : onWif(k)
      BY <2>8
    <3>2. \A l \in lookups' : l.of = Now \/ \E m \in lookups : l.of = m.of
      BY <3>1, WifType
    <3> QED BY <3>1, <3>2, NobodyActive, ImportsAside DEF onWif, Inputs
  <2>9. CASE \E i \in Ids : _saveImport(i)
    BY <2>9, ImportConfirmed
  <2> QED BY <1>3, <2>2, <2>3, <2>4, <2>5, <2>6, <2>7, <2>8, <2>9
<1> QED BY <1>1, <1>2, <1>3 DEF Next

-----------------------------------------------------------------------------
(* The theorems.                                                           *)

\* No page was opened and nothing is under way.
LEMMA PageInit == Init => PageInv
<1> SUFFICES ASSUME Init PROVE PageInv
  OBVIOUS
<1>1. /\ page = [no |-> 0, mounted |-> FALSE, version |-> 0, privateKey |-> TRUE]
      /\ form = EmptyForm(FALSE) /\ chosen = NoInput /\ reads = {} /\ lookups = {}
      /\ imports = [i \in Ids |-> [at |-> "idle", asked |-> Now, of |-> Now, confirmed |-> {},
                                   keys |-> {}]]
      /\ timeout = 0 /\ importing = FALSE /\ overlap = FALSE /\ stored \subseteq Keys
  BY DEF Init
<1>2. PageType /\ Now \in Stamps
  <2>1. page \in Pages
    <3>1. 0 \in 0..MaxPages /\ 0 \in Nat /\ FALSE \in BOOLEAN /\ TRUE \in BOOLEAN
      BY ImportPageAssumption
    <3> QED BY <1>1, <3>1 DEF Pages
  <2> QED BY <2>1 DEF PageType, Pages, Now, Stamps
<1>3. FormType /\ form.keys = {} /\ form.accountKeys = {} /\ form.associated = {}
  BY <1>1 DEF EmptyForm, FormType, Forms
<1>4. [at |-> "idle", asked |-> Now, of |-> Now, confirmed |-> {}, keys |-> {}] \in Jobs
  BY <1>2 DEF Jobs, Places
<1>5. /\ imports \in [Ids -> Jobs]
      /\ \A i \in Ids : imports[i].at = "idle" /\ imports[i].of = Now /\ imports[i].asked = Now
  BY <1>1, <1>4
<1>6. importing \in BOOLEAN /\ overlap \in BOOLEAN
  BY <1>1
<1>7. TypeOK
  <2>1. InputsType
    BY <1>1, ChosenTypes DEF InputsType
  <2>2. ImportsType
    <3>1. timeout \in 0..MaxImports
      BY <1>1, ImportPageAssumption
    <3>2. stored \subseteq Keys
      BY <1>1
    <3> QED BY <1>5, <1>6, <3>1, <3>2 DEF ImportsType
  <2> QED BY <1>2, <1>3, <2>1, <2>2, TypeParts
<1>8. StampInv
  BY <1>1, <1>5 DEF StampInv, Known
<1>9. InputInv
  BY <1>1, <1>3 DEF InputInv, CurrentInput
<1>10. ImportInv
  BY <1>5 DEF ImportInv, UnderWay, Active, Waiting
<1> QED BY <1>7, <1>8, <1>9, <1>10 DEF PageInv

\* Every step keeps the invariant.
LEMMA PageInvKept == PageInv /\ [Next]_importPageVars => PageInv'
BY TypesKept, InputsKept, ImportsKept DEF PageInv

\* Page, files, lookups and imports keep their types, for any keys, files and bounds.
THEOREM PageTypes == Spec => []TypeOK
<1>1. PageInv => TypeOK
  BY DEF PageInv
<1> QED BY <1>1, PageInit, PageInvKept, PTL DEF Spec

\* What the page shows is of what the user put in last, in whatever order files,
\* filters and lookups answer and however often the page is reset or left
\* (ImportKeys.jsx and RestoreAsyncGuard.js).
THEOREM InputIsCurrent == Spec => []CurrentInput
<1>1. PageInv => CurrentInput
  BY DEF PageInv, InputInv
<1> QED BY <1>1, PageInit, PageInvKept, PTL DEF Spec

\* A worker gets the keys that were confirmed, and no lookup of their page is under
\* way, until two imports overlap (ImportKeys._saveImport and saveImport).
THEOREM ConfirmedKeysAreImported == Spec => []ConfirmedIsImported
<1>1. PageInv => ConfirmedIsImported
  BY DEF PageInv, ImportInv, ConfirmedIsImported
<1> QED BY <1>1, PageInit, PageInvKept, PTL DEF Spec
=============================================================================
