------------------------ MODULE WalletManager_proofs ------------------------
(***************************************************************************)
(* Theorems about WalletManager: its type invariant; that a wallet which   *)
(* is stored, or is opened next time, can be found in the list of names    *)
(* on disk (Listed); and that the databases, the shown wallet, the         *)
(* accounts and RAM agree when nothing is under way (Agree).               *)
(***************************************************************************)
EXTENDS WalletManager, SequenceTheorems, TLAPS

-----------------------------------------------------------------------------
(* The inductive invariant.                                                *)

Active(c) == call[c].at \notin Ended
Asks(r, by) == r.kind = "open" /\ r.by = by
Writes(r, by) == r.kind = "current" /\ r.by = by

\* A call has one request under way at most, the one its phase waits for.
OneOpen ==
    \A c \in Calls : \A i \in DOMAIN requests : Asks(requests[i], c) =>
        /\ call[c].at \in {"restoring", "opening"}
        /\ \A j \in DOMAIN requests : Asks(requests[j], c) => i = j
        /\ \A j \in DOMAIN rootQueue : ~ Asks(rootQueue[j], c)
OneQueued ==
    \A c \in Calls : \A i \in DOMAIN rootQueue : Asks(rootQueue[i], c) =>
        /\ call[c].at = "opening"
        /\ \A j \in DOMAIN rootQueue : Asks(rootQueue[j], c) => i = j
OneWrite ==
    \A c \in Calls : \A i \in DOMAIN rootQueue : Writes(rootQueue[i], c) =>
        /\ call[c].at \in {"writing", "failed"} /\ rootQueue[i].current = call[c].wallet
        /\ \A j \in DOMAIN rootQueue : Writes(rootQueue[j], c) => i = j
Running == \A c \in Calls : Active(c) => call[c].wallet \in Wallets /\ connect.ready

\* Nothing is written before the stores are ready, and then the manager has the
\* names of the disk.
Starting ==
    ~ connect.ready =>
        /\ \A i \in DOMAIN rootQueue : rootQueue[i].kind \in {"open", "initCurrent", "initNames"}
        /\ ~ connect.init /\ connect.from # Unset => manager.names = root.names

Tokens == OneOpen /\ OneQueued /\ OneWrite /\ Running /\ Starting

\* Wallets that are on the list, or excepted from it.
Excepted == unlisted \cup overwritten
Covered == root.names \cup Excepted
Names(i) == rootQueue[i].kind = "names"
\* A wallet is deleted by one of the writes after the i-th, up to the k-th.
Lost(w, i, k) ==
    \E m \in DOMAIN rootQueue : i < m /\ m <= k /\ Names(m) /\ w \in rootQueue[m].gone

\* What is stored, in RAM, current on disk or being opened is covered.
HeldCovered ==
    /\ \A d \in Databases : stored[d] \subseteq Covered
    /\ ram # None => ram \in Covered
    /\ root.current \in Wallets => root.current \in Covered
    /\ \A c \in Calls : call[c].at \in {"opening", "loading", "accounts", "creating"}
                           => call[c].wallet \in Covered

\* No write of the list leaves out a wallet of an earlier one, but by a deletion.
ListsKept ==
    \A k \in DOMAIN rootQueue : Names(k) =>
        /\ \A w \in root.names \ Excepted : w \in rootQueue[k].names \/ Lost(w, 0, k)
        /\ \A i \in DOMAIN rootQueue : i < k /\ Names(i) =>
               \A w \in rootQueue[i].names \ overwritten : w \in rootQueue[k].names \/ Lost(w, i, k)

\* The manager shows what the list on disk and its writes have.
ShownKept ==
    connect.ready =>
        /\ \A w \in root.names \ Excepted : w \in manager.names \/ Lost(w, 0, Len(rootQueue))
        /\ \A i \in DOMAIN rootQueue : Names(i) =>
               \A w \in rootQueue[i].names \ overwritten :
                   w \in manager.names \/ Lost(w, i, Len(rootQueue))

\* A wallet is made current, or shown, when a write of the list has it already.
QueuedCovered ==
    /\ \A i \in DOMAIN rootQueue : rootQueue[i].kind = "current" /\ rootQueue[i].current # None =>
           \/ rootQueue[i].current \in Covered
           \/ \E j \in DOMAIN rootQueue : j < i /\ Names(j)
                                           /\ rootQueue[i].current \in rootQueue[j].names
    /\ \A w \in manager.names :
           w \in Covered \/ \E j \in DOMAIN rootQueue : Names(j) /\ w \in rootQueue[j].names

\* No wallet leaves the list but by a deletion, and none is opened before it is listed.
Kept == HeldCovered /\ ListsKept /\ ShownKept /\ QueuedCovered

\* The database of the wallet on disk, and what RAM may have of a database.
Db == PropertyOr(root.current, Default)
RamIsOf(d) == ram \in (IF stored[d] = {} THEN {None} ELSE stored[d])

\* One call at a time, and no connection of the node meanwhile.
Alone ==
    /\ \A b \in Calls : \A c \in Calls : Active(b) /\ Active(c) => b = c
    /\ Switching => ~ Connecting

\* A write of the current wallet, for which its call waits, or the reads of init() are last
\* in the queue.
NamesFirst ==
    /\ \A i \in DOMAIN rootQueue :
          /\ i < Len(rootQueue) => Names(i)
          /\ rootQueue[i].kind = "current" => Waits(rootQueue[i].by)
          /\ rootQueue[i].kind \in {"initCurrent", "initNames"} => connect.init
          /\ rootQueue[i].kind = "initNames" =>
                 rootQueue[i].current = PropertyOr(root.current, None)

\* The manager has the names of the last write, or of the disk.
NamesShown ==
    connect.ready =>
        /\ \A i \in DOMAIN rootQueue :
               Names(i) /\ (\A j \in DOMAIN rootQueue : i < j => ~ Names(j))
                   => manager.names = rootQueue[i].names
        /\ (\A i \in DOMAIN rootQueue : ~ Names(i)) => manager.names = root.names

\* The start of the page opens one database, that of the wallet on disk.
OneStart ==
    /\ \A i \in DOMAIN rootQueue : Asks(rootQueue[i], Start) =>
           ~ connect.ready /\ idb = Unset
    /\ \A i \in DOMAIN requests : Asks(requests[i], Start) =>
           /\ ~ connect.ready /\ idb = Unset /\ requests[i].db = Db
           /\ \A j \in DOMAIN rootQueue : ~ Asks(rootQueue[j], Start)
           /\ \A j \in DOMAIN requests : Asks(requests[j], Start) => i = j

\* How far a call has come, and what has changed so far.
Switch ==
    \A c \in Calls :
        /\ call[c].at \in {"writing", "opening", "loading", "accounts", "creating"}
              => account = call[c].wallet
        /\ call[c].at \in {"opening", "loading", "accounts", "creating"}
              => root.current = call[c].wallet
        /\ call[c].at = "opening" =>
              /\ idb = Unset
              /\ \A i \in DOMAIN requests : Asks(requests[i], c) =>
                                                requests[i].db = call[c].wallet
        /\ call[c].at \in {"loading", "accounts", "creating"}
              => idb = call[c].wallet /\ handle = call[c].wallet
        /\ call[c].at = "loading" => call[c].from = call[c].wallet
        /\ call[c].at = "accounts" /\ ~ call[c].create => RamIsOf(call[c].wallet)

\* How far the start of the page has come.
Loading ==
    ~ connect.ready =>
        /\ idb = Unset => ram = None /\ connect.from = Unset /\ ~ connect.init
        /\ idb # Unset =>
             /\ idb = Db /\ handle = Db
             /\ connect.from # Unset => connect.from = Db /\ ram = None
             /\ connect.from = Unset => RamIsOf(Db)
             /\ ~ connect.init => /\ manager.current = PropertyOr(root.current, None)
                                  /\ account = PropertyOr(root.current, None)

\* Between calls everything is of the wallet on disk.
Calm ==
    connect.ready /\ ~ Switching =>
        /\ idb = Db /\ handle = Db /\ RamIsOf(Db)
        /\ manager.current = PropertyOr(root.current, None) /\ account = manager.current
        /\ connect.from \in {Unset, Db}

\* One thing at a time: the start of the page, nothing, a connection of the node,
\* or one call; and what each of them has reached so far.
Peace == Alone /\ NamesFirst /\ NamesShown /\ OneStart /\ Switch /\ Loading /\ Calm
Undisturbed == ~ disturbed => Peace

IInv == TypeOK /\ Tokens /\ Kept /\ Undisturbed

-----------------------------------------------------------------------------
(* Sequences and requests.                                                 *)

\* A sequence without its first element.
LEMMA TailFacts ==
    ASSUME NEW S, NEW s \in Seq(S), s # <<>>
    PROVE  /\ Len(s) \in Nat \ {0} /\ Head(s) = s[1] /\ s[1] \in S
           /\ Tail(s) \in Seq(S) /\ Len(Tail(s)) = Len(s) - 1
           /\ DOMAIN s = 1..Len(s) /\ DOMAIN Tail(s) = 1..Len(s)-1
           /\ \A i \in 1..Len(s)-1 : Tail(s)[i] = s[i+1]
OBVIOUS

\* A sequence with one element more.
LEMMA AppendFacts ==
    ASSUME NEW S, NEW s \in Seq(S), NEW x \in S
    PROVE  /\ Append(s, x) \in Seq(S) /\ Len(Append(s, x)) = Len(s) + 1 /\ Len(s) \in Nat
           /\ DOMAIN s = 1..Len(s) /\ DOMAIN Append(s, x) = 1..Len(s)+1
           /\ \A i \in 1..Len(s) : Append(s, x)[i] = s[i]
           /\ Append(s, x)[Len(s)+1] = x
OBVIOUS

\* A sequence without its i-th element.
LEMMA RemoveFacts ==
    ASSUME NEW S, NEW s \in Seq(S), NEW i \in DOMAIN s
    PROVE  /\ RemoveAt(s, i) \in Seq(S) /\ Len(RemoveAt(s, i)) = Len(s) - 1 /\ Len(s) \in Nat
           /\ DOMAIN s = 1..Len(s) /\ DOMAIN RemoveAt(s, i) = 1..Len(s)-1
           /\ \A j \in 1..Len(s)-1 : RemoveAt(s, i)[j] = IF j < i THEN s[j] ELSE s[j+1]
<1> DEFINE a == SubSeq(s, 1, i-1)
           b == SubSeq(s, i+1, Len(s))
           r == a \o b
<1>1. Len(s) \in Nat /\ DOMAIN s = 1..Len(s) /\ i \in 1..Len(s) /\ RemoveAt(s, i) = r
  BY DEF RemoveAt
<1>2. a \in Seq(S) /\ Len(a) = i-1 /\ \A j \in 1..i-1 : a[j] = s[j]
  BY <1>1
<1>3. b \in Seq(S) /\ Len(b) = Len(s)-i /\ \A j \in 1..Len(s)-i : b[j] = s[i+j]
  <2>1. b \in Seq(S) /\ Len(b) = Len(s)-i
    BY <1>1
  <2>2. \A j \in 1..Len(s)-i : b[j] = s[i+j]
    BY <1>1
  <2>3. QED BY <2>1, <2>2
<1> HIDE DEF a, b
<1>4. /\ r \in Seq(S) /\ Len(r) = Len(a) + Len(b)
      /\ \A j \in 1..Len(a) + Len(b) : r[j] = IF j <= Len(a) THEN a[j] ELSE b[j - Len(a)]
  BY <1>2, <1>3, ConcatProperties
<1> HIDE DEF r
<1>5. Len(a) + Len(b) = Len(s)-1
  BY <1>1, <1>2, <1>3
<1>6. /\ r \in Seq(S) /\ Len(r) = Len(s)-1
      /\ \A j \in 1..Len(s)-1 : r[j] = IF j <= i-1 THEN a[j] ELSE b[j - (i-1)]
  BY <1>2, <1>4, <1>5
<1>7. DOMAIN r = 1..Len(s)-1
  BY <1>6
<1>8. ASSUME NEW j \in 1..Len(s)-1
      PROVE  r[j] = IF j < i THEN s[j] ELSE s[j+1]
  <2>1. CASE j < i
    BY <2>1, <1>1, <1>2, <1>6
  <2>2. CASE ~ j < i
    <3>1. j-(i-1) \in 1..Len(s)-i /\ i + (j-(i-1)) = j+1 /\ ~ j <= i-1
      BY <2>2, <1>1
    <3>2. QED BY <3>1, <2>2, <1>3, <1>6
  <2>3. QED BY <2>1, <2>2
<1>9. QED BY <1>1, <1>6, <1>7, <1>8

\* What a request of the root database holds.
LEMMA RootRequestFacts ==
    ASSUME NEW r \in RootRequests
    PROVE  /\ r.kind \in {"names", "current", "open", "initCurrent", "initNames"}
           /\ r.kind = "names" => /\ r.names \subseteq Wallets /\ r.gone \subseteq Wallets
                               /\ r.by \in {Unset} \cup Calls
           /\ r.kind = "current" => r.current \in Databases /\ r.by \in {Unset} \cup Calls
           /\ r.kind = "open" => r.by \in {Start} \cup Calls
           /\ r.kind = "initNames" => r.current \in Databases
BY DEF RootRequests

\* The requests that are made.
LEMMA RootRequestsMade ==
    /\ \A names \in SUBSET Wallets : \A gone \in SUBSET Wallets : \A by \in {Unset} \cup Calls :
           /\ PutNames(names, gone, by) \in RootRequests
           /\ PutNames(names, gone, by).kind = "names"
           /\ PutNames(names, gone, by).names = names /\ PutNames(names, gone, by).gone = gone
    /\ \A current \in Databases : \A by \in {Unset} \cup Calls :
           /\ PutCurrent(current, by) \in RootRequests
           /\ PutCurrent(current, by).kind = "current"
           /\ PutCurrent(current, by).current = current /\ PutCurrent(current, by).by = by
    /\ \A by \in {Start} \cup Calls :
           AskOpen(by) \in RootRequests /\ AskOpen(by).kind = "open" /\ AskOpen(by).by = by
    /\ [kind |-> "initCurrent"] \in RootRequests
    /\ \A current \in Databases : [kind |-> "initNames", current |-> current] \in RootRequests
BY DEF RootRequests, PutNames, PutCurrent, AskOpen

Requests == [kind : {"open"}, db : Databases, by : {Start} \cup Calls] \cup
            [kind : {"delete"}, db : Wallets]

\* What a request to open or delete a database holds.
LEMMA RequestFacts ==
    /\ \A r \in Requests :
           /\ r.kind \in {"open", "delete"} /\ r.db \in Databases
           /\ r.kind = "open" => r.by \in {Start} \cup Calls
           /\ r.kind = "delete" => r.db \in Wallets
    /\ \A db \in Databases : \A by \in {Start} \cup Calls :
           [kind |-> "open", db |-> db, by |-> by] \in Requests
    /\ \A db \in Wallets : [kind |-> "delete", db |-> db] \in Requests
BY DEF Requests, Databases

\* Two requests more.
LEMMA AppendTwice ==
    ASSUME NEW S, NEW s \in Seq(S), NEW x \in S, NEW y \in S
    PROVE  /\ s \o <<x, y>> = Append(Append(s, x), y)
           /\ s \o <<x>> \o <<y>> = Append(Append(s, x), y)
           /\ s \o <<>> \o <<y>> = Append(s, y)
<1>1. s \o <<x>> = Append(s, x) /\ Append(s, x) \in Seq(S) /\ s \o <<>> = s
  OBVIOUS
<1>2. \A t \in Seq(S) : t \o <<y>> = Append(t, y)
  OBVIOUS
<1>3. s \o <<x, y>> = Append(Append(s, x), y)
  OBVIOUS
<1>4. QED BY <1>1, <1>2, <1>3

-----------------------------------------------------------------------------
(* Type correctness.                                                       *)

CallRecords == [wallet : Databases, create : BOOLEAN, from : Databases,
                at : Ended \cup {"writing", "opening", "loading", "accounts",
                                 "creating", "restoring", "putting"}]

\* Calls are records, before and after a step of one of them.
LEMMA CallFacts ==
    /\ NoCall \in CallRecords
    /\ \A w \in Databases : \A create \in BOOLEAN :
           [NoCall EXCEPT !.wallet = w, !.create = create] \in CallRecords
    /\ \A at \in Ended : [NoCall EXCEPT !.at = at] \in CallRecords
    /\ \A r \in CallRecords : r.wallet \in Databases
    /\ \A calls \in [Calls -> CallRecords] : \A c \in Calls :
           \A at \in {"failed", "done", "opening", "accounts", "creating"} :
               [calls EXCEPT ![c].at = at] \in [Calls -> CallRecords]
<1>1. NoCall \in CallRecords
  BY DEF CallRecords, NoCall, Databases, Ended
<1>2. \A w \in Databases : \A create \in BOOLEAN :
          [NoCall EXCEPT !.wallet = w, !.create = create] \in CallRecords
  BY DEF CallRecords, NoCall, Databases, Ended
<1>3. \A r \in CallRecords : \A at \in Ended \cup {"failed", "done", "opening", "accounts",
                                               "creating"} :
          r.wallet \in Databases /\ [r EXCEPT !.at = at] \in CallRecords
  BY DEF CallRecords, Ended
<1>4. \A calls \in [Calls -> CallRecords] : \A c \in Calls :
          \A at \in {"failed", "done", "opening", "accounts", "creating"} :
              [calls EXCEPT ![c].at = at] \in [Calls -> CallRecords]
  BY <1>3
<1>5. \A r \in CallRecords : r.wallet \in Databases
  BY <1>3 DEF Ended
<1>6. \A at \in Ended : [NoCall EXCEPT !.at = at] \in CallRecords
  BY <1>1, <1>3
<1>7. QED BY <1>1, <1>2, <1>4, <1>5, <1>6

\* onSetWallet writes the wallet as the current one, after the names if it is new.
LEMMA OnSetWalletQueue ==
    ASSUME TypeOK, NEW c \in Calls, NEW w \in Wallets, NEW to, onSetWallet(c, w, to),
           manager.current # w
    PROVE  /\ PutNames(manager.names \cup {w}, {}, c) \in RootRequests
           /\ PutCurrent(w, c) \in RootRequests
           /\ IF w \in manager.names
              THEN rootQueue' = Append(rootQueue, PutCurrent(w, c))
              ELSE rootQueue' = Append(Append(rootQueue, PutNames(manager.names \cup {w}, {}, c)),
                                       PutCurrent(w, c))
<1>1. /\ rootQueue \in Seq(RootRequests) /\ manager.names \subseteq Wallets
  BY DEF TypeOK
<1>2. PutNames(manager.names \cup {w}, {}, c) \in RootRequests /\ PutCurrent(w, c) \in RootRequests
  BY <1>1, RootRequestsMade DEF Databases
<1>3. rootQueue' = rootQueue
                \o (IF w \in manager.names THEN <<>>
                    ELSE <<PutNames(manager.names \cup {w}, {}, c)>>)
                \o <<PutCurrent(w, c)>>
  BY DEF onSetWallet
<1>4. PICK x \in RootRequests : x = PutNames(manager.names \cup {w}, {}, c)
  BY <1>2
<1>5. PICK y \in RootRequests : y = PutCurrent(w, c)
  BY <1>2
<1>6. CASE w \in manager.names
  <2>1. rootQueue' = rootQueue \o <<>> \o <<y>>
    BY <1>3, <1>5, <1>6
  <2>2. rootQueue' = Append(rootQueue, y)
    BY <1>1, <1>5, <2>1, AppendTwice
  <2>3. QED BY <1>2, <1>5, <1>6, <2>2
<1>7. CASE w \notin manager.names
  <2>1. rootQueue' = rootQueue \o <<x>> \o <<y>>
    BY <1>3, <1>4, <1>5, <1>7
  <2>2. rootQueue' = Append(Append(rootQueue, x), y)
    BY <1>1, <2>1, AppendTwice
  <2>3. QED BY <1>2, <1>4, <1>5, <1>7, <2>2
<1>8. QED BY <1>6, <1>7

\* onSetWallet keeps the types of what it changes.
LEMMA OnSetWalletTypes ==
    ASSUME TypeOK, NEW c \in Calls, NEW w \in Wallets, NEW to, onSetWallet(c, w, to),
           to \in CallRecords
    PROVE  /\ rootQueue' \in Seq(RootRequests)
           /\ manager' \in [names : SUBSET Wallets, current : Databases]
           /\ call' \in [Calls -> CallRecords]
<1>1. CASE manager.current = w
  <2>1. /\ call' = [call EXCEPT ![c] = [to EXCEPT !.at = "done"]]
        /\ manager' = manager /\ rootQueue' = rootQueue
    BY <1>1 DEF onSetWallet
  <2>2. [to EXCEPT !.at = "done"] \in CallRecords
    BY DEF CallRecords, Ended
  <2>3. call \in [Calls -> CallRecords]
    BY DEF TypeOK, CallRecords
  <2>4. QED BY <2>1, <2>2, <2>3 DEF TypeOK
<1>2. CASE manager.current # w
  <2>1. rootQueue' \in Seq(RootRequests)
    <3>1. PICK x \in RootRequests : x = PutNames(manager.names \cup {w}, {}, c)
      BY <1>2, OnSetWalletQueue
    <3>2. PICK y \in RootRequests : y = PutCurrent(w, c)
      BY <1>2, OnSetWalletQueue
    <3>3. rootQueue' = Append(rootQueue, y) \/ rootQueue' = Append(Append(rootQueue, x), y)
      BY <1>2, <3>1, <3>2, OnSetWalletQueue
    <3>4. rootQueue \in Seq(RootRequests)
      BY DEF TypeOK
    <3>5. /\ Append(rootQueue, x) \in Seq(RootRequests)
          /\ Append(rootQueue, y) \in Seq(RootRequests)
      BY <3>4, AppendFacts
    <3>6. Append(Append(rootQueue, x), y) \in Seq(RootRequests)
      BY <3>5, AppendFacts
    <3>7. QED BY <3>3, <3>5, <3>6
  <2>2. manager' \in [names : SUBSET Wallets, current : Databases]
    <3>1. manager' = [manager EXCEPT !.names = @ \cup {w}]
      BY <1>2 DEF onSetWallet
    <3>2. manager \in [names : SUBSET Wallets, current : Databases]
      BY DEF TypeOK
    <3>3. QED BY <3>1, <3>2
  <2>3. call' = [call EXCEPT ![c] = [to EXCEPT !.at = "writing"]]
    BY <1>2 DEF onSetWallet
  <2>4. QED BY <2>1, <2>2, <2>3 DEF TypeOK, CallRecords
<1>3. QED BY <1>1, <1>2

\* The root database answers.
LEMMA RootAnswersTypes ==
    ASSUME TypeOK, rootAnswers
    PROVE  TypeOK'
<1>1. /\ rootQueue \in Seq(RootRequests) /\ rootQueue # <<>>
  BY DEF TypeOK, rootAnswers, CallRecords
<1>2. /\ Tail(rootQueue) \in Seq(RootRequests) /\ Head(rootQueue) \in RootRequests
  BY <1>1, TailFacts
<1>3. \A x \in RootRequests : Append(Tail(rootQueue), x) \in Seq(RootRequests)
  BY <1>2, AppendFacts
<1> DEFINE Failed == [call EXCEPT ![Head(rootQueue).by].at = "failed"]
<1>12. Head(rootQueue).by \in Calls => Failed \in [Calls -> CallRecords]
  BY CallFacts DEF TypeOK, CallRecords
<1> HIDE DEF Failed
<1>10. ASSUME Waits(Head(rootQueue).by), reopen(Head(rootQueue).by)
       PROVE  /\ rootQueue' \in Seq(RootRequests) /\ handle' \in Databases \cup {Unset}
              /\ idb' \in Databases \cup {Unset} /\ call' \in [Calls -> CallRecords]
  <2>1. PICK c \in Calls : c = Head(rootQueue).by
    BY <1>10 DEF Waits
  <2>2. reopen(c)
    BY <1>10, <2>1
  <2>3. rootQueue' \in Seq(RootRequests)
    BY <2>2, <1>3, RootRequestsMade DEF reopen
  <2>4. handle' \in Databases \cup {Unset} /\ idb' \in Databases \cup {Unset}
    BY <2>2 DEF reopen
  <2>5. call' \in [Calls -> CallRecords]
    <3>1. call \in [Calls -> CallRecords] /\ call' = [call EXCEPT ![c].at = "opening"]
      BY <2>2 DEF reopen, TypeOK, CallRecords
    <3>2. QED BY <3>1, CallFacts
  <2>6. QED BY <2>3, <2>4, <2>5
<1>4. CASE namesPut
  <2>1. /\ Head(rootQueue).names \subseteq Wallets /\ Head(rootQueue).gone \subseteq Wallets
    BY <1>2, <1>4, RootRequestFacts DEF namesPut
  <2>2. QED BY <1>2, <1>4, <2>1 DEF namesPut, TypeOK, shown, counters, CallRecords
<1>5. CASE currentPut
  <2>1. Head(rootQueue).current \in Databases
    BY <1>2, <1>5, RootRequestFacts DEF currentPut
  <2>2. root' \in [names : SUBSET Wallets, current : Databases \cup {Unset}]
    BY <1>5, <2>1 DEF currentPut, TypeOK, CallRecords
  <2>3. /\ rootQueue' \in Seq(RootRequests) /\ handle' \in Databases \cup {Unset}
        /\ idb' \in Databases \cup {Unset} /\ call' \in [Calls -> CallRecords]
    <3>1. CASE Waits(Head(rootQueue).by)
      BY <3>1, <1>5, <1>10 DEF currentPut
    <3>2. CASE ~ Waits(Head(rootQueue).by)
      BY <3>2, <1>2, <1>5 DEF currentPut, TypeOK, CallRecords
    <3>3. QED BY <3>1, <3>2
  <2>4. QED BY <1>5, <2>2, <2>3 DEF currentPut, TypeOK, shown, counters, history, CallRecords
<1>11. CASE namesNotPut
  <2>1. /\ Head(rootQueue).names \subseteq Wallets /\ Head(rootQueue).gone \subseteq Wallets
    BY <1>2, <1>11, RootRequestFacts DEF namesNotPut
  <2>2. call' = Failed \/ call' = call
    BY <1>11 DEF namesNotPut, Failed
  <2>3. call' \in [Calls -> CallRecords]
    <3>1. CASE call' = call
      BY <3>1 DEF TypeOK, CallRecords
    <3>2. CASE call' # call
      <4>1. Waits(Head(rootQueue).by) /\ call' = Failed
        BY <3>2, <1>11 DEF namesNotPut, Failed
      <4>2. QED BY <4>1, <1>12 DEF Waits
    <3>3. QED BY <3>1, <3>2
  <2>4. unlisted' \subseteq Wallets
    BY <1>11, <2>1 DEF namesNotPut, TypeOK, CallRecords
  <2>5. QED BY <1>2, <1>11, <2>3, <2>4 DEF namesNotPut, TypeOK, disk, shown, counters, CallRecords
<1>13. CASE currentNotPut
  <2>1. /\ rootQueue' \in Seq(RootRequests) /\ handle' \in Databases \cup {Unset}
        /\ idb' \in Databases \cup {Unset} /\ call' \in [Calls -> CallRecords]
    <3>1. CASE Waits(Head(rootQueue).by) /\ reopen(Head(rootQueue).by)
      BY <3>1, <1>10
    <3>2. CASE call' = call /\ rootQueue' = Tail(rootQueue) /\ UNCHANGED <<handle, idb>>
      BY <3>2, <1>2 DEF TypeOK, CallRecords
    <3>3. CASE /\ Waits(Head(rootQueue).by) /\ call' = Failed
               /\ rootQueue' = Tail(rootQueue) /\ UNCHANGED <<handle, idb>>
      <4>1. call' \in [Calls -> CallRecords]
        BY <3>3, <1>12 DEF Waits
      <4>2. QED BY <4>1, <3>3, <1>2 DEF TypeOK, CallRecords
    <3>4. QED BY <3>1, <3>2, <3>3, <1>13 DEF currentNotPut, Failed
  <2>2. QED BY <1>13, <2>1 DEF currentNotPut, TypeOK, disk, shown, counters, CallRecords
<1>14. CASE readFailed
  <2>1. call' \in [Calls -> CallRecords]
    BY <1>12, <1>14 DEF readFailed, Failed
  <2>2. QED BY <1>2, <1>14, <2>1 DEF readFailed, TypeOK, disk, shown, counters, CallRecords
<1>6. CASE openDatabase
  <2>1. Head(rootQueue).by \in {Start} \cup Calls
    BY <1>2, <1>6, RootRequestFacts DEF openDatabase
  <2>2. PropertyOr(root.current, Default) \in Databases
    BY WalletManagerAssumption DEF TypeOK, PropertyOr, Databases, CallRecords
  <2>3. requests \in Seq(Requests)
    BY DEF TypeOK, Requests, CallRecords
  <2>4. requests' \in Seq(Requests)
    BY <1>6, <2>1, <2>2, <2>3, RequestFacts, AppendFacts DEF openDatabase
  <2>5. QED BY <1>2, <1>6, <2>4
            DEF openDatabase, TypeOK, Requests, disk, shown, counters, history, CallRecords
<1>7. CASE init
  <2>1. PropertyOr(root.current, None) \in Databases
    BY DEF TypeOK, PropertyOr, Databases, CallRecords
  <2>2. rootQueue' \in Seq(RootRequests)
    BY <1>7, <1>3, <2>1, RootRequestsMade DEF init
  <2>3. QED BY <1>7, <2>2 DEF init, TypeOK, disk, shown, counters, history, CallRecords
<1>8. CASE initDone
  <2>1. Head(rootQueue).current \in Databases
    BY <1>2, <1>8, RootRequestFacts DEF initDone
  <2>2. connect' \in [ready : BOOLEAN, from : Databases \cup {Unset}, init : BOOLEAN]
    <3>1. (connect.ready \/ connect.from = Unset) \in BOOLEAN
      OBVIOUS
    <3>2. connect' = [connect EXCEPT !.init = FALSE, !.ready = @ \/ connect.from = Unset]
      BY <1>8 DEF initDone
    <3>3. QED BY <3>1, <3>2 DEF TypeOK, CallRecords
  <2>3. overwritten' \subseteq Wallets
    BY <1>8 DEF initDone, TypeOK, CallRecords
  <2>4. manager' \in [names : SUBSET Wallets, current : Databases] /\ account' \in Databases
    BY <1>8, <2>1 DEF initDone, TypeOK, CallRecords
  <2>5. QED BY <1>2, <1>8, <2>2, <2>3, <2>4 DEF initDone, TypeOK, disk, counters, CallRecords
<1>9. QED BY <1>4, <1>5, <1>6, <1>7, <1>8, <1>11, <1>13, <1>14 DEF rootAnswers

\* A database is opened, fails to open, or is deleted.
LEMMA RequestTypes ==
    ASSUME TypeOK, NEW i \in DOMAIN requests, opened(i) \/ openFailed(i) \/ deleted(i)
    PROVE  TypeOK'
<1>1. PICK r \in Requests : r = requests[i]
  <2>1. requests \in Seq(Requests)
    BY DEF TypeOK, Requests, CallRecords
  <2>2. QED BY <2>1
<1>2. RemoveAt(requests, i) \in Seq(Requests)
  <2>1. requests \in Seq(Requests)
    BY DEF TypeOK, Requests, CallRecords
  <2>2. QED BY <2>1, RemoveFacts
<1>3. CASE opened(i)
  <2>1. r.db \in Databases /\ r.by \in {Start} \cup Calls
    BY <1>1, <1>3, RequestFacts DEF opened
  <2>2. handle' \in Databases \cup {Unset} /\ requests' \in Seq(Requests)
    BY <1>1, <1>2, <1>3, <2>1 DEF opened
  <2>3. idb' \in Databases \cup {Unset}
    BY <1>1, <1>3, <2>1 DEF opened, TypeOK, CallRecords
  <2>4. leaked' \subseteq Databases
    BY <1>1, <1>3, <2>1 DEF opened, TypeOK, CallRecords
  <2>5. /\ rootQueue' \in Seq(RootRequests)
        /\ connect' \in [ready : BOOLEAN, from : Databases \cup {Unset}, init : BOOLEAN]
        /\ call' \in [Calls -> CallRecords]
    <3>1. CASE r.by = Start
      <4>1. /\ connect' = [connect EXCEPT !.from = r.db, !.init = TRUE]
            /\ rootQueue' = Append(rootQueue, [kind |-> "initCurrent"]) /\ call' = call
        BY <1>1, <1>3, <3>1 DEF opened
      <4>2. connect' \in [ready : BOOLEAN, from : Databases \cup {Unset}, init : BOOLEAN]
        BY <4>1, <2>1 DEF TypeOK, CallRecords
      <4>3. QED BY <4>1, <4>2, RootRequestsMade, AppendFacts DEF TypeOK, CallRecords
    <3>2. CASE r.by # Start
      <4>1. PICK c \in Calls : c = r.by
        BY <3>2, <2>1
      <4>2. /\ call' = [call EXCEPT ![c].from = r.db,
                                    ![c].at = IF @ = "restoring" THEN "putting" ELSE "loading"]
            /\ UNCHANGED <<connect, rootQueue>>
        BY <1>1, <1>3, <3>2, <4>1 DEF opened
      <4>3. PICK at \in {"putting", "loading"} :
                call' = [call EXCEPT ![c].from = r.db, ![c].at = at]
        BY <4>2
      <4>4. call[c] \in CallRecords /\ call \in [Calls -> CallRecords]
        BY DEF TypeOK, CallRecords
      <4>5. /\ [call[c] EXCEPT !.from = r.db, !.at = at] \in CallRecords
            /\ call' = [call EXCEPT ![c] = [call[c] EXCEPT !.from = r.db, !.at = at]]
        BY <4>3, <4>4, <2>1 DEF CallRecords
      <4>6. call' \in [Calls -> CallRecords]
        BY <4>4, <4>5
      <4>7. QED BY <4>2, <4>6 DEF TypeOK, CallRecords
    <3>3. QED BY <3>1, <3>2
  <2>6. QED BY <1>3, <2>2, <2>3, <2>4, <2>5
             DEF opened, TypeOK, Requests, disk, shown, counters, history, CallRecords
<1>4. CASE openFailed(i)
  <2>1. PICK c \in Calls : c = r.by
    BY <1>1, <1>4 DEF openFailed
  <2>2. requests' \in Seq(Requests) /\ call' = [call EXCEPT ![c].at = "failed"]
        /\ disturbed' = TRUE
    BY <1>1, <1>2, <1>4, <2>1 DEF openFailed
  <2>3. call' \in [Calls -> CallRecords]
    BY <2>2, CallFacts DEF TypeOK, CallRecords
  <2>4. QED BY <1>4, <2>2, <2>3 DEF openFailed, TypeOK, Requests, disk, shown, counters, CallRecords
<1>5. CASE deleted(i)
  <2>1. r.db \in Databases
    BY <1>1, RequestFacts
  <2>2. stored' \in [Databases -> SUBSET Wallets] /\ requests' \in Seq(Requests)
    BY <1>1, <1>2, <1>5, <2>1 DEF deleted, TypeOK, CallRecords
  <2>3. QED BY <1>5, <2>2 DEF deleted, TypeOK, Requests, shown, counters, history, CallRecords
<1>6. QED BY <1>3, <1>4, <1>5

\* The loads, the saving of RAM's wallet, and the end of the page.
LEMMA PageTypes ==
    ASSUME TypeOK, collected \/ walletLoaded \/ Connect \/ _updateWallet \/ reload
    PROVE  TypeOK'
<1>1. CASE collected
  BY <1>1 DEF collected, TypeOK, disk, shown, counters, history, CallRecords
<1>2. CASE walletLoaded
  <2>1. ram' \in Databases
    BY <1>2 DEF walletLoaded, LoadedFrom, TypeOK, Databases, CallRecords
  <2>2. connect' \in [ready : BOOLEAN, from : Databases \cup {Unset}, init : BOOLEAN]
    <3>1. (connect.ready \/ ~ connect.init) \in BOOLEAN
      OBVIOUS
    <3>2. connect' = [connect EXCEPT !.from = Unset, !.ready = @ \/ ~ connect.init]
      BY <1>2 DEF walletLoaded
    <3>3. QED BY <3>1, <3>2 DEF TypeOK, CallRecords
  <2>3. QED BY <1>2, <2>1, <2>2 DEF walletLoaded, TypeOK, disk, counters, history, CallRecords
<1>3. CASE Connect
  <2>1. rootQueue' \in Seq(RootRequests)
    BY <1>3, RootRequestsMade, AppendFacts DEF Connect, TypeOK, CallRecords
  <2>2. connect' \in [ready : BOOLEAN, from : Databases \cup {Unset}, init : BOOLEAN]
    BY <1>3 DEF Connect, TypeOK, CallRecords
  <2>3. disturbed' \in BOOLEAN
    BY <1>3 DEF Connect, TypeOK, CallRecords
  <2>4. events' \in 0..MaxEvents
    BY <1>3, WalletManagerAssumption DEF Connect, TypeOK, CallRecords
  <2>5. QED BY <1>3, <2>1, <2>2, <2>3, <2>4 DEF Connect, TypeOK, disk, shown, CallRecords
<1>4. CASE _updateWallet
  <2>1. ram \in Wallets /\ idb \in Databases
    BY <1>4 DEF _updateWallet, TypeOK, Databases, CallRecords
  <2>2. stored' \in [Databases -> SUBSET Wallets]
    BY <1>4, <2>1 DEF _updateWallet, TypeOK, CallRecords
  <2>3. QED BY <1>4, <2>2 DEF _updateWallet, TypeOK, shown, counters, history, CallRecords
<1>5. CASE reload
  <2>1. rootQueue' \in Seq(RootRequests) /\ requests' = <<>>
    BY <1>5, RootRequestsMade DEF reload
  <2>2. stored' \in [Databases -> SUBSET Wallets]
    BY <1>5 DEF reload, TypeOK, CallRecords
  <2>3. reloads' \in 0..MaxReloads
    BY <1>5, WalletManagerAssumption DEF reload, TypeOK, CallRecords
  <2>4. call' \in [Calls -> CallRecords]
    <3>1. \A b \in Calls : [NoCall EXCEPT !.at = IF call[b].at = "idle" THEN "idle" ELSE "done"]
                              \in CallRecords
      BY CallFacts DEF Ended
    <3>2. QED BY <1>5, <3>1 DEF reload
  <2>5. /\ root' = root /\ events' = events /\ unlisted' = unlisted
        /\ overwritten' = overwritten /\ disturbed' = FALSE
        /\ idb' = Unset /\ leaked' = {} /\ handle' = Unset
        /\ manager' = [names |-> {}, current |-> None] /\ account' = None /\ ram' = None
        /\ connect' = [ready |-> FALSE, from |-> Unset, init |-> FALSE]
    BY <1>5 DEF reload
  <2>6. None \in Databases
    BY DEF Databases
  <2>7. /\ idb' \in Databases \cup {Unset}
        /\ manager' \in [names : SUBSET Wallets, current : Databases]
        /\ connect' \in [ready : BOOLEAN, from : Databases \cup {Unset}, init : BOOLEAN]
        /\ requests' \in Seq(Requests)
    BY <2>1, <2>5, <2>6
  <2>8. QED BY <2>1, <2>2, <2>3, <2>4, <2>5, <2>6, <2>7 DEF TypeOK, Requests, CallRecords
<1>6. QED BY <1>1, <1>2, <1>3, <1>4, <1>5

\* setWallet and restore, and what follows them.
LEMMA CallTypes ==
    ASSUME TypeOK, NEW c \in Calls,
           \/ \E w \in Wallets : (\E create \in BOOLEAN : setWallet(c, w, create))
                                 \/ restore(c, w)
           \/ (restored(c) /\ call[c].wallet \in Wallets)
           \/ restoreFailed(c) \/ loaded(c) \/ accountsLoaded(c)
           \/ accountsFailed(c) \/ (created(c) /\ call[c].wallet \in Wallets) \/ notCreated(c)
    PROVE  TypeOK'
<1>1. call[c] \in CallRecords
  BY DEF TypeOK, CallRecords
<1>2. ASSUME NEW w \in Wallets, NEW create \in BOOLEAN, setWallet(c, w, create)
      PROVE  TypeOK'
  <2>1. [NoCall EXCEPT !.wallet = w, !.create = create]
           \in CallRecords
    BY CallFacts DEF Databases
  <2>2. onSetWallet(c, w, [NoCall EXCEPT !.wallet = w, !.create = create])
    BY <1>2 DEF setWallet
  <2>3. /\ rootQueue' \in Seq(RootRequests)
        /\ manager' \in [names : SUBSET Wallets, current : Databases]
        /\ call' \in [Calls -> CallRecords]
    BY <2>1, <2>2, OnSetWalletTypes
  <2>4. disturbed' \in BOOLEAN /\ account' \in Databases
    BY <1>2 DEF setWallet, TypeOK, Databases, CallRecords
  <2>5. QED BY <1>2, <2>3, <2>4 DEF setWallet, TypeOK, disk, counters, CallRecords
<1>3. ASSUME NEW w \in Wallets, restore(c, w)
      PROVE  TypeOK'
  <2>1. requests \in Seq(Requests) /\ [kind |-> "open", db |-> w, by |-> c] \in Requests
    BY RequestFacts DEF TypeOK, Requests, Databases, CallRecords
  <2>2. requests' \in Seq(Requests)
    BY <1>3, <2>1, AppendFacts DEF restore
  <2>3. call' \in [Calls -> CallRecords]
    BY <1>3 DEF restore, NoCall, TypeOK, Databases, CallRecords
  <2>4. disturbed' \in BOOLEAN
    BY <1>3 DEF restore, TypeOK, CallRecords
  <2>5. QED BY <1>3, <2>2, <2>3, <2>4
            DEF restore, TypeOK, Requests, disk, shown, counters, CallRecords
<1>4. CASE restored(c) /\ call[c].wallet \in Wallets
  <2>1. PICK w \in Wallets : w = call[c].wallet
    BY <1>4
  <2>2. onSetWallet(c, w, call[c]) /\ account' = w
        /\ stored' = [stored EXCEPT ![w] = @ \cup {w}]
        /\ unlisted' = unlisted \cup ({w} \ root.names)
        /\ disturbed' = (disturbed \/ manager.current = w)
    BY <1>4, <2>1 DEF restored
  <2>3. /\ rootQueue' \in Seq(RootRequests)
        /\ manager' \in [names : SUBSET Wallets, current : Databases]
        /\ call' \in [Calls -> CallRecords]
    BY <1>1, <2>2, OnSetWalletTypes
  <2>4. disturbed' \in BOOLEAN /\ account' \in Databases /\ unlisted' \subseteq Wallets
        /\ stored' \in [Databases -> SUBSET Wallets]
    BY <2>2 DEF TypeOK, Databases, CallRecords
  <2>5. QED BY <1>4, <2>3, <2>4 DEF restored, TypeOK, counters, CallRecords
<1> DEFINE To(at) == [call EXCEPT ![c].at = at]
<1>0. \A at \in {"failed", "done", "accounts", "creating"} : To(at) \in [Calls -> CallRecords]
  BY CallFacts DEF TypeOK, CallRecords
<1> HIDE DEF To
<1>5. CASE restoreFailed(c)
  <2>1. call' = To("failed") /\ disturbed' = TRUE
    BY <1>5 DEF restoreFailed, To
  <2>2. UNCHANGED <<root, stored, rootQueue, requests, idb, leaked, handle, manager, account,
                    ram, connect, events, reloads, unlisted, overwritten>>
    BY <1>5 DEF restoreFailed, disk, shown, counters
  <2>3. QED BY <1>0, <2>1, <2>2 DEF TypeOK, CallRecords
<1>6. CASE loaded(c)
  <2>1. ram' \in Databases
    BY <1>6 DEF loaded, LoadedFrom, TypeOK, Databases, CallRecords
  <2>2. disturbed' \in BOOLEAN
    BY <1>6 DEF loaded, TypeOK, CallRecords
  <2>3. call' = To("failed") \/ call' = To("accounts")
    BY <1>6 DEF loaded, To
  <2>4. call' \in [Calls -> CallRecords]
    BY <1>0, <2>3
  <2>5. UNCHANGED <<disk, rootQueue, requests, idb, leaked, handle, manager, account,
                    connect, counters, unlisted, overwritten>>
    BY <1>6 DEF loaded
  <2>6. QED BY <2>1, <2>2, <2>4, <2>5 DEF TypeOK, disk, counters, CallRecords
<1>7. CASE accountsLoaded(c)
  <2>1. manager' \in [names : SUBSET Wallets, current : Databases]
    BY <1>7, <1>1 DEF accountsLoaded, TypeOK, CallRecords
  <2>2. PICK at \in {"creating", "done"} : call' = [call EXCEPT ![c].at = at]
    BY <1>7 DEF accountsLoaded
  <2>3. call' \in [Calls -> CallRecords]
    <3>1. call \in [Calls -> CallRecords]
      BY DEF TypeOK, CallRecords
    <3>2. QED BY <2>2, <3>1, CallFacts
  <2>4. QED BY <1>7, <2>1, <2>3 DEF accountsLoaded, TypeOK, CallRecords, disk, counters, history
<1>8. CASE accountsFailed(c)
  <2>1. call' = To("failed") /\ disturbed' = TRUE
    BY <1>8 DEF accountsFailed, To
  <2>2. UNCHANGED <<root, stored, rootQueue, requests, idb, leaked, handle, manager, account,
                    ram, connect, events, reloads, unlisted, overwritten>>
    BY <1>8 DEF accountsFailed, disk, shown, counters
  <2>3. QED BY <1>0, <2>1, <2>2 DEF TypeOK, CallRecords
<1>9. CASE created(c) /\ call[c].wallet \in Wallets
  <2>1. PICK w \in Wallets : w = call[c].wallet
    BY <1>9
  <2>2. stored' \in [Databases -> SUBSET Wallets]
    BY <1>9, <2>1 DEF created, TypeOK, CallRecords
  <2>3. /\ ram' \in Databases /\ manager' \in [names : SUBSET Wallets, current : Databases]
    BY <1>9, <2>1 DEF created, TypeOK, Databases, CallRecords
  <2>4. call' \in [Calls -> CallRecords]
    BY <1>0, <1>9 DEF created, To
  <2>5. UNCHANGED <<root, rootQueue, requests, idb, leaked, handle, account, connect,
                    counters, history>>
    BY <1>9 DEF created
  <2>6. QED BY <2>2, <2>3, <2>4, <2>5 DEF TypeOK, counters, history, CallRecords
<1>10. CASE notCreated(c)
  <2>1. manager' \in [names : SUBSET Wallets, current : Databases]
    BY <1>10, <1>1 DEF notCreated, TypeOK, CallRecords
  <2>2. call' \in [Calls -> CallRecords]
    <3>1. call \in [Calls -> CallRecords] /\ call' = [call EXCEPT ![c].at = "done"]
      BY <1>10 DEF notCreated, TypeOK, CallRecords
    <3>2. QED BY <3>1, CallFacts
  <2>3. QED BY <1>10, <2>1, <2>2 DEF notCreated, TypeOK, CallRecords, disk, counters
<1>11. QED BY <1>2, <1>3, <1>4, <1>5, <1>6, <1>7, <1>8, <1>9, <1>10

\* onDeleteWallet.
LEMMA DeleteTypes ==
    ASSUME TypeOK, NEW w \in Wallets, onDeleteWallet(w)
    PROVE  TypeOK'
<1> DEFINE names == manager.names \ {w}
<1>1. /\ rootQueue \in Seq(RootRequests) /\ requests \in Seq(Requests)
      /\ names \subseteq Wallets /\ PutNames(names, {w}, Unset) \in RootRequests
      /\ [kind |-> "delete", db |-> w] \in Requests
  <2>1. /\ rootQueue \in Seq(RootRequests) /\ requests \in Seq(Requests)
        /\ names \in SUBSET Wallets /\ {w} \in SUBSET Wallets
    BY DEF TypeOK, Requests, CallRecords
  <2>2. PutNames(names, {w}, Unset) \in RootRequests
    BY <2>1, RootRequestsMade
  <2>3. QED BY <2>1, <2>2, RequestFacts
<1>2. requests' \in Seq(Requests)
  BY <1>1, AppendFacts DEF onDeleteWallet
<1>3. /\ rootQueue' \in Seq(RootRequests)
      /\ manager' \in [names : SUBSET Wallets, current : Databases]
  <2>1. CASE manager.current = w
    <3>1. PICK n \in IF names = {} THEN {None} ELSE names :
                /\ manager' = [names |-> names, current |-> n]
                /\ rootQueue' = rootQueue \o <<PutNames(names, {w}, Unset), PutCurrent(n, Unset)>>
      BY <2>1 DEF onDeleteWallet
    <3>2. n \in Databases
      BY <1>1 DEF Databases
    <3>3. PutCurrent(n, Unset) \in RootRequests
      BY <3>2, RootRequestsMade
    <3>4. PICK x \in RootRequests : x = PutNames(names, {w}, Unset)
      BY <1>1
    <3>5. PICK y \in RootRequests : y = PutCurrent(n, Unset)
      BY <3>3
    <3>6. rootQueue' = Append(Append(rootQueue, x), y)
      <4>1. rootQueue' = rootQueue \o <<x, y>>
        BY <3>1, <3>4, <3>5
      <4>2. QED BY <4>1, <1>1, AppendTwice
    <3>7. QED BY <3>1, <3>2, <3>6, <1>1, AppendFacts
  <2>2. CASE manager.current # w
    <3>1. /\ manager' = [manager EXCEPT !.names = names]
          /\ rootQueue' = Append(rootQueue, PutNames(names, {w}, Unset))
      BY <2>2 DEF onDeleteWallet
    <3>2. QED BY <3>1, <1>1, AppendFacts DEF TypeOK, CallRecords
  <2>3. QED BY <2>1, <2>2
<1>4. disturbed' \in BOOLEAN /\ events' \in 0..MaxEvents /\ unlisted' \subseteq Wallets
  BY WalletManagerAssumption DEF onDeleteWallet, TypeOK, CallRecords
<1>5. QED BY <1>2, <1>3, <1>4 DEF onDeleteWallet, TypeOK, Requests, disk, CallRecords

-----------------------------------------------------------------------------
(* Tokens.                                                                 *)

tokenVars == <<requests, rootQueue, call, connect, manager.names, root.names>>

\* The types that the proofs below use.
LEMMA TypeFacts ==
    ASSUME TypeOK
    PROVE  /\ rootQueue \in Seq(RootRequests) /\ Len(rootQueue) \in Nat
           /\ DOMAIN rootQueue = 1..Len(rootQueue)
           /\ \A i \in DOMAIN rootQueue : rootQueue[i] \in RootRequests
           /\ requests \in Seq(Requests) /\ Len(requests) \in Nat
           /\ DOMAIN requests = 1..Len(requests)
           /\ \A i \in DOMAIN requests : requests[i] \in Requests
           /\ call \in [Calls -> CallRecords]
           /\ connect \in [ready : BOOLEAN, from : Databases \cup {Unset}, init : BOOLEAN]
           /\ idb \in Databases \cup {Unset}
           /\ manager \in [names : SUBSET Wallets, current : Databases]
           /\ root \in [names : SUBSET Wallets, current : Databases \cup {Unset}]
           /\ stored \in [Databases -> SUBSET Wallets]
BY DEF TypeOK, Requests, CallRecords

\* Calls have numbers, and neither Start nor Unset is one.
LEMMA CallNumbers == Start \notin Calls /\ Unset \notin Calls
BY WalletManagerAssumption DEF Calls, Start

\* What the head of the queue leaves behind.
LEMMA TailQueue ==
    ASSUME TypeOK, rootQueue # <<>>
    PROVE  /\ Len(rootQueue) \in Nat \ {0} /\ Head(rootQueue) = rootQueue[1]
           /\ rootQueue[1] \in RootRequests
           /\ Tail(rootQueue) \in Seq(RootRequests) /\ Len(Tail(rootQueue)) = Len(rootQueue) - 1
           /\ DOMAIN rootQueue = 1..Len(rootQueue)
           /\ DOMAIN Tail(rootQueue) = 1..Len(rootQueue)-1
           /\ \A i \in 1..Len(rootQueue)-1 : Tail(rootQueue)[i] = rootQueue[i+1]
           /\ \A x \in RootRequests :
                /\ Len(Append(Tail(rootQueue), x)) = Len(rootQueue)
                /\ DOMAIN Append(Tail(rootQueue), x) = 1..Len(rootQueue)
                /\ \A i \in 1..Len(rootQueue)-1 : Append(Tail(rootQueue), x)[i] = rootQueue[i+1]
                /\ Append(Tail(rootQueue), x)[Len(rootQueue)] = x
<1>1. rootQueue \in Seq(RootRequests)
  BY TypeFacts
<1>2. /\ Len(rootQueue) \in Nat \ {0} /\ Head(rootQueue) = rootQueue[1]
      /\ rootQueue[1] \in RootRequests
      /\ Tail(rootQueue) \in Seq(RootRequests) /\ Len(Tail(rootQueue)) = Len(rootQueue) - 1
      /\ DOMAIN rootQueue = 1..Len(rootQueue)
      /\ DOMAIN Tail(rootQueue) = 1..Len(rootQueue)-1
      /\ \A i \in 1..Len(rootQueue)-1 : Tail(rootQueue)[i] = rootQueue[i+1]
  BY <1>1, TailFacts
<1>3. PICK t \in Seq(RootRequests) : t = Tail(rootQueue)
  BY <1>2
<1>4. ASSUME NEW x \in RootRequests
      PROVE  /\ Len(Append(t, x)) = Len(t) + 1 /\ DOMAIN Append(t, x) = 1..Len(t)+1
             /\ \A i \in 1..Len(t) : Append(t, x)[i] = t[i]
             /\ Append(t, x)[Len(t)+1] = x
  BY AppendFacts
<1>5. (Len(rootQueue) - 1) + 1 = Len(rootQueue)
  BY <1>2
<1>6. QED BY <1>2, <1>3, <1>4, <1>5

\* Tokens depend on these variables only.
LEMMA SameTokens ==
    ASSUME Tokens, UNCHANGED tokenVars
    PROVE  Tokens'
<1>1. /\ requests' = requests /\ rootQueue' = rootQueue /\ call' = call /\ connect' = connect
      /\ manager.names' = manager.names /\ root.names' = root.names
  BY DEF tokenVars
<1>2. OneOpen' /\ OneQueued' /\ OneWrite' /\ Running'
  BY <1>1 DEF Tokens, OneOpen, OneQueued, OneWrite, Running, Active
<1>3. Starting'
  BY <1>1 DEF Tokens, Starting
<1>4. QED BY <1>2, <1>3 DEF Tokens

\* A call is where it was, or the first answer of the root database has failed it.
GoesOn(c) ==
    /\ call'[c].wallet = call[c].wallet
    /\ \/ call'[c].at = call[c].at
       \/ call'[c].at = "failed" /\ (call[c].at = "writing" \/ Asks(rootQueue[1], c))

\* The tokens of a queue that loses its head, and gets a request of no call.
LEMMA ShiftedTokens ==
    ASSUME Tokens, NEW n \in Nat, NEW m \in Nat, DOMAIN rootQueue = 1..n, 1 \in 1..n,
           DOMAIN rootQueue' = 1..m,
           \A i \in 1..m : \/ i+1 \in 1..n /\ rootQueue'[i] = rootQueue[i+1]
                           \/ \A c \in Calls : /\ ~ Asks(rootQueue'[i], c)
                                               /\ ~ Writes(rootQueue'[i], c),
           \A c \in Calls : GoesOn(c)
    PROVE  OneQueued' /\ OneWrite' /\ (requests' = requests => OneOpen')
<1>1. ASSUME NEW i \in 1..m, NEW c \in Calls, Asks(rootQueue'[i], c) \/ Writes(rootQueue'[i], c)
      PROVE  i+1 \in 1..n /\ rootQueue'[i] = rootQueue[i+1]
  BY <1>1
<1>6. ASSUME NEW i \in 1..m, 1 = i+1
      PROVE  FALSE
  BY <1>6
<1>2. OneQueued'
  <2>1. SUFFICES ASSUME NEW c \in Calls, NEW i \in 1..m, Asks(rootQueue'[i], c)
                 PROVE  /\ call'[c].at = "opening"
                        /\ \A j \in 1..m : Asks(rootQueue'[j], c) => i = j
    BY DEF OneQueued
  <2>2. i+1 \in 1..n /\ Asks(rootQueue[i+1], c)
    BY <1>1, <2>1
  <2>3. /\ call[c].at = "opening"
        /\ \A j \in 1..n : Asks(rootQueue[j], c) => i+1 = j
    BY <2>2 DEF Tokens, OneQueued
  <2>4. ASSUME NEW j \in 1..m, Asks(rootQueue'[j], c)
        PROVE  i = j
    <3>1. j+1 \in 1..n /\ Asks(rootQueue[j+1], c)
      BY <1>1, <2>4
    <3>2. i+1 = j+1
      BY <2>3, <3>1
    <3>3. QED BY <3>2
  <2>5. call'[c].at = "opening"
    <3>1. ~ Asks(rootQueue[1], c)
      BY <1>6, <2>3
    <3>2. QED BY <2>3, <3>1 DEF GoesOn
  <2>6. QED BY <2>4, <2>5
<1>3. OneWrite'
  <2>1. SUFFICES ASSUME NEW c \in Calls, NEW i \in 1..m, Writes(rootQueue'[i], c)
                 PROVE  /\ call'[c].at \in {"writing", "failed"}
                        /\ rootQueue'[i].current = call'[c].wallet
                        /\ \A j \in 1..m : Writes(rootQueue'[j], c) => i = j
    BY DEF OneWrite
  <2>2. i+1 \in 1..n /\ Writes(rootQueue[i+1], c) /\ rootQueue'[i] = rootQueue[i+1]
    BY <1>1, <2>1
  <2>3. /\ call[c].at \in {"writing", "failed"} /\ rootQueue[i+1].current = call[c].wallet
        /\ \A j \in 1..n : Writes(rootQueue[j], c) => i+1 = j
    BY <2>2 DEF Tokens, OneWrite
  <2>4. ASSUME NEW j \in 1..m, Writes(rootQueue'[j], c)
        PROVE  i = j
    <3>1. j+1 \in 1..n /\ Writes(rootQueue[j+1], c)
      BY <1>1, <2>4
    <3>2. i+1 = j+1
      BY <2>3, <3>1
    <3>3. QED BY <3>2
  <2>5. call'[c].at \in {"writing", "failed"} /\ call'[c].wallet = call[c].wallet
    BY <2>3 DEF GoesOn
  <2>6. QED BY <2>2, <2>3, <2>4, <2>5
<1>4. ASSUME requests' = requests
      PROVE  OneOpen'
  <2>1. SUFFICES ASSUME NEW c \in Calls, NEW i \in DOMAIN requests, Asks(requests[i], c)
                 PROVE  /\ call'[c].at \in {"restoring", "opening"}
                        /\ \A j \in DOMAIN requests : Asks(requests[j], c) => i = j
                        /\ \A j \in 1..m : ~ Asks(rootQueue'[j], c)
    BY <1>4 DEF OneOpen
  <2>2. /\ call[c].at \in {"restoring", "opening"}
        /\ \A j \in DOMAIN requests : Asks(requests[j], c) => i = j
        /\ \A j \in 1..n : ~ Asks(rootQueue[j], c)
    BY <2>1 DEF Tokens, OneOpen
  <2>3. call'[c].at \in {"restoring", "opening"}
    BY <2>2 DEF GoesOn
  <2>4. QED BY <1>1, <2>2, <2>3
<1>5. QED BY <1>2, <1>3, <1>4

\* The answers of the root database keep the tokens.
LEMMA RootAnswersTokens ==
    ASSUME TypeOK, Tokens, rootAnswers
    PROVE  Tokens'
<1>1. rootQueue # <<>>
  BY DEF rootAnswers
<1> DEFINE n == Len(rootQueue)
<1>2. /\ n \in Nat \ {0} /\ Head(rootQueue) = rootQueue[1] /\ DOMAIN rootQueue = 1..n
      /\ 1 \in DOMAIN rootQueue /\ rootQueue[1] \in RootRequests
  BY <1>1, TailQueue
<1>3. ASSUME rootQueue' = Tail(rootQueue)
      PROVE  /\ DOMAIN rootQueue' = 1..n-1
             /\ \A i \in 1..n-1 : rootQueue'[i] = rootQueue[i+1] /\ i+1 \in DOMAIN rootQueue
  BY <1>1, <1>3, TailQueue
<1>4. ASSUME NEW x \in RootRequests, rootQueue' = Append(Tail(rootQueue), x)
      PROVE  /\ DOMAIN rootQueue' = 1..n
             /\ \A i \in 1..n-1 : rootQueue'[i] = rootQueue[i+1] /\ i+1 \in DOMAIN rootQueue
             /\ rootQueue'[n] = x
  BY <1>1, <1>4, TailQueue
<1> HIDE DEF n
<1>10. Waits(rootQueue[1].by) => call[rootQueue[1].by].at = "writing"
  BY DEF Waits
<1>11. ASSUME NEW b, b \in Calls => call[b].at = "writing" \/ Asks(rootQueue[1], b),
              \/ call' = call
              \/ b \in Calls /\ call' = [call EXCEPT ![b].at = "failed"]
       PROVE  /\ \A c \in Calls : GoesOn(c)
              /\ connect'.ready \/ ~ connect.ready => Running'
  <2>1. \A c \in Calls : GoesOn(c)
    <3>1. CASE call' = call
      BY <3>1 DEF GoesOn
    <3>2. CASE b \in Calls /\ call' = [call EXCEPT ![b].at = "failed"]
      <4>1. \A c \in Calls : /\ call'[c].wallet = call[c].wallet
                             /\ call'[c].at = IF c = b THEN "failed" ELSE call[c].at
        BY <3>2, TypeFacts DEF CallRecords
      <4>2. QED BY <1>11, <3>2, <4>1 DEF GoesOn
    <3>3. QED BY <1>11, <3>1, <3>2
  <2>2. ASSUME connect'.ready \/ ~ connect.ready
        PROVE  Running'
    BY <2>1, <2>2 DEF GoesOn, Tokens, Running, Active, Ended
  <2>3. QED BY <2>1, <2>2
<1>5. CASE namesPut \/ initDone \/ namesNotPut \/ readFailed
  <2>1. /\ DOMAIN rootQueue' = 1..n-1
        /\ \A i \in 1..n-1 : rootQueue'[i] = rootQueue[i+1] /\ i+1 \in DOMAIN rootQueue
    BY <1>3, <1>5 DEF namesPut, initDone, namesNotPut, readFailed
  <2>2. requests' = requests /\ (connect.ready => connect'.ready)
    BY <1>5, TypeFacts DEF namesPut, initDone, namesNotPut, readFailed
  <2>3. (\A c \in Calls : GoesOn(c)) /\ Running'
    <3>1. CASE namesPut \/ initDone
      <4>1. call' = call
        BY <3>1 DEF namesPut, initDone
      <4>2. QED BY <1>11, <2>2, <4>1, CallNumbers
    <3>2. CASE namesNotPut
      <4>1. CASE call' = call
        BY <1>11, <2>2, <4>1, CallNumbers
      <4>2. CASE call' # call
        <5>1. PICK b \in Calls : b = rootQueue[1].by /\ call[b].at = "writing"
          BY <1>2, <3>2, <4>2 DEF namesNotPut, Waits
        <5>2. call' = [call EXCEPT ![b].at = "failed"]
          BY <1>2, <3>2, <4>2, <5>1 DEF namesNotPut
        <5>3. QED BY <1>11, <2>2, <5>1, <5>2
      <4>3. QED BY <4>1, <4>2
    <3>3. CASE readFailed
      <4>1. PICK b \in Calls : b = rootQueue[1].by /\ Asks(rootQueue[1], b)
        BY <1>2, <3>3 DEF readFailed, Asks
      <4>2. call' = [call EXCEPT ![b].at = "failed"]
        BY <1>2, <3>3, <4>1 DEF readFailed
      <4>3. QED BY <1>11, <2>2, <4>1, <4>2
    <3>4. QED BY <1>5, <3>1, <3>2, <3>3
  <2>4. OneOpen' /\ OneQueued' /\ OneWrite'
    <3>1. n \in Nat /\ n-1 \in Nat /\ 1 \in 1..n /\ \A i \in 1..n-1 : i+1 \in 1..n
      BY <1>2
    <3>2. QED BY <1>2, <2>1, <2>2, <2>3, <3>1, ShiftedTokens
  <2>6. Starting'
    <3>1. CASE namesPut \/ namesNotPut
      <4>1. connect.ready /\ connect' = connect
        BY <3>1, <1>2 DEF Tokens, Starting, namesPut, namesNotPut
      <4>2. QED BY <4>1 DEF Starting
    <3>2. CASE initDone
      BY <3>2, <1>2, <2>1, <2>2, TypeFacts DEF Tokens, Starting, initDone, disk
    <3>3. CASE readFailed
      BY <3>3, <1>2, <2>1 DEF Tokens, Starting, readFailed, disk, shown
    <3>4. QED BY <3>1, <3>2, <3>3, <1>5
  <2>7. QED BY <2>3, <2>4, <2>6 DEF Tokens
<1>6. CASE currentPut \/ currentNotPut
  <2>1. /\ requests' = requests /\ connect' = connect /\ manager' = manager
        /\ root'.names = root.names
    BY <1>6, TypeFacts DEF currentPut, currentNotPut, shown, disk
  <2>2. CASE /\ rootQueue' = Tail(rootQueue)
             /\ \/ call' = call
                \/ /\ Waits(rootQueue[1].by)
                   /\ call' = [call EXCEPT ![rootQueue[1].by].at = "failed"]
    <3>1. (\A c \in Calls : GoesOn(c)) /\ Running'
      <4>1. CASE call' = call
        BY <1>11, <2>1, <4>1, CallNumbers
      <4>2. CASE call' # call
        <5>1. PICK b \in Calls : b = rootQueue[1].by /\ call[b].at = "writing"
          BY <2>2, <4>2 DEF Waits
        <5>2. call' = [call EXCEPT ![b].at = "failed"]
          BY <2>2, <4>2, <5>1
        <5>3. QED BY <1>11, <2>1, <5>1, <5>2
      <4>3. QED BY <4>1, <4>2
    <3>2. /\ DOMAIN rootQueue' = 1..n-1
          /\ \A i \in 1..n-1 : rootQueue'[i] = rootQueue[i+1] /\ i+1 \in DOMAIN rootQueue
      BY <1>3, <2>2
    <3>3. n \in Nat /\ n-1 \in Nat /\ 1 \in 1..n /\ \A i \in 1..n-1 : i+1 \in 1..n
      BY <1>2
    <3>4. OneOpen' /\ OneQueued' /\ OneWrite'
      BY <1>2, <2>1, <3>1, <3>2, <3>3, ShiftedTokens
    <3>5. Starting'
      BY <1>2, <2>1, <3>2 DEF Tokens, Starting
    <3>6. QED BY <3>1, <3>4, <3>5 DEF Tokens
  <2>3. CASE Waits(rootQueue[1].by) /\ reopen(rootQueue[1].by)
    <3>1. PICK c \in Calls : c = rootQueue[1].by
      BY <2>3 DEF Waits
    <3>2. /\ Writes(rootQueue[1], c) /\ call' = [call EXCEPT ![c].at = "opening"]
          /\ rootQueue' = Append(Tail(rootQueue), AskOpen(c)) /\ call[c].at = "writing"
      BY <1>2, <1>6, <2>3, <3>1 DEF currentPut, currentNotPut, reopen, Writes, Waits
    <3>3. PICK x \in RootRequests :
                /\ x = AskOpen(c) /\ x.kind = "open"
                /\ \A b : (Asks(x, b) <=> b = c) /\ ~ Writes(x, b)
      BY RootRequestsMade DEF Asks, Writes
    <3>4. /\ DOMAIN rootQueue' = 1..n
          /\ \A i \in 1..n-1 : rootQueue'[i] = rootQueue[i+1] /\ i+1 \in DOMAIN rootQueue
          /\ rootQueue'[n] = x
      BY <1>4, <3>2, <3>3
    <3>5. /\ call[c].at = "writing"
          /\ \A j \in DOMAIN rootQueue : Writes(rootQueue[j], c) => j = 1
          /\ connect.ready
      BY <1>2, <3>2 DEF Tokens, OneWrite, Running, Active, Ended
    <3>6. /\ call'[c].at = "opening" /\ call'[c].wallet = call[c].wallet
          /\ \A b \in Calls : b # c => call'[b] = call[b]
      BY <3>2, TypeFacts DEF CallRecords
    <3>7. /\ \A j \in DOMAIN rootQueue : ~ Asks(rootQueue[j], c)
          /\ \A j \in DOMAIN requests : ~ Asks(requests[j], c)
      BY <3>5 DEF Tokens, OneOpen, OneQueued
    <3>8. OneOpen'
      <4>1. SUFFICES ASSUME NEW b \in Calls, NEW i \in DOMAIN requests, Asks(requests[i], b)
                     PROVE  /\ call'[b].at \in {"restoring", "opening"}
                            /\ \A j \in DOMAIN requests : Asks(requests[j], b) => i = j
                            /\ \A j \in DOMAIN rootQueue' : ~ Asks(rootQueue'[j], b)
        BY <2>1 DEF OneOpen
      <4>2. /\ call[b].at \in {"restoring", "opening"}
            /\ \A j \in DOMAIN requests : Asks(requests[j], b) => i = j
            /\ \A j \in DOMAIN rootQueue : ~ Asks(rootQueue[j], b)
        BY <4>1 DEF Tokens, OneOpen
      <4>3. b # c
        BY <4>1, <3>7
      <4>4. call'[b] = call[b]
        BY <3>6, <4>3
      <4>5. \A j \in 1..n : j = n \/ (j \in 1..n-1 /\ j+1 \in 1..n)
        BY <1>2
      <4>6. \A j \in DOMAIN rootQueue' : ~ Asks(rootQueue'[j], b)
        BY <1>2, <3>3, <3>4, <4>2, <4>3, <4>5
      <4>7. QED BY <4>2, <4>4, <4>6
    <3>9. OneQueued'
      <4>1. \A j \in DOMAIN rootQueue' : \/ j \in 1..n-1 /\ rootQueue'[j] = rootQueue[j+1]
                                            /\ j+1 \in DOMAIN rootQueue
                                         \/ j = n /\ rootQueue'[j] = x
        BY <1>2, <3>4
      <4>2. SUFFICES ASSUME NEW b \in Calls, NEW i \in DOMAIN rootQueue', Asks(rootQueue'[i], b)
                     PROVE  /\ call'[b].at = "opening"
                            /\ \A j \in DOMAIN rootQueue' : Asks(rootQueue'[j], b) => i = j
        BY DEF OneQueued
      <4>3. CASE b = c
        <5>1. \A j \in DOMAIN rootQueue' : Asks(rootQueue'[j], b) => j = n
          BY <3>7, <4>1, <4>3
        <5>2. QED BY <3>6, <4>2, <4>3, <5>1
      <4>4. CASE b # c
        <5>1. \A j \in DOMAIN rootQueue' : Asks(rootQueue'[j], b) =>
                  j \in 1..n-1 /\ j+1 \in DOMAIN rootQueue /\ Asks(rootQueue[j+1], b)
          BY <3>3, <4>1, <4>4
        <5>2. /\ call[b].at = "opening"
              /\ \A j \in DOMAIN rootQueue : Asks(rootQueue[j], b) => i+1 = j
          BY <4>2, <5>1 DEF Tokens, OneQueued
        <5>3. \A j \in DOMAIN rootQueue' : Asks(rootQueue'[j], b) =>
                  i+1 = j+1 /\ i \in 1..n-1 /\ j \in 1..n-1
          BY <4>2, <5>1, <5>2
        <5>4. call'[b] = call[b]
          BY <3>6, <4>4
        <5>5. QED BY <5>2, <5>3, <5>4
      <4>5. QED BY <4>3, <4>4
    <3>10. OneWrite'
      <4>1. SUFFICES ASSUME NEW b \in Calls, NEW i \in DOMAIN rootQueue', Writes(rootQueue'[i], b)
                     PROVE  /\ call'[b].at \in {"writing", "failed"}
                            /\ rootQueue'[i].current = call'[b].wallet
                            /\ \A j \in DOMAIN rootQueue' : Writes(rootQueue'[j], b) => i = j
        BY DEF OneWrite
      <4>2. \A j \in DOMAIN rootQueue' : Writes(rootQueue'[j], b) =>
                j \in 1..n-1 /\ j+1 \in DOMAIN rootQueue /\ Writes(rootQueue[j+1], b)
        BY <1>2, <3>3, <3>4
      <4>3. b # c
        BY <1>2, <3>5, <4>1, <4>2
      <4>4. /\ call[b].at \in {"writing", "failed"} /\ rootQueue[i+1].current = call[b].wallet
            /\ \A j \in DOMAIN rootQueue : Writes(rootQueue[j], b) => i+1 = j
        BY <4>1, <4>2 DEF Tokens, OneWrite
      <4>5. ASSUME NEW j \in DOMAIN rootQueue', Writes(rootQueue'[j], b)
            PROVE  i = j
        <5>1. i+1 = j+1 /\ i \in 1..n-1 /\ j \in 1..n-1
          BY <4>1, <4>2, <4>4, <4>5
        <5>2. QED BY <5>1
      <4>6. call'[b] = call[b] /\ rootQueue'[i] = rootQueue[i+1]
        BY <3>4, <3>6, <4>1, <4>2, <4>3
      <4>7. QED BY <4>4, <4>5, <4>6
    <3>11. Running'
      BY <2>1, <3>5, <3>6 DEF Tokens, Running, Active, Ended
    <3>12. Starting'
      BY <2>1, <3>5 DEF Starting
    <3>13. QED BY <3>8, <3>9, <3>10, <3>11, <3>12 DEF Tokens
  <2>4. QED BY <1>2, <1>6, <2>2, <2>3 DEF currentPut, currentNotPut
<1>7. CASE openDatabase
  <2>1. /\ DOMAIN rootQueue' = 1..n-1
        /\ \A i \in 1..n-1 : rootQueue'[i] = rootQueue[i+1] /\ i+1 \in DOMAIN rootQueue
    BY <1>3, <1>7 DEF openDatabase
  <2>2. PICK x : /\ x = [kind |-> "open", db |-> PropertyOr(root.current, Default),
                         by |-> rootQueue[1].by]
    OBVIOUS
  <2>3. /\ x \in Requests /\ \A c \in Calls : Asks(x, c) => Asks(rootQueue[1], c)
    <3>1. rootQueue[1].kind = "open" /\ rootQueue[1].by \in {Start} \cup Calls
      BY <1>2, <1>7, RootRequestFacts DEF openDatabase
    <3>2. PropertyOr(root.current, Default) \in Databases
      BY WalletManagerAssumption DEF TypeOK, PropertyOr, Databases
    <3>3. QED BY <2>2, <3>1, <3>2, RequestFacts DEF Asks
  <2>4. /\ requests' = Append(requests, x) /\ call' = call /\ connect' = connect
        /\ manager' = manager /\ root' = root
    BY <1>2, <1>7, <2>2 DEF openDatabase, shown, disk
  <2>5. /\ DOMAIN requests = 1..Len(requests) /\ DOMAIN requests' = 1..Len(requests)+1
        /\ Len(requests) \in Nat
        /\ \A i \in 1..Len(requests) : requests'[i] = requests[i]
        /\ requests'[Len(requests)+1] = x
    BY <2>3, <2>4, TypeFacts, AppendFacts
  <2>6. ASSUME NEW c \in Calls, Asks(x, c)
        PROVE  /\ call[c].at = "opening"
               /\ \A j \in DOMAIN rootQueue : Asks(rootQueue[j], c) => j = 1
               /\ \A j \in DOMAIN requests : ~ Asks(requests[j], c)
    BY <1>2, <2>3, <2>6 DEF Tokens, OneOpen, OneQueued
  <2>7. OneOpen'
    <3>1. SUFFICES ASSUME NEW c \in Calls, NEW i \in DOMAIN requests', Asks(requests'[i], c)
                   PROVE  /\ call[c].at \in {"restoring", "opening"}
                          /\ \A j \in DOMAIN requests' : Asks(requests'[j], c) => i = j
                          /\ \A j \in DOMAIN rootQueue' : ~ Asks(rootQueue'[j], c)
      BY <2>4 DEF OneOpen, Asks
    <3>2. CASE i = Len(requests)+1
      BY <3>1, <3>2, <2>1, <2>5, <2>6
    <3>3. CASE i \in 1..Len(requests)
      <4>1. ~ Asks(x, c)
        BY <3>1, <3>3, <2>5, <2>6
      <4>2. QED BY <3>1, <3>3, <4>1, <2>1, <2>5 DEF Tokens, OneOpen
    <3>4. QED BY <3>2, <3>3, <2>5
  <2>8. OneQueued' /\ OneWrite' /\ Running'
    <3>1. n \in Nat /\ n-1 \in Nat /\ 1 \in 1..n /\ \A i \in 1..n-1 : i+1 \in 1..n
      BY <1>2
    <3>2. (\A c \in Calls : GoesOn(c)) /\ Running'
      BY <1>11, <2>4, CallNumbers
    <3>3. OneQueued' /\ OneWrite'
      BY <1>2, <2>1, <3>1, <3>2, ShiftedTokens
    <3>4. QED BY <3>2, <3>3
  <2>9. Starting'
    BY <1>2, <2>1, <2>4 DEF Tokens, Starting
  <2>10. QED BY <2>7, <2>8, <2>9 DEF Tokens
<1>8. CASE init
  <2>1. PICK x \in RootRequests : /\ x = [kind |-> "initNames",
                                          current |-> PropertyOr(root.current, None)]
                                  /\ x.kind = "initNames"
                                  /\ \A b : ~ Asks(x, b) /\ ~ Writes(x, b)
    <3>1. PICK d \in Databases : d = PropertyOr(root.current, None)
      BY DEF TypeOK, PropertyOr, Databases
    <3>2. [kind |-> "initNames", current |-> d] \in RootRequests
      BY RootRequestsMade
    <3>3. QED BY <3>1, <3>2 DEF Asks, Writes
  <2>2. /\ DOMAIN rootQueue' = 1..n
        /\ \A i \in 1..n-1 : rootQueue'[i] = rootQueue[i+1] /\ i+1 \in DOMAIN rootQueue
        /\ rootQueue'[n] = x
    BY <1>4, <1>8, <2>1 DEF init
  <2>3. /\ requests' = requests /\ call' = call /\ connect' = connect
        /\ manager' = manager /\ root' = root
    BY <1>8 DEF init, shown, disk
  <2>4. OneOpen' /\ OneQueued' /\ OneWrite'
    <3>1. n \in Nat /\ 1 \in 1..n /\ \A i \in 1..n : i = n \/ (i \in 1..n-1 /\ i+1 \in 1..n)
      BY <1>2
    <3>4. \A c \in Calls : GoesOn(c)
      BY <1>11, <2>3, CallNumbers
    <3>2. \A i \in 1..n : \/ i+1 \in 1..n /\ rootQueue'[i] = rootQueue[i+1]
                         \/ \A c \in Calls : /\ ~ Asks(rootQueue'[i], c)
                                             /\ ~ Writes(rootQueue'[i], c)
      BY <2>1, <2>2, <3>1
    <3>3. QED BY <1>2, <2>2, <2>3, <3>1, <3>2, <3>4, ShiftedTokens
  <2>5. Running'
    BY <2>3 DEF Tokens, Running, Active
  <2>6. Starting'
    <3>1. \A i \in DOMAIN rootQueue' : \/ \E j \in DOMAIN rootQueue : rootQueue'[i] = rootQueue[j]
                                       \/ rootQueue'[i] = x
      <4>1. \A i \in 1..n : i \in 1..n-1 \/ i = n
        BY <1>2
      <4>2. QED BY <2>2, <4>1
    <3>2. QED BY <2>1, <2>3, <3>1 DEF Tokens, Starting
  <2>7. QED BY <2>4, <2>5, <2>6 DEF Tokens
<1>9. QED BY <1>5, <1>6, <1>7, <1>8 DEF rootAnswers

\* The place of the j-th element before the i-th one was removed.
Skip(i, j) == IF j < i THEN j ELSE j+1

\* What the requests are without the i-th one.
LEMMA RemovedRequests ==
    ASSUME TypeOK, NEW i \in DOMAIN requests, requests' = RemoveAt(requests, i)
    PROVE  /\ \A j \in DOMAIN requests' :
                 /\ Skip(i, j) \in DOMAIN requests /\ Skip(i, j) # i
                 /\ requests'[j] = requests[Skip(i, j)]
           /\ \A j, k \in DOMAIN requests' : Skip(i, j) = Skip(i, k) => j = k
<1>1. /\ Len(requests) \in Nat /\ DOMAIN requests = 1..Len(requests)
      /\ DOMAIN requests' = 1..Len(requests)-1
      /\ \A j \in 1..Len(requests)-1 :
             requests'[j] = IF j < i THEN requests[j] ELSE requests[j+1]
  <2>1. PICK s \in Seq(Requests) : s = requests /\ i \in DOMAIN s
    BY TypeFacts
  <2>2. /\ Len(s) \in Nat /\ DOMAIN s = 1..Len(s) /\ DOMAIN RemoveAt(s, i) = 1..Len(s)-1
        /\ \A j \in 1..Len(s)-1 : RemoveAt(s, i)[j] = IF j < i THEN s[j] ELSE s[j+1]
    BY <2>1, RemoveFacts
  <2>3. requests' = RemoveAt(s, i)
    BY <2>1
  <2>4. QED BY <2>1, <2>2, <2>3
<1>2. i \in 1..Len(requests)
  BY <1>1
<1>3. QED BY <1>1, <1>2 DEF Skip

\* The tokens when a request is answered, and nothing of a call is queued.
LEMMA AnsweredTokens ==
    ASSUME TypeOK, Tokens, NEW i \in DOMAIN requests, requests' = RemoveAt(requests, i),
           \A c \in Calls : call'[c] = call[c] \/ Asks(requests[i], c),
           \A j \in DOMAIN rootQueue' :
               \/ j \in DOMAIN rootQueue /\ rootQueue'[j] = rootQueue[j]
               \/ \A c \in Calls : ~ Asks(rootQueue'[j], c) /\ ~ Writes(rootQueue'[j], c)
    PROVE  OneOpen' /\ OneQueued' /\ OneWrite'
<1>1. ASSUME NEW c \in Calls, Asks(requests[i], c)
      PROVE  /\ \A j \in DOMAIN requests : Asks(requests[j], c) => i = j
             /\ \A j \in DOMAIN rootQueue : ~ Asks(rootQueue[j], c) /\ ~ Writes(rootQueue[j], c)
  BY <1>1 DEF Tokens, OneOpen, OneWrite
<1>2. /\ \A j \in DOMAIN requests' :
                 /\ Skip(i, j) \in DOMAIN requests /\ Skip(i, j) # i
                 /\ requests'[j] = requests[Skip(i, j)]
      /\ \A j, k \in DOMAIN requests' : Skip(i, j) = Skip(i, k) => j = k
  BY RemovedRequests
<1>3. OneOpen'
  <2>1. SUFFICES ASSUME NEW c \in Calls, NEW k \in DOMAIN requests', Asks(requests'[k], c)
                 PROVE  /\ call'[c].at \in {"restoring", "opening"}
                        /\ \A j \in DOMAIN requests' : Asks(requests'[j], c) => k = j
                        /\ \A j \in DOMAIN rootQueue' : ~ Asks(rootQueue'[j], c)
    BY DEF OneOpen
  <2>2. Skip(i, k) \in DOMAIN requests /\ Asks(requests[Skip(i, k)], c) /\ Skip(i, k) # i
    BY <1>2, <2>1
  <2>3. /\ call[c].at \in {"restoring", "opening"}
        /\ \A j \in DOMAIN requests : Asks(requests[j], c) => Skip(i, k) = j
        /\ \A j \in DOMAIN rootQueue : ~ Asks(rootQueue[j], c)
    BY <2>2 DEF Tokens, OneOpen
  <2>4. call'[c] = call[c]
    BY <1>1, <2>2
  <2>5. ASSUME NEW j \in DOMAIN requests', Asks(requests'[j], c)
        PROVE  k = j
    <3>1. Skip(i, k) = Skip(i, j)
      BY <1>2, <2>3, <2>5
    <3>2. QED BY <1>2, <3>1
  <2>6. QED BY <2>3, <2>4, <2>5
<1>4. OneQueued'
  <2>1. SUFFICES ASSUME NEW c \in Calls, NEW k \in DOMAIN rootQueue', Asks(rootQueue'[k], c)
                 PROVE  /\ call'[c].at = "opening"
                        /\ \A j \in DOMAIN rootQueue' : Asks(rootQueue'[j], c) => k = j
    BY DEF OneQueued
  <2>2. \A j \in DOMAIN rootQueue' : Asks(rootQueue'[j], c) =>
             j \in DOMAIN rootQueue /\ Asks(rootQueue[j], c)
    OBVIOUS
  <2>3. /\ call[c].at = "opening"
        /\ \A j \in DOMAIN rootQueue : Asks(rootQueue[j], c) => k = j
    BY <2>1, <2>2 DEF Tokens, OneQueued
  <2>4. call'[c] = call[c]
    BY <1>1, <2>1, <2>2
  <2>5. QED BY <2>2, <2>3, <2>4
<1>5. OneWrite'
  <2>1. SUFFICES ASSUME NEW c \in Calls, NEW k \in DOMAIN rootQueue', Writes(rootQueue'[k], c)
                 PROVE  /\ call'[c].at \in {"writing", "failed"}
                        /\ rootQueue'[k].current = call'[c].wallet
                        /\ \A j \in DOMAIN rootQueue' : Writes(rootQueue'[j], c) => k = j
    BY DEF OneWrite
  <2>2. \A j \in DOMAIN rootQueue' : Writes(rootQueue'[j], c) =>
             j \in DOMAIN rootQueue /\ rootQueue'[j] = rootQueue[j] /\ Writes(rootQueue[j], c)
    OBVIOUS
  <2>3. /\ call[c].at \in {"writing", "failed"} /\ rootQueue[k].current = call[c].wallet
        /\ \A j \in DOMAIN rootQueue : Writes(rootQueue[j], c) => k = j
    BY <2>1, <2>2 DEF Tokens, OneWrite
  <2>4. call'[c] = call[c]
    BY <1>1, <2>1, <2>2
  <2>5. QED BY <2>1, <2>2, <2>3, <2>4
<1>6. QED BY <1>3, <1>4, <1>5

\* What the queue is with a request more.
LEMMA GrownQueue ==
    ASSUME TypeOK, NEW x \in RootRequests, rootQueue' = Append(rootQueue, x)
    PROVE  /\ Len(rootQueue) \in Nat /\ DOMAIN rootQueue = 1..Len(rootQueue)
           /\ Len(rootQueue') = Len(rootQueue) + 1 /\ DOMAIN rootQueue' = 1..Len(rootQueue)+1
           /\ \A j \in 1..Len(rootQueue) : rootQueue'[j] = rootQueue[j]
           /\ rootQueue'[Len(rootQueue)+1] = x
BY TypeFacts, AppendFacts

\* What the queue is with two requests more.
LEMMA GrownTwice ==
    ASSUME TypeOK, NEW x \in RootRequests, NEW y \in RootRequests,
           rootQueue' = Append(Append(rootQueue, x), y)
    PROVE  /\ Len(rootQueue) \in Nat /\ DOMAIN rootQueue = 1..Len(rootQueue)
           /\ Len(rootQueue') = Len(rootQueue) + 2 /\ DOMAIN rootQueue' = 1..Len(rootQueue)+2
           /\ \A j \in 1..Len(rootQueue) : rootQueue'[j] = rootQueue[j]
           /\ rootQueue'[Len(rootQueue)+1] = x /\ rootQueue'[Len(rootQueue)+2] = y
<1>1. rootQueue \in Seq(RootRequests) /\ Len(rootQueue) \in Nat
      /\ DOMAIN rootQueue = 1..Len(rootQueue)
  BY TypeFacts
<1>2. PICK t \in Seq(RootRequests) :
          /\ t = Append(rootQueue, x) /\ Len(t) = Len(rootQueue) + 1
          /\ \A j \in 1..Len(rootQueue) : t[j] = rootQueue[j]
          /\ t[Len(rootQueue)+1] = x
  <2>1. PICK s \in Seq(RootRequests) : s = rootQueue
    BY <1>1
  <2>2. /\ Append(s, x) \in Seq(RootRequests) /\ Len(Append(s, x)) = Len(s) + 1
        /\ \A j \in 1..Len(s) : Append(s, x)[j] = s[j]
        /\ Append(s, x)[Len(s)+1] = x
    BY AppendFacts
  <2>3. QED BY <2>1, <2>2
<1>3. /\ Len(Append(t, y)) = Len(t) + 1 /\ DOMAIN Append(t, y) = 1..Len(t)+1
      /\ \A j \in 1..Len(t) : Append(t, y)[j] = t[j]
      /\ Append(t, y)[Len(t)+1] = y
  BY AppendFacts
<1>4. rootQueue' = Append(t, y)
  BY <1>2
<1>5. Len(t)+1 = Len(rootQueue) + 2
  BY <1>1, <1>2
<1>6. Len(rootQueue') = Len(rootQueue) + 2 /\ DOMAIN rootQueue' = 1..Len(rootQueue)+2
  BY <1>3, <1>4, <1>5
<1>7. rootQueue'[Len(rootQueue)+1] = x /\ rootQueue'[Len(rootQueue)+2] = y
  <2>1. Len(rootQueue)+1 \in 1..Len(t)
    BY <1>1, <1>2
  <2>2. QED BY <1>2, <1>3, <1>4, <1>5, <2>1
<1>8. ASSUME NEW j \in 1..Len(rootQueue)
      PROVE  rootQueue'[j] = rootQueue[j]
  <2>1. j \in 1..Len(t)
    BY <1>1, <1>2
  <2>2. QED BY <1>2, <1>3, <1>4, <2>1
<1>9. QED BY <1>1, <1>6, <1>7, <1>8

\* The answers of IndexedDB to open and delete keep the tokens.
LEMMA RequestTokens ==
    ASSUME TypeOK, Tokens, NEW i \in DOMAIN requests, opened(i) \/ openFailed(i) \/ deleted(i)
    PROVE  Tokens'
<1>1. PICK r \in Requests : r = requests[i]
  BY TypeFacts
<1>2. CASE opened(i) /\ r.by = Start
  <2>1. /\ connect' = [connect EXCEPT !.from = r.db, !.init = TRUE]
        /\ rootQueue' = Append(rootQueue, [kind |-> "initCurrent"]) /\ call' = call
        /\ requests' = RemoveAt(requests, i)
    BY <1>1, <1>2 DEF opened
  <2>2. /\ Len(rootQueue) \in Nat /\ DOMAIN rootQueue = 1..Len(rootQueue)
        /\ DOMAIN rootQueue' = 1..Len(rootQueue)+1
        /\ \A j \in 1..Len(rootQueue) : rootQueue'[j] = rootQueue[j]
        /\ rootQueue'[Len(rootQueue)+1] = [kind |-> "initCurrent"]
    BY <2>1, RootRequestsMade, GrownQueue
  <2>3. \A j \in DOMAIN rootQueue' :
               \/ j \in DOMAIN rootQueue /\ rootQueue'[j] = rootQueue[j]
               \/ \A c \in Calls : ~ Asks(rootQueue'[j], c) /\ ~ Writes(rootQueue'[j], c)
    BY <2>2 DEF Asks, Writes
  <2>4. OneOpen' /\ OneQueued' /\ OneWrite'
    BY <2>1, <2>3, AnsweredTokens
  <2>5. connect'.ready = connect.ready /\ connect'.init
    BY <2>1, TypeFacts
  <2>6. Running' /\ Starting'
    BY <2>1, <2>2, <2>5 DEF Tokens, Running, Active, Starting
  <2>7. QED BY <2>4, <2>6 DEF Tokens
<1>3. CASE opened(i) /\ r.by # Start
  <2>1. PICK c \in Calls : c = r.by
    BY <1>1, <1>3, RequestFacts DEF opened
  <2>2. PICK at \in {"putting", "loading"} :
               /\ call' = [call EXCEPT ![c].from = r.db, ![c].at = at]
               /\ UNCHANGED <<connect, rootQueue>>
               /\ requests' = RemoveAt(requests, i)
    BY <1>1, <1>3, <2>1 DEF opened
  <2>3. /\ Asks(requests[i], c)
        /\ \A b \in Calls : b # c => call'[b] = call[b]
        /\ call'[c].wallet = call[c].wallet
    BY <1>1, <1>3, <2>1, <2>2, TypeFacts DEF opened, Asks, CallRecords
  <2>4. OneOpen' /\ OneQueued' /\ OneWrite'
    BY <2>2, <2>3, AnsweredTokens
  <2>5. Active(c)
    BY <2>3 DEF Tokens, OneOpen, Active, Ended
  <2>6. manager' = manager /\ root' = root
    BY <1>3 DEF opened, shown, disk
  <2>7. Running' /\ Starting'
    BY <2>2, <2>3, <2>5, <2>6 DEF Tokens, Running, Active, Starting
  <2>8. QED BY <2>4, <2>7 DEF Tokens
<1>4. CASE openFailed(i)
  <2>1. PICK c \in Calls : c = r.by
    BY <1>1, <1>4 DEF openFailed
  <2>2. /\ call' = [call EXCEPT ![c].at = "failed"] /\ requests' = RemoveAt(requests, i)
        /\ rootQueue' = rootQueue /\ connect' = connect /\ manager' = manager /\ root' = root
    BY <1>1, <1>4, <2>1 DEF openFailed, shown, disk
  <2>3. /\ Asks(requests[i], c) /\ call'[c].at = "failed"
        /\ \A b \in Calls : b # c => call'[b] = call[b]
    BY <1>1, <1>4, <2>1, <2>2, TypeFacts DEF openFailed, Asks, CallRecords
  <2>4. OneOpen' /\ OneQueued' /\ OneWrite'
    BY <2>2, <2>3, AnsweredTokens
  <2>5. Running' /\ Starting'
    BY <2>2, <2>3 DEF Tokens, Running, Active, Starting, Ended
  <2>6. QED BY <2>4, <2>5 DEF Tokens
<1>5. CASE deleted(i)
  <2>1. /\ requests' = RemoveAt(requests, i) /\ call' = call /\ rootQueue' = rootQueue
        /\ connect' = connect /\ manager' = manager /\ root' = root
    BY <1>5 DEF deleted, shown
  <2>2. OneOpen' /\ OneQueued' /\ OneWrite'
    BY <2>1, AnsweredTokens
  <2>3. Running' /\ Starting'
    BY <2>1 DEF Tokens, Running, Active, Starting
  <2>4. QED BY <2>2, <2>3 DEF Tokens
<1>6. QED BY <1>2, <1>3, <1>4, <1>5

\* So do the loads and the end of the page.
LEMMA PageTokens ==
    ASSUME TypeOK, Tokens, collected \/ walletLoaded \/ Connect \/ _updateWallet \/ reload
    PROVE  Tokens'
<1>1. CASE collected \/ _updateWallet
  BY <1>1, SameTokens DEF collected, _updateWallet, tokenVars, disk, shown
<1>2. CASE walletLoaded
  <2>1. /\ connect' = [connect EXCEPT !.from = Unset, !.ready = @ \/ ~ connect.init]
        /\ connect.from # Unset /\ requests' = requests /\ rootQueue' = rootQueue /\ call' = call
        /\ manager' = manager /\ root' = root
    BY <1>2 DEF walletLoaded, disk
  <2>2. connect'.from = Unset /\ (connect.ready => connect'.ready)
    BY <2>1, TypeFacts
  <2>3. OneOpen' /\ OneQueued' /\ OneWrite' /\ Running'
    BY <2>1, <2>2 DEF Tokens, OneOpen, OneQueued, OneWrite, Running, Active
  <2>4. Starting'
    BY <2>1, <2>2 DEF Tokens, Starting
  <2>5. QED BY <2>3, <2>4 DEF Tokens
<1>3. CASE Connect
  <2>1. /\ connect' = [connect EXCEPT !.from = handle, !.init = TRUE] /\ connect.ready
        /\ rootQueue' = Append(rootQueue, [kind |-> "initCurrent"])
        /\ requests' = requests /\ call' = call
    BY <1>3 DEF Connect
  <2>2. /\ Len(rootQueue) \in Nat /\ DOMAIN rootQueue = 1..Len(rootQueue)
        /\ DOMAIN rootQueue' = 1..Len(rootQueue)+1
        /\ \A j \in 1..Len(rootQueue) : rootQueue'[j] = rootQueue[j]
        /\ rootQueue'[Len(rootQueue)+1] = [kind |-> "initCurrent"]
    BY <2>1, RootRequestsMade, GrownQueue
  <2>3. \A j \in DOMAIN rootQueue' :
               \/ j \in DOMAIN rootQueue /\ rootQueue'[j] = rootQueue[j]
               \/ \A c \in Calls : ~ Asks(rootQueue'[j], c) /\ ~ Writes(rootQueue'[j], c)
    BY <2>2 DEF Asks, Writes
  <2>4. connect'.ready
    BY <2>1, TypeFacts
  <2>5. OneOpen'
    BY <2>1, <2>3 DEF Tokens, OneOpen
  <2>6. OneQueued'
    BY <2>1, <2>3 DEF Tokens, OneQueued
  <2>7. OneWrite'
    BY <2>1, <2>3 DEF Tokens, OneWrite
  <2>8. Running' /\ Starting'
    BY <2>1, <2>4 DEF Tokens, Running, Active, Starting
  <2>9. QED BY <2>5, <2>6, <2>7, <2>8 DEF Tokens
<1>4. CASE reload
  <2>1. /\ requests' = <<>> /\ rootQueue' = <<AskOpen(Start)>>
        /\ connect' = [ready |-> FALSE, from |-> Unset, init |-> FALSE]
        /\ \A c \in Calls : call'[c].at \in {"idle", "done"}
    BY <1>4 DEF reload, NoCall
  <2>2. /\ DOMAIN requests' = {} /\ DOMAIN rootQueue' = {1} /\ rootQueue'[1].kind = "open"
        /\ \A c \in Calls : ~ Asks(rootQueue'[1], c) /\ ~ Writes(rootQueue'[1], c)
    BY <2>1, CallNumbers DEF AskOpen, Asks, Writes
  <2>3. OneOpen' /\ OneQueued' /\ OneWrite'
    BY <2>2 DEF OneOpen, OneQueued, OneWrite
  <2>4. Running' /\ Starting'
    BY <2>1, <2>2 DEF Running, Active, Ended, Starting
  <2>5. QED BY <2>3, <2>4 DEF Tokens
<1>5. QED BY <1>1, <1>2, <1>3, <1>4

\* A call that asks nothing of IndexedDB may go on.
LEMMA PhaseTokens ==
    ASSUME TypeOK, Tokens, NEW c \in Calls,
           call[c].at \in {"putting", "loading", "accounts", "creating"},
           NEW at \in {"failed", "done", "accounts", "creating"},
           call' = [call EXCEPT ![c].at = at],
           requests' = requests, rootQueue' = rootQueue, connect' = connect,
           manager'.names = manager.names, root' = root
    PROVE  Tokens'
<1>1. /\ call'[c].wallet = call[c].wallet /\ call'[c].at = at
      /\ \A b \in Calls : b # c => call'[b] = call[b]
  BY TypeFacts DEF CallRecords
<1>2. Active(c)
  BY DEF Active, Ended
<1>3. OneOpen'
  BY <1>1 DEF Tokens, OneOpen
<1>4. OneQueued'
  BY <1>1 DEF Tokens, OneQueued
<1>5. OneWrite'
  BY <1>1 DEF Tokens, OneWrite
<1>6. Running' /\ Starting'
  BY <1>1, <1>2 DEF Tokens, Running, Active, Starting
<1>7. QED BY <1>3, <1>4, <1>5, <1>6 DEF Tokens

\* A call without a request under way may write.
LEMMA OnSetWalletTokens ==
    ASSUME TypeOK, Tokens, NEW c \in Calls, NEW w \in Wallets, NEW to \in CallRecords,
           to.wallet = w, onSetWallet(c, w, to), call[c].at \in {"idle", "putting"},
           connect.ready, connect' = connect, requests' = requests
    PROVE  Tokens'
<1>1. /\ \A j \in DOMAIN requests : ~ Asks(requests[j], c)
      /\ \A j \in DOMAIN rootQueue : ~ Asks(rootQueue[j], c) /\ ~ Writes(rootQueue[j], c)
  BY DEF Tokens, OneOpen, OneQueued, OneWrite
<1>2. Starting'
  BY DEF Starting
<1>3. CASE manager.current = w
  <2>1. call' = [call EXCEPT ![c] = [to EXCEPT !.at = "done"]] /\ rootQueue' = rootQueue
    BY <1>3 DEF onSetWallet
  <2>2. /\ call'[c].at = "done" /\ \A b \in Calls : b # c => call'[b] = call[b]
    BY <2>1, TypeFacts DEF CallRecords
  <2>3. OneOpen' /\ OneQueued'
    BY <1>1, <2>1, <2>2 DEF Tokens, OneOpen, OneQueued
  <2>4. OneWrite' /\ Running'
    BY <1>1, <2>1, <2>2 DEF Tokens, OneWrite, Running, Active, Ended
  <2>5. QED BY <1>2, <2>3, <2>4 DEF Tokens
<1>4. CASE manager.current # w
  <2>1. call' = [call EXCEPT ![c] = [to EXCEPT !.at = "writing"]]
    BY <1>4 DEF onSetWallet
  <2>2. /\ call'[c].at = "writing" /\ call'[c].wallet = w
        /\ \A b \in Calls : b # c => call'[b] = call[b]
    BY <2>1, TypeFacts DEF CallRecords
  <2>3. PICK x \in RootRequests :
            /\ x = PutNames(manager.names \cup {w}, {}, c)
            /\ \A b \in Calls : ~ Asks(x, b) /\ ~ Writes(x, b)
    BY <1>4, OnSetWalletQueue DEF PutNames, Asks, Writes
  <2>4. PICK y \in RootRequests :
            /\ y = PutCurrent(w, c) /\ y.current = w
            /\ \A b \in Calls : ~ Asks(y, b) /\ (Writes(y, b) <=> b = c)
    BY <1>4, OnSetWalletQueue DEF PutCurrent, Asks, Writes
  <2>5. PICK m \in DOMAIN rootQueue' :
            /\ rootQueue'[m] = y
            /\ \A j \in DOMAIN rootQueue' :
                  \/ j \in DOMAIN rootQueue /\ rootQueue'[j] = rootQueue[j]
                  \/ j = m \/ rootQueue'[j] = x
    <3>1. CASE w \in manager.names
      <4>1. rootQueue' = Append(rootQueue, y)
        BY <1>4, <2>4, <3>1, OnSetWalletQueue
      <4>2. QED BY <4>1, GrownQueue
    <3>2. CASE w \notin manager.names
      <4>1. rootQueue' = Append(Append(rootQueue, x), y)
        BY <1>4, <2>3, <2>4, <3>2, OnSetWalletQueue
      <4>2. /\ Len(rootQueue) \in Nat /\ DOMAIN rootQueue = 1..Len(rootQueue)
            /\ DOMAIN rootQueue' = 1..Len(rootQueue)+2
            /\ \A j \in 1..Len(rootQueue) : rootQueue'[j] = rootQueue[j]
            /\ rootQueue'[Len(rootQueue)+1] = x /\ rootQueue'[Len(rootQueue)+2] = y
        BY <4>1, GrownTwice
      <4>3. /\ Len(rootQueue)+2 \in DOMAIN rootQueue'
            /\ \A j \in DOMAIN rootQueue' : \/ j \in 1..Len(rootQueue)
                                            \/ j = Len(rootQueue)+1 \/ j = Len(rootQueue)+2
        BY <4>2
      <4>4. QED BY <4>2, <4>3
    <3>3. QED BY <3>1, <3>2
  <2>6. OneOpen'
    <3>1. SUFFICES ASSUME NEW b \in Calls, NEW i \in DOMAIN requests, Asks(requests[i], b)
                   PROVE  /\ call'[b].at \in {"restoring", "opening"}
                          /\ \A j \in DOMAIN requests : Asks(requests[j], b) => i = j
                          /\ \A j \in DOMAIN rootQueue' : ~ Asks(rootQueue'[j], b)
      BY DEF OneOpen
    <3>2. /\ call[b].at \in {"restoring", "opening"} /\ b # c
          /\ \A j \in DOMAIN requests : Asks(requests[j], b) => i = j
          /\ \A j \in DOMAIN rootQueue : ~ Asks(rootQueue[j], b)
      BY <1>1, <3>1 DEF Tokens, OneOpen
    <3>3. QED BY <2>2, <2>3, <2>4, <2>5, <3>2
  <2>7. OneQueued'
    <3>1. SUFFICES ASSUME NEW b \in Calls, NEW i \in DOMAIN rootQueue', Asks(rootQueue'[i], b)
                   PROVE  /\ call'[b].at = "opening"
                          /\ \A j \in DOMAIN rootQueue' : Asks(rootQueue'[j], b) => i = j
      BY DEF OneQueued
    <3>2. \A j \in DOMAIN rootQueue' : Asks(rootQueue'[j], b) =>
              j \in DOMAIN rootQueue /\ Asks(rootQueue[j], b)
      BY <2>3, <2>4, <2>5
    <3>3. /\ call[b].at = "opening" /\ b # c
          /\ \A j \in DOMAIN rootQueue : Asks(rootQueue[j], b) => i = j
      BY <1>1, <3>1, <3>2 DEF Tokens, OneQueued
    <3>4. QED BY <2>2, <3>2, <3>3
  <2>8. OneWrite'
    <3>1. SUFFICES ASSUME NEW b \in Calls, NEW i \in DOMAIN rootQueue', Writes(rootQueue'[i], b)
                   PROVE  /\ call'[b].at \in {"writing", "failed"}
                          /\ rootQueue'[i].current = call'[b].wallet
                          /\ \A j \in DOMAIN rootQueue' : Writes(rootQueue'[j], b) => i = j
      BY DEF OneWrite
    <3>2. \A j \in DOMAIN rootQueue' : Writes(rootQueue'[j], b) =>
              \/ b = c /\ j = m
              \/ b # c /\ j \in DOMAIN rootQueue /\ rootQueue'[j] = rootQueue[j]
                 /\ Writes(rootQueue[j], b)
      BY <1>1, <2>3, <2>4, <2>5
    <3>3. CASE b = c
      BY <2>2, <2>4, <2>5, <3>1, <3>2, <3>3
    <3>4. CASE b # c
      <4>1. /\ call[b].at \in {"writing", "failed"} /\ rootQueue[i].current = call[b].wallet
            /\ \A j \in DOMAIN rootQueue : Writes(rootQueue[j], b) => i = j
        BY <3>1, <3>2, <3>4 DEF Tokens, OneWrite
      <4>2. QED BY <2>2, <3>1, <3>2, <3>4, <4>1
    <3>5. QED BY <3>3, <3>4
  <2>9. Running'
    BY <2>2 DEF Tokens, Running, Active
  <2>10. QED BY <1>2, <2>6, <2>7, <2>8, <2>9 DEF Tokens
<1>5. QED BY <1>3, <1>4

\* The steps of calls keep the tokens.
LEMMA CallTokens ==
    ASSUME TypeOK, Tokens, NEW c \in Calls,
           \/ \E w \in Wallets : (\E create \in BOOLEAN : setWallet(c, w, create))
                                 \/ restore(c, w)
           \/ restored(c) \/ restoreFailed(c) \/ loaded(c) \/ accountsLoaded(c)
           \/ accountsFailed(c) \/ created(c) \/ notCreated(c)
    PROVE  Tokens'
<1>1. call[c] \in CallRecords
  BY TypeFacts
<1>2. ASSUME NEW w \in Wallets, NEW create \in BOOLEAN, setWallet(c, w, create)
      PROVE  Tokens'
  <2>1. PICK to \in CallRecords : to = [NoCall EXCEPT !.wallet = w, !.create = create]
                                  /\ to.wallet = w
    <3>1. [NoCall EXCEPT !.wallet = w, !.create = create] \in CallRecords
      BY CallFacts DEF Databases
    <3>2. [NoCall EXCEPT !.wallet = w, !.create = create].wallet = w
      BY DEF NoCall
    <3>3. QED BY <3>1, <3>2
  <2>2. /\ onSetWallet(c, w, to) /\ call[c].at = "idle"
        /\ connect.ready /\ connect' = connect /\ requests' = requests
    BY <1>2, <2>1 DEF setWallet, NextCall
  <2>3. QED BY <2>1, <2>2, OnSetWalletTokens
<1>3. ASSUME NEW w \in Wallets, restore(c, w)
      PROVE  Tokens'
  <2>1. PICK x \in Requests : /\ x = [kind |-> "open", db |-> w, by |-> c]
                              /\ \A b \in Calls : Asks(x, b) <=> b = c
    <3>1. [kind |-> "open", db |-> w, by |-> c] \in Requests
      BY RequestFacts DEF Databases
    <3>2. QED BY <3>1 DEF Asks
  <2>2. /\ requests' = Append(requests, x) /\ rootQueue' = rootQueue /\ connect' = connect
        /\ call' = [call EXCEPT ![c] = [NoCall EXCEPT !.wallet = w, !.at = "restoring"]]
        /\ connect.ready /\ call[c].at = "idle"
    BY <1>3, <2>1 DEF restore, NextCall
  <2>3. /\ call'[c].wallet = w /\ call'[c].at = "restoring"
        /\ \A b \in Calls : b # c => call'[b] = call[b]
    BY <2>2, TypeFacts DEF NoCall
  <2>4. PICK n \in Nat : /\ n = Len(requests)
                         /\ DOMAIN requests = 1..n /\ DOMAIN requests' = 1..n+1
                         /\ \A j \in 1..n : requests'[j] = requests[j]
                         /\ requests'[n+1] = x
    <3>1. requests \in Seq(Requests)
      BY TypeFacts
    <3>2. /\ Len(requests) \in Nat
          /\ DOMAIN requests = 1..Len(requests) /\ DOMAIN requests' = 1..Len(requests)+1
          /\ \A j \in 1..Len(requests) : requests'[j] = requests[j]
          /\ requests'[Len(requests)+1] = x
      BY <2>2, <3>1, AppendFacts
    <3>3. QED BY <3>2
  <2>5. /\ \A j \in DOMAIN requests : ~ Asks(requests[j], c)
        /\ \A j \in DOMAIN rootQueue : ~ Asks(rootQueue[j], c) /\ ~ Writes(rootQueue[j], c)
    BY <2>2 DEF Tokens, OneOpen, OneQueued, OneWrite
  <2>6. OneOpen'
    <3>1. SUFFICES ASSUME NEW b \in Calls, NEW i \in DOMAIN requests', Asks(requests'[i], b)
                   PROVE  /\ call'[b].at \in {"restoring", "opening"}
                          /\ \A j \in DOMAIN requests' : Asks(requests'[j], b) => i = j
                          /\ \A j \in DOMAIN rootQueue : ~ Asks(rootQueue[j], b)
      BY <2>2 DEF OneOpen
    <3>2. CASE b = c
      <4>1. \A j \in DOMAIN requests' : Asks(requests'[j], c) => j = n+1
        BY <2>4, <2>5
      <4>2. QED BY <2>3, <2>5, <3>1, <3>2, <4>1
    <3>3. CASE b # c
      <4>1. \A j \in DOMAIN requests' : Asks(requests'[j], b) =>
                j \in DOMAIN requests /\ Asks(requests[j], b)
        BY <2>1, <2>4, <3>3
      <4>2. QED BY <2>3, <3>1, <3>3, <4>1 DEF Tokens, OneOpen
    <3>4. QED BY <3>2, <3>3
  <2>7. OneQueued'
    BY <2>2, <2>3, <2>5 DEF Tokens, OneQueued
  <2>8. OneWrite'
    BY <2>2, <2>3, <2>5 DEF Tokens, OneWrite
  <2>9. Running' /\ Starting'
    BY <2>2, <2>3 DEF Tokens, Running, Active, Starting
  <2>10. QED BY <2>6, <2>7, <2>8, <2>9 DEF Tokens
<1>4. CASE restored(c)
  <2>1. Active(c)
    BY <1>4 DEF restored, Active, Ended
  <2>2. PICK w \in Wallets : w = call[c].wallet /\ connect.ready
    BY <2>1 DEF Tokens, Running
  <2>3. /\ onSetWallet(c, w, call[c]) /\ call[c].at = "putting"
        /\ connect' = connect /\ requests' = requests
    BY <1>4, <2>2 DEF restored
  <2>4. QED BY <1>1, <2>2, <2>3, OnSetWalletTokens
<1>5. CASE restoreFailed(c)
  BY <1>5, PhaseTokens DEF restoreFailed, disk, shown
<1>6. CASE loaded(c)
  <2>1. PICK at \in {"failed", "accounts"} : call' = [call EXCEPT ![c].at = at]
    BY <1>6 DEF loaded
  <2>2. QED BY <1>6, <2>1, PhaseTokens DEF loaded, disk
<1>7. CASE accountsLoaded(c)
  <2>1. PICK at \in {"creating", "done"} : call' = [call EXCEPT ![c].at = at]
    BY <1>7 DEF accountsLoaded
  <2>2. manager'.names = manager.names
    BY <1>7, TypeFacts DEF accountsLoaded
  <2>3. QED BY <1>7, <2>1, <2>2, PhaseTokens DEF accountsLoaded, disk
<1>8. CASE accountsFailed(c)
  BY <1>8, PhaseTokens DEF accountsFailed, disk, shown
<1>9. CASE created(c)
  <2>1. manager'.names = manager.names
    BY <1>9, TypeFacts DEF created
  <2>2. QED BY <1>9, <2>1, PhaseTokens DEF created
<1>10. CASE notCreated(c)
  <2>1. manager'.names = manager.names
    BY <1>10, TypeFacts DEF notCreated
  <2>2. QED BY <1>10, <2>1, PhaseTokens DEF notCreated, disk
<1>11. QED BY <1>2, <1>3, <1>4, <1>5, <1>6, <1>7, <1>8, <1>9, <1>10

\* What the queue and the manager are after a deletion.
LEMMA DeleteQueue ==
    ASSUME TypeOK, NEW w \in Wallets, onDeleteWallet(w)
    PROVE  \E x \in RootRequests :
             /\ x.kind = "names" /\ x.names = manager.names \ {w} /\ x.gone = {w}
             /\ manager'.names = manager.names \ {w}
             /\ \/ /\ manager.current # w /\ rootQueue' = Append(rootQueue, x)
                   /\ manager'.current = manager.current
                \/ \E n \in Databases : \E y \in RootRequests :
                     /\ manager.current = w
                     /\ rootQueue' = Append(Append(rootQueue, x), y)
                     /\ y.kind = "current" /\ y.current = n /\ y.by = Unset
                     /\ n = None \/ n \in manager.names \ {w}
<1>1. manager.names \ {w} \in SUBSET Wallets /\ {w} \in SUBSET Wallets
  BY TypeFacts
<1>2. PICK x \in RootRequests :
          /\ x = PutNames(manager.names \ {w}, {w}, Unset)
          /\ x.kind = "names" /\ x.names = manager.names \ {w} /\ x.gone = {w}
  BY <1>1, RootRequestsMade
<1>3. CASE manager.current # w
  <2>1. /\ manager' = [manager EXCEPT !.names = manager.names \ {w}]
        /\ rootQueue' = Append(rootQueue, x)
    BY <1>2, <1>3 DEF onDeleteWallet
  <2>2. manager'.names = manager.names \ {w} /\ manager'.current = manager.current
    BY <2>1, TypeFacts
  <2>3. QED BY <1>2, <1>3, <2>1, <2>2
<1>4. CASE manager.current = w
  <2>1. PICK n \in (IF manager.names \ {w} = {} THEN {None} ELSE manager.names \ {w}) :
            /\ manager' = [names |-> manager.names \ {w}, current |-> n]
            /\ rootQueue' = rootQueue \o <<PutNames(manager.names \ {w}, {w}, Unset),
                                           PutCurrent(n, Unset)>>
    BY <1>4 DEF onDeleteWallet
  <2>2. n \in Databases /\ (n = None \/ n \in manager.names \ {w})
    BY <1>1, <2>1 DEF Databases
  <2>3. PICK y \in RootRequests : /\ y = PutCurrent(n, Unset)
                                  /\ y.kind = "current" /\ y.current = n /\ y.by = Unset
    BY <2>2, RootRequestsMade
  <2>4. rootQueue' = rootQueue \o <<x, y>> /\ rootQueue \in Seq(RootRequests)
    BY <1>2, <2>1, <2>3, TypeFacts
  <2>5. rootQueue' = Append(Append(rootQueue, x), y)
    BY <2>4, AppendTwice
  <2>6. manager'.names = manager.names \ {w}
    BY <2>1
  <2>7. QED BY <1>2, <1>4, <2>2, <2>3, <2>5, <2>6
<1>5. QED BY <1>3, <1>4

\* A deletion asks nothing in the name of a call.
LEMMA DeleteTokens ==
    ASSUME TypeOK, Tokens, NEW w \in Wallets, onDeleteWallet(w)
    PROVE  Tokens'
<1>1. PICK r \in Requests : r = [kind |-> "delete", db |-> w]
                            /\ \A c \in Calls : ~ Asks(r, c)
  BY RequestFacts DEF Asks
<1>2. /\ requests' = Append(requests, r) /\ call' = call /\ connect' = connect /\ connect.ready
  BY <1>1 DEF onDeleteWallet
<1>3. \A j \in DOMAIN requests' : \/ j \in DOMAIN requests /\ requests'[j] = requests[j]
                                  \/ \A c \in Calls : ~ Asks(requests'[j], c)
  BY <1>1, <1>2, TypeFacts, AppendFacts
<1>4. \A j \in DOMAIN rootQueue' :
          \/ j \in DOMAIN rootQueue /\ rootQueue'[j] = rootQueue[j]
          \/ \A c \in Calls : ~ Asks(rootQueue'[j], c) /\ ~ Writes(rootQueue'[j], c)
  <2>1. PICK x \in RootRequests :
             /\ x.kind = "names"
             /\ \/ rootQueue' = Append(rootQueue, x)
                \/ \E y \in RootRequests :
                     /\ rootQueue' = Append(Append(rootQueue, x), y)
                     /\ y.kind = "current" /\ y.by = Unset
    BY DeleteQueue
  <2>2. \A c \in Calls : ~ Asks(x, c) /\ ~ Writes(x, c)
    BY <2>1 DEF Asks, Writes
  <2>3. CASE rootQueue' = Append(rootQueue, x)
    BY <2>2, <2>3, GrownQueue
  <2>4. ASSUME NEW y \in RootRequests, rootQueue' = Append(Append(rootQueue, x), y),
               y.kind = "current" /\ y.by = Unset
        PROVE  \A j \in DOMAIN rootQueue' :
                  \/ j \in DOMAIN rootQueue /\ rootQueue'[j] = rootQueue[j]
                  \/ \A c \in Calls : ~ Asks(rootQueue'[j], c) /\ ~ Writes(rootQueue'[j], c)
    <3>1. \A c \in Calls : ~ Asks(y, c) /\ ~ Writes(y, c)
      BY <2>4, CallNumbers DEF Asks, Writes
    <3>2. \A j \in DOMAIN rootQueue' :
              \/ j \in DOMAIN rootQueue /\ rootQueue'[j] = rootQueue[j]
              \/ rootQueue'[j] \in {x, y}
      <4>1. /\ Len(rootQueue) \in Nat /\ DOMAIN rootQueue = 1..Len(rootQueue)
            /\ DOMAIN rootQueue' = 1..Len(rootQueue)+2
            /\ \A j \in 1..Len(rootQueue) : rootQueue'[j] = rootQueue[j]
            /\ rootQueue'[Len(rootQueue)+1] = x /\ rootQueue'[Len(rootQueue)+2] = y
        BY <2>4, GrownTwice
      <4>2. \A j \in DOMAIN rootQueue' : \/ j \in 1..Len(rootQueue)
                                         \/ j = Len(rootQueue)+1 \/ j = Len(rootQueue)+2
        BY <4>1
      <4>3. QED BY <4>1, <4>2
    <3>3. QED BY <2>2, <3>1, <3>2
  <2>5. QED BY <2>1, <2>3, <2>4
<1>5. OneOpen'
  BY <1>2, <1>3, <1>4 DEF Tokens, OneOpen
<1>6. OneQueued'
  BY <1>2, <1>4 DEF Tokens, OneQueued
<1>7. OneWrite'
  BY <1>2, <1>4 DEF Tokens, OneWrite
<1>8. Running' /\ Starting'
  BY <1>2 DEF Tokens, Running, Active, Starting
<1>9. QED BY <1>5, <1>6, <1>7, <1>8 DEF Tokens

-----------------------------------------------------------------------------
(* The list of names keeps every wallet.                                   *)

\* What is on the list, and not excepted, was on it, or is put there by the first request.
ShiftedNames ==
    /\ overwritten \subseteq overwritten'
    /\ \A w \in root'.names \ Excepted' :
           \/ Names(1) /\ w \in rootQueue[1].names \ overwritten
           \/ w \in root.names \ Excepted /\ (Names(1) => w \notin rootQueue[1].gone)

\* The lists when the queue loses its head and gets no names.
LEMMA ShiftedLists ==
    ASSUME ShiftedNames, TypeOK, ListsKept, NEW n \in Nat \ {0}, n = Len(rootQueue),
           NEW l \in {n-1, n},
           Len(rootQueue') = l, DOMAIN rootQueue' = 1..l,
           \A j \in 1..n-1 : rootQueue'[j] = rootQueue[j+1],
           l = n => rootQueue'[n].kind # "names"
    PROVE  /\ ListsKept'
           /\ ShownKept /\ manager'.names = manager.names /\ connect'.ready = connect.ready
                 => ShownKept'
<1>1. DOMAIN rootQueue = 1..n /\ l \in Nat
  BY TypeFacts
<1>2. \A j \in 1..l : Names(j)' => /\ j \in 1..n-1 /\ j+1 \in 1..n /\ Names(j+1)
                                  /\ rootQueue'[j] = rootQueue[j+1]
  BY <1>1 DEF Names
<1>3. ASSUME NEW w, NEW i \in Nat, NEW k \in 1..n-1, Lost(w, i+1, k+1)
      PROVE  \A h \in k..l : Lost(w, i, h)'
  <2>1. PICK m \in 1..n : i+1 < m /\ m <= k+1 /\ Names(m) /\ w \in rootQueue[m].gone
    BY <1>1, <1>3 DEF Lost
  <2>2. /\ m-1 \in 1..n-1 /\ m-1 \in 1..l /\ i < m-1 /\ m-1 <= k /\ rootQueue'[m-1] = rootQueue[m]
    BY <1>1, <2>1
  <2>3. QED BY <1>1, <2>1, <2>2 DEF Lost, Names
<1>4. ASSUME NEW w, NEW k \in 1..n-1, Lost(w, 0, k+1), Names(1) => w \notin rootQueue[1].gone
      PROVE  \A h \in k..l : Lost(w, 0, h)'
  <2>1. PICK m \in 1..n : 0 < m /\ m <= k+1 /\ Names(m) /\ w \in rootQueue[m].gone
    BY <1>1, <1>4 DEF Lost
  <2>2. m # 1
    BY <1>4, <2>1
  <2>3. /\ m-1 \in 1..n-1 /\ m-1 \in 1..l /\ 0 < m-1 /\ m-1 <= k /\ rootQueue'[m-1] = rootQueue[m]
    BY <1>1, <2>1, <2>2
  <2>4. QED BY <1>1, <2>1, <2>3 DEF Lost, Names
<1>5. ListsKept'
  <2>1. SUFFICES ASSUME NEW k \in 1..l, Names(k)'
                 PROVE  /\ \A w \in root'.names \ Excepted' :
                               w \in rootQueue'[k].names \/ Lost(w, 0, k)'
                        /\ \A i \in 1..l : i < k /\ Names(i)' =>
                               \A w \in rootQueue'[i].names \ overwritten' :
                                   w \in rootQueue'[k].names \/ Lost(w, i, k)'
    BY DEF ListsKept
  <2>2. k \in 1..n-1 /\ k+1 \in 1..n /\ Names(k+1) /\ rootQueue'[k] = rootQueue[k+1] /\ k \in k..l
    BY <1>1, <1>2, <2>1
  <2>3. /\ \A w \in root.names \ Excepted : w \in rootQueue[k+1].names \/ Lost(w, 0, k+1)
        /\ \A i \in 1..n : i < k+1 /\ Names(i) =>
               \A w \in rootQueue[i].names \ overwritten :
                   w \in rootQueue[k+1].names \/ Lost(w, i, k+1)
    BY <1>1, <2>2 DEF ListsKept
  <2>4. ASSUME NEW w \in root'.names \ Excepted'
        PROVE  w \in rootQueue'[k].names \/ Lost(w, 0, k)'
    <3>1. CASE Names(1) /\ w \in rootQueue[1].names \ overwritten
      <4>1. w \in rootQueue[k+1].names \/ Lost(w, 1, k+1)
        <5>1. 1 \in 1..n /\ 1 < k+1 /\ w \in rootQueue[1].names \ overwritten
          BY <2>2, <3>1
        <5>2. QED BY <2>3, <3>1, <5>1
      <4>2. CASE Lost(w, 1, k+1)
        <5>1. 0 \in Nat /\ 0+1 = 1
          OBVIOUS
        <5>2. QED BY <1>3, <2>2, <4>2, <5>1
      <4>3. QED BY <2>2, <4>1, <4>2
    <3>2. CASE w \in root.names \ Excepted /\ (Names(1) => w \notin rootQueue[1].gone)
      BY <1>4, <2>2, <2>3, <3>2
    <3>3. QED BY <3>1, <3>2 DEF ShiftedNames
  <2>5. ASSUME NEW i \in 1..l, i < k, Names(i)', NEW w \in rootQueue'[i].names \ overwritten'
        PROVE  w \in rootQueue'[k].names \/ Lost(w, i, k)'
    <3>0. w \notin overwritten
      BY <2>5 DEF ShiftedNames
    <3>1. /\ i+1 \in 1..n /\ i+1 < k+1 /\ Names(i+1) /\ i \in Nat
          /\ w \in rootQueue[i+1].names \ overwritten
      BY <1>1, <1>2, <2>2, <2>5, <3>0
    <3>2. w \in rootQueue[k+1].names \/ Lost(w, i+1, k+1)
      BY <2>3, <3>1
    <3>3. QED BY <1>3, <2>2, <3>1, <3>2
  <2>6. QED BY <2>4, <2>5
<1>6. ASSUME ShownKept, manager'.names = manager.names, connect'.ready, connect.ready
      PROVE  ShownKept'
  <2>1. /\ \A w \in root.names \ Excepted : w \in manager.names \/ Lost(w, 0, n)
        /\ \A i \in 1..n : Names(i) =>
               \A w \in rootQueue[i].names \ overwritten : w \in manager.names \/ Lost(w, i, n)
    BY <1>1, <1>6 DEF ShownKept
  <2>2. ASSUME NEW w, NEW i \in Nat, Lost(w, i+1, n)
        PROVE  Lost(w, i, l)'
    <3>1. n # 1 \/ ~ Lost(w, i+1, 1)
      BY DEF Lost
    <3>2. n-1 \in 1..n-1 /\ (n-1)+1 = n /\ l \in n-1..l
      BY <1>1, <2>2, <3>1
    <3>3. QED BY <1>3, <2>2, <3>2
  <2>3. ASSUME NEW w \in root'.names \ Excepted'
        PROVE  w \in manager.names \/ Lost(w, 0, l)'
    <3>1. CASE Names(1) /\ w \in rootQueue[1].names \ overwritten
      <4>1. 1 \in 1..n /\ w \in rootQueue[1].names \ overwritten /\ 0 \in Nat /\ 0+1 = 1
        BY <3>1
      <4>2. w \in manager.names \/ Lost(w, 0+1, n)
        BY <2>1, <3>1, <4>1
      <4>3. QED BY <2>2, <4>1, <4>2
    <3>2. CASE w \in root.names \ Excepted /\ (Names(1) => w \notin rootQueue[1].gone)
      <4>1. w \in manager.names \/ Lost(w, 0, n)
        BY <2>1, <3>2
      <4>2. ASSUME Lost(w, 0, n)
            PROVE  Lost(w, 0, l)'
        <5>1. n # 1 \/ ~ Lost(w, 0, 1)
          BY <3>2 DEF Lost
        <5>2. n-1 \in 1..n-1 /\ (n-1)+1 = n /\ l \in n-1..l
          BY <1>1, <4>2, <5>1
        <5>3. QED BY <1>4, <3>2, <4>2, <5>2
      <4>3. QED BY <4>1, <4>2
    <3>3. QED BY <3>1, <3>2 DEF ShiftedNames
  <2>4. ASSUME NEW i \in 1..l, Names(i)', NEW w \in rootQueue'[i].names \ overwritten'
        PROVE  w \in manager.names \/ Lost(w, i, l)'
    <3>0. w \notin overwritten
      BY <2>4 DEF ShiftedNames
    <3>1. i+1 \in 1..n /\ Names(i+1) /\ w \in rootQueue[i+1].names \ overwritten /\ i \in Nat
      BY <1>1, <1>2, <2>4, <3>0
    <3>2. QED BY <2>1, <2>2, <3>1
  <2>5. QED BY <1>6, <2>3, <2>4 DEF ShownKept
<1>7. QED BY <1>5, <1>6 DEF ShownKept

\* What is queued and shown stays covered when the queue loses its head.
LEMMA ShiftedQueued ==
    ASSUME TypeOK, QueuedCovered, NEW n \in Nat \ {0}, n = Len(rootQueue), NEW l \in {n-1, n},
           DOMAIN rootQueue' = 1..l,
           \A j \in 1..n-1 : rootQueue'[j] = rootQueue[j+1],
           l = n => rootQueue'[n].kind # "current",
           Covered \subseteq Covered', Names(1) => rootQueue[1].names \subseteq Covered',
           manager'.names \subseteq manager.names \cup Covered'
    PROVE  QueuedCovered'
<1>1. DOMAIN rootQueue = 1..n /\ l \in Nat
  BY TypeFacts
<1>2. ASSUME NEW w, NEW i \in 1..n, NEW j \in 1..n, j < i, Names(j), w \in rootQueue[j].names
      PROVE  w \in Covered' \/ \E k \in 1..l : k < i-1 /\ Names(k)' /\ w \in rootQueue'[k].names
  <2>1. CASE j = 1
    BY <1>2, <2>1
  <2>2. CASE j # 1
    <3>1. j-1 \in 1..n-1 /\ j-1 \in 1..l /\ j-1 < i-1 /\ rootQueue'[j-1] = rootQueue[j]
      BY <1>1, <1>2, <2>2
    <3>2. QED BY <1>2, <3>1 DEF Names
  <2>3. QED BY <2>1, <2>2
<1>3. ASSUME NEW i \in 1..l, rootQueue'[i].kind = "current", rootQueue'[i].current # None
      PROVE  \/ rootQueue'[i].current \in Covered'
             \/ \E j \in 1..l : j < i /\ Names(j)' /\ rootQueue'[i].current \in rootQueue'[j].names
  <2>1. i \in 1..n-1 /\ i+1 \in 1..n /\ rootQueue'[i] = rootQueue[i+1] /\ (i+1)-1 = i
    BY <1>1, <1>3
  <2>2. \/ rootQueue[i+1].current \in Covered
        \/ \E j \in 1..n : j < i+1 /\ Names(j) /\ rootQueue[i+1].current \in rootQueue[j].names
    BY <1>1, <1>3, <2>1 DEF QueuedCovered
  <2>3. CASE rootQueue[i+1].current \in Covered
    BY <1>2, <2>1, <2>3
  <2>4. ASSUME NEW j \in 1..n, j < i+1, Names(j), rootQueue[i+1].current \in rootQueue[j].names
        PROVE  \/ rootQueue'[i].current \in Covered'
               \/ \E k \in 1..l : k < i /\ Names(k)'
                                  /\ rootQueue'[i].current \in rootQueue'[k].names
    BY <1>2, <2>1, <2>4
  <2>5. QED BY <2>2, <2>3, <2>4
<1>4. ASSUME NEW w \in manager'.names
      PROVE  w \in Covered' \/ \E j \in 1..l : Names(j)' /\ w \in rootQueue'[j].names
  <2>1. w \in Covered' \/ \E j \in 1..n : Names(j) /\ w \in rootQueue[j].names
    BY <1>1, <1>4 DEF QueuedCovered
  <2>2. ASSUME NEW j \in 1..n, Names(j), w \in rootQueue[j].names
        PROVE  w \in Covered' \/ \E k \in 1..l : Names(k)' /\ w \in rootQueue'[k].names
    <3>1. CASE j = 1
      BY <2>2, <3>1
    <3>2. CASE j # 1
      <4>1. j-1 \in 1..n-1 /\ j-1 \in 1..l /\ rootQueue'[j-1] = rootQueue[j]
        BY <1>1, <3>2
      <4>2. QED BY <2>2, <4>1 DEF Names
    <3>3. QED BY <3>1, <3>2
  <2>3. QED BY <2>1, <2>2
<1>5. QED BY <1>3, <1>4 DEF QueuedCovered

\* The first of the requests after the n-th is to put the names of the manager, when
\* they change, and no other one puts names.
Growth(n, l, G) ==
    /\ n = Len(rootQueue) /\ n <= l /\ Len(rootQueue') = l /\ DOMAIN rootQueue' = 1..l
    /\ \A j \in 1..n : rootQueue'[j] = rootQueue[j]
    /\ manager.names \subseteq manager'.names \cup G
    /\ \A j \in n+1..l : rootQueue'[j].kind = "names" =>
           /\ j = n+1 /\ connect.ready
           /\ rootQueue'[j].names = manager'.names /\ rootQueue'[j].gone = G
    /\ G = {} \/ (n < l /\ rootQueue'[n+1].kind = "names")
    /\ root'.names = root.names /\ connect'.ready = connect.ready
    /\ unlisted \subseteq unlisted' /\ overwritten' = overwritten

\* The lists when the manager's names are queued, or nothing is.
LEMMA GrownLists ==
    ASSUME TypeOK, ListsKept, ShownKept, NEW n \in Nat, NEW l \in Nat, NEW G, Growth(n, l, G)
    PROVE  ListsKept' /\ ShownKept'
<1>0. /\ n = Len(rootQueue) /\ n <= l /\ Len(rootQueue') = l /\ DOMAIN rootQueue' = 1..l
      /\ \A j \in 1..n : rootQueue'[j] = rootQueue[j]
      /\ manager.names \subseteq manager'.names \cup G
      /\ root'.names = root.names /\ connect'.ready = connect.ready
      /\ Excepted \subseteq Excepted' /\ overwritten' = overwritten
  BY DEF Growth, Excepted
<1>1. DOMAIN rootQueue = 1..n
  BY <1>0, TypeFacts
<1>2. /\ \A j \in 1..n : Names(j)' = Names(j)
      /\ \A j \in n+1..l : Names(j)' =>
               /\ j = n+1 /\ connect.ready
               /\ rootQueue'[j].names = manager'.names /\ rootQueue'[j].gone = G
      /\ G = {} \/ (n < l /\ Names(n+1)')
  BY <1>0 DEF Names, Growth
<1>3. ASSUME NEW w, NEW i \in Nat, NEW k \in 1..n, Lost(w, i, k)
      PROVE  \A h \in k..l : Lost(w, i, h)'
  BY <1>0, <1>1, <1>2, <1>3 DEF Lost
<1>4. ASSUME NEW w, NEW i \in 0..n, w \in manager.names \/ Lost(w, i, n), NEW h \in n+1..l
      PROVE  w \in manager'.names \/ Lost(w, i, h)'
  <2>1. CASE Lost(w, i, n)
    <3>1. i \in Nat /\ n \in 1..n /\ h \in n..l
      BY <1>0, <1>1, <2>1 DEF Lost
    <3>2. QED BY <1>0, <1>3, <2>1, <3>1
  <2>2. CASE w \in G
    <3>1. n < l /\ Names(n+1)' /\ n+1 \in 1..l /\ n+1 \in n+1..l
      BY <1>0, <1>2, <2>2
    <3>2. rootQueue'[n+1].gone = G /\ i < n+1 /\ n+1 <= h
      BY <1>0, <1>2, <3>1
    <3>3. QED BY <1>0, <2>2, <3>1, <3>2 DEF Lost
  <2>3. QED BY <1>0, <1>4, <2>1, <2>2
<1>5. ListsKept'
  <2>1. SUFFICES ASSUME NEW k \in 1..l, Names(k)'
                 PROVE  /\ \A w \in root.names \ Excepted' :
                               w \in rootQueue'[k].names \/ Lost(w, 0, k)'
                        /\ \A i \in 1..l : i < k /\ Names(i)' =>
                               \A w \in rootQueue'[i].names \ overwritten :
                                   w \in rootQueue'[k].names \/ Lost(w, i, k)'
    BY <1>0 DEF ListsKept
  <2>2. CASE k \in 1..n
    <3>1. Names(k) /\ rootQueue'[k] = rootQueue[k] /\ k \in k..l /\ 0 \in Nat
      BY <1>0, <1>2, <2>1, <2>2
    <3>2. /\ \A w \in root.names \ Excepted : w \in rootQueue[k].names \/ Lost(w, 0, k)
          /\ \A i \in 1..n : i < k /\ Names(i) =>
                 \A w \in rootQueue[i].names \ overwritten :
                     w \in rootQueue[k].names \/ Lost(w, i, k)
      BY <1>0, <1>1, <2>2, <3>1 DEF ListsKept
    <3>3. \A i \in 1..l : i < k => i \in 1..n /\ i \in Nat
      BY <1>0, <2>2
    <3>4. QED BY <1>0, <1>2, <1>3, <2>2, <3>1, <3>2, <3>3
  <2>3. CASE k \notin 1..n
    <3>1. /\ k = n+1 /\ k \in n+1..l /\ rootQueue'[k].names = manager'.names /\ connect.ready
      BY <1>0, <1>2, <2>1, <2>3
    <3>2. /\ \A w \in root.names \ Excepted : w \in manager.names \/ Lost(w, 0, n)
          /\ \A i \in 1..n : Names(i) =>
                 \A w \in rootQueue[i].names \ overwritten : w \in manager.names \/ Lost(w, i, n)
      BY <1>0, <1>1, <3>1 DEF ShownKept
    <3>3. \A i \in 1..l : i < k => i \in 1..n /\ i \in 0..n
      BY <1>0, <3>1
    <3>4. 0 \in 0..n
      OBVIOUS
    <3>5. QED BY <1>0, <1>2, <1>4, <3>1, <3>2, <3>3, <3>4
  <2>4. QED BY <1>0, <2>2, <2>3
<1>6. ASSUME connect.ready
      PROVE  ShownKept'
  <2>1. /\ \A w \in root.names \ Excepted : w \in manager.names \/ Lost(w, 0, n)
        /\ \A i \in 1..n : Names(i) =>
               \A w \in rootQueue[i].names \ overwritten : w \in manager.names \/ Lost(w, i, n)
    BY <1>0, <1>1, <1>6 DEF ShownKept
  <2>2. ASSUME NEW w, NEW i \in 0..n, w \in manager.names \/ Lost(w, i, n)
        PROVE  w \in manager'.names \/ Lost(w, i, l)'
    <3>1. CASE n < l
      <4>1. l \in n+1..l
        BY <1>0, <3>1
      <4>2. QED BY <1>0, <1>4, <2>2, <4>1
    <3>2. CASE n = l
      <4>1. G = {}
        BY <1>0, <1>2, <3>2
      <4>2. CASE Lost(w, i, n)
        <5>1. n \in 1..n /\ i \in Nat /\ l \in n..l
          BY <1>0, <1>1, <3>2, <4>2 DEF Lost
        <5>2. QED BY <1>0, <1>3, <4>2, <5>1
      <4>3. QED BY <1>0, <2>2, <4>1, <4>2
    <3>3. QED BY <1>0, <3>1, <3>2
  <2>3. ASSUME NEW w \in root.names \ Excepted'
        PROVE  w \in manager'.names \/ Lost(w, 0, l)'
    BY <1>0, <2>1, <2>2
  <2>4. ASSUME NEW i \in 1..l, Names(i)', NEW w \in rootQueue'[i].names \ overwritten
        PROVE  w \in manager'.names \/ Lost(w, i, l)'
    <3>1. CASE i \in 1..n
      BY <1>0, <1>2, <2>1, <2>2, <2>4, <3>1
    <3>2. CASE i \notin 1..n
      BY <1>0, <1>2, <2>4, <3>2
    <3>3. QED BY <1>0, <3>1, <3>2
  <2>5. QED BY <1>0, <2>3, <2>4 DEF ShownKept
<1>7. QED BY <1>0, <1>5, <1>6 DEF ShownKept

\* What is queued and shown stays covered when more is queued.
LEMMA GrownQueued ==
    ASSUME TypeOK, QueuedCovered, NEW n \in Nat, n = Len(rootQueue), NEW l \in Nat, n <= l,
           DOMAIN rootQueue' = 1..l,
           \A j \in 1..n : rootQueue'[j] = rootQueue[j],
           Covered \subseteq Covered',
           \A j \in n+1..l : rootQueue'[j].kind = "current" /\ rootQueue'[j].current # None =>
               \/ rootQueue'[j].current \in Covered'
               \/ \E k \in 1..l : k < j /\ Names(k)'
                                  /\ rootQueue'[j].current \in rootQueue'[k].names,
           \A w \in manager'.names : w \in manager.names \/ w \in Covered' \/
               \E k \in 1..l : Names(k)' /\ w \in rootQueue'[k].names
    PROVE  QueuedCovered'
<1>1. DOMAIN rootQueue = 1..n /\ 1..n \subseteq 1..l
  BY TypeFacts
<1>2. \A j \in 1..n : Names(j)' = Names(j)
  BY DEF Names
<1>3. ASSUME NEW i \in 1..l, rootQueue'[i].kind = "current", rootQueue'[i].current # None
      PROVE  \/ rootQueue'[i].current \in Covered'
             \/ \E j \in 1..l : j < i /\ Names(j)' /\ rootQueue'[i].current \in rootQueue'[j].names
  <2>1. CASE i \in 1..n
    <3>1. rootQueue'[i] = rootQueue[i]
      BY <2>1
    <3>2. \/ rootQueue[i].current \in Covered
          \/ \E j \in 1..n : j < i /\ Names(j) /\ rootQueue[i].current \in rootQueue[j].names
      BY <1>1, <1>3, <2>1, <3>1 DEF QueuedCovered
    <3>3. QED BY <1>1, <1>2, <3>1, <3>2
  <2>2. CASE i \notin 1..n
    <3>1. i \in n+1..l
      BY <2>2
    <3>2. QED BY <1>3, <3>1
  <2>3. QED BY <2>1, <2>2
<1>4. ASSUME NEW w \in manager'.names
      PROVE  w \in Covered' \/ \E j \in 1..l : Names(j)' /\ w \in rootQueue'[j].names
  <2>1. CASE w \in manager.names
    <3>1. w \in Covered \/ \E j \in 1..n : Names(j) /\ w \in rootQueue[j].names
      BY <1>1, <2>1 DEF QueuedCovered
    <3>2. QED BY <1>1, <1>2, <3>1
  <2>2. CASE w \notin manager.names
    BY <1>4, <2>2
  <2>3. QED BY <2>1, <2>2
<1>5. QED BY <1>3, <1>4 DEF QueuedCovered

\* What is held elsewhere stays covered when the lists are not changed.
LEMMA SameLists ==
    ASSUME ListsKept, ShownKept, QueuedCovered,
           UNCHANGED <<root, rootQueue, unlisted, overwritten>>,
           manager'.names = manager.names, connect'.ready = connect.ready
    PROVE  ListsKept' /\ ShownKept' /\ QueuedCovered'
<1>2. ListsKept'
  BY DEF ListsKept, Names, Lost, Excepted
<1>3. ShownKept'
  BY DEF ShownKept, Names, Lost, Excepted
<1>4. QueuedCovered'
  BY DEF QueuedCovered, Names, Covered, Excepted
<1>5. QED BY <1>2, <1>3, <1>4

\* The answers of the root database keep the wallets.
LEMMA RootAnswersKept ==
    ASSUME TypeOK, Tokens, Kept, rootAnswers
    PROVE  Kept'
<1>1. SUFFICES HeldCovered' /\ ListsKept' /\ ShownKept' /\ QueuedCovered'
  BY DEF Kept
<1>2. HeldCovered /\ ListsKept /\ ShownKept /\ QueuedCovered
  BY DEF Kept
<1>3. rootQueue # <<>>
  BY DEF rootAnswers
<1>4. PICK n \in Nat \ {0} : n = Len(rootQueue)
  BY <1>3, TailQueue
<1>5. /\ Head(rootQueue) = rootQueue[1] /\ DOMAIN rootQueue = 1..n
      /\ 1 \in DOMAIN rootQueue /\ rootQueue[1] \in RootRequests
  BY <1>3, <1>4, TailQueue
<1>6. ASSUME rootQueue' = Tail(rootQueue)
      PROVE  /\ n-1 \in {n-1, n} /\ Len(rootQueue') = n-1 /\ DOMAIN rootQueue' = 1..n-1
             /\ \A i \in 1..n-1 : rootQueue'[i] = rootQueue[i+1]
             /\ n-1 # n
  BY <1>3, <1>4, <1>6, TailQueue
<1>7. ASSUME NEW x \in RootRequests, rootQueue' = Append(Tail(rootQueue), x)
      PROVE  /\ n \in {n-1, n} /\ Len(rootQueue') = n /\ DOMAIN rootQueue' = 1..n
             /\ \A i \in 1..n-1 : rootQueue'[i] = rootQueue[i+1]
             /\ rootQueue'[n] = x
  BY <1>3, <1>4, <1>7, TailQueue
<1>13. ASSUME NEW b, \/ call' = call
                     \/ b \in Calls /\ call' = [call EXCEPT ![b].at = "failed"]
       PROVE  \A c \in Calls : call'[c] = call[c] \/ call'[c].at = "failed"
  BY <1>13, TypeFacts DEF CallRecords
<1>8. CASE namesPut \/ namesNotPut
  <2>1. /\ Names(1) /\ rootQueue' = Tail(rootQueue)
        /\ root'.current = root.current /\ manager' = manager /\ connect' = connect
        /\ stored' = stored /\ ram' = ram /\ overwritten' = overwritten
        /\ \/ call' = call
           \/ /\ rootQueue[1].by \in Calls
              /\ call' = [call EXCEPT ![rootQueue[1].by].at = "failed"]
        /\ \/ /\ root'.names = rootQueue[1].names
              /\ unlisted' = (unlisted \ rootQueue[1].names) \cup rootQueue[1].gone
           \/ /\ root'.names = root.names
              /\ unlisted' = unlisted \cup (rootQueue[1].names \ root.names)
                                      \cup rootQueue[1].gone
    <3>1. CASE namesPut
      BY <1>5, <3>1, TypeFacts DEF namesPut, Names, shown
    <3>2. CASE namesNotPut
      BY <1>5, <3>2 DEF namesNotPut, Names, shown, disk, Waits
    <3>3. QED BY <1>8, <3>1, <3>2
  <2>2. root.names \subseteq rootQueue[1].names \cup rootQueue[1].gone \cup Excepted
    BY <1>2, <1>5, <2>1 DEF ListsKept, Lost
  <2>3. Covered \subseteq Covered' /\ rootQueue[1].names \subseteq Covered'
    BY <2>1, <2>2 DEF Covered, Excepted
  <2>4. ListsKept' /\ ShownKept'
    <3>1. ShiftedNames
      BY <2>1 DEF ShiftedNames, Excepted
    <3>2. QED BY <1>2, <1>4, <1>6, <2>1, <3>1, ShiftedLists
  <2>5. QueuedCovered'
    BY <1>2, <1>4, <1>6, <2>1, <2>3, ShiftedQueued
  <2>6. HeldCovered'
    <3>1. \A c \in Calls : call'[c] = call[c] \/ call'[c].at = "failed"
      BY <1>13, <2>1
    <3>2. QED BY <1>2, <2>1, <2>3, <3>1 DEF HeldCovered
  <2>7. QED BY <2>4, <2>5, <2>6
<1>9. CASE currentPut \/ currentNotPut
  <2>1. /\ rootQueue[1].kind = "current" /\ ~ Names(1)
        /\ root'.names = root.names /\ root'.current \in {root.current, rootQueue[1].current}
        /\ manager' = manager /\ connect' = connect /\ overwritten' = overwritten
        /\ stored' = stored /\ ram' = ram /\ unlisted' = unlisted
        /\ rootQueue[1].current \in Databases
    <3>1. CASE currentPut
      BY <1>5, <3>1, TypeFacts, RootRequestFacts DEF currentPut, Names, shown, history
    <3>2. CASE currentNotPut
      BY <1>5, <3>2, RootRequestFacts DEF currentNotPut, Names, shown, disk
    <3>3. QED BY <1>9, <3>1, <3>2
  <2>2. rootQueue[1].current # None => rootQueue[1].current \in Covered
    <3>1. \A j \in 1..n : ~ j < 1
      OBVIOUS
    <3>2. QED BY <1>2, <1>5, <2>1, <3>1 DEF QueuedCovered
  <2>10. \/ Waits(rootQueue[1].by) /\ reopen(rootQueue[1].by)
         \/ /\ rootQueue' = Tail(rootQueue)
            /\ \/ call' = call
               \/ /\ rootQueue[1].by \in Calls
                  /\ call' = [call EXCEPT ![rootQueue[1].by].at = "failed"]
    BY <1>5, <1>9 DEF currentPut, currentNotPut, Waits
  <2>3. PICK l \in {n-1, n} :
            /\ Len(rootQueue') = l /\ DOMAIN rootQueue' = 1..l
            /\ \A i \in 1..n-1 : rootQueue'[i] = rootQueue[i+1]
            /\ l = n => rootQueue'[n].kind = "open"
    <3>1. CASE rootQueue' = Tail(rootQueue)
      BY <1>6, <3>1
    <3>2. CASE Waits(rootQueue[1].by) /\ reopen(rootQueue[1].by)
      <4>1. PICK c \in Calls : c = rootQueue[1].by
        BY <3>2 DEF Waits
      <4>2. PICK x \in RootRequests : x = AskOpen(c) /\ x.kind = "open"
        BY RootRequestsMade
      <4>3. rootQueue' = Append(Tail(rootQueue), x)
        BY <3>2, <4>1, <4>2 DEF reopen
      <4>4. QED BY <1>7, <4>2, <4>3
    <3>3. QED BY <2>10, <3>1, <3>2
  <2>4. ListsKept' /\ ShownKept'
    <3>1. ShiftedNames
      BY <2>1 DEF ShiftedNames, Excepted
    <3>2. QED BY <1>2, <1>4, <2>1, <2>3, <3>1, ShiftedLists
  <2>5. Covered' = Covered
    BY <2>1 DEF Covered, Excepted
  <2>6. QueuedCovered'
    BY <1>2, <1>4, <2>1, <2>3, <2>5, ShiftedQueued
  <2>7. ASSUME NEW c \in Calls, call'[c].at \in {"opening", "loading", "accounts", "creating"}
        PROVE  call'[c].wallet \in Covered
    <3>1. CASE call'[c] = call[c]
      BY <1>2, <2>7, <3>1 DEF HeldCovered
    <3>2. CASE Waits(rootQueue[1].by) /\ reopen(rootQueue[1].by) /\ call'[c] # call[c]
      <4>1. c = rootQueue[1].by /\ call' = [call EXCEPT ![c].at = "opening"]
        BY <3>2, TypeFacts DEF reopen, Waits
      <4>2. Writes(rootQueue[1], c) /\ call[c].at = "writing"
        BY <2>1, <3>2, <4>1 DEF Writes, Waits
      <4>3. rootQueue[1].current = call[c].wallet
        BY <1>5, <4>2 DEF Tokens, OneWrite
      <4>4. call[c].wallet \in Wallets
        BY <4>2 DEF Tokens, Running, Active, Ended
      <4>5. call'[c].wallet = call[c].wallet
        BY <4>1, TypeFacts DEF CallRecords
      <4>6. QED BY <2>2, <4>3, <4>4, <4>5, WalletManagerAssumption
    <3>3. QED BY <1>13, <2>7, <2>10, <3>1, <3>2
  <2>8. HeldCovered'
    BY <1>2, <2>1, <2>2, <2>5, <2>7, WalletManagerAssumption DEF HeldCovered
  <2>9. QED BY <2>4, <2>6, <2>8
<1>10. CASE openDatabase \/ readFailed \/ init
  <2>1. /\ rootQueue[1].kind \in {"open", "initCurrent"} /\ ~ Names(1)
        /\ root' = root /\ manager' = manager /\ connect' = connect
        /\ stored' = stored /\ ram' = ram /\ unlisted' = unlisted /\ overwritten' = overwritten
        /\ \/ call' = call
           \/ /\ rootQueue[1].by \in Calls
              /\ call' = [call EXCEPT ![rootQueue[1].by].at = "failed"]
    BY <1>5, <1>10 DEF openDatabase, readFailed, init, Names, shown, history, disk
  <2>2. PICK l \in {n-1, n} :
            /\ Len(rootQueue') = l /\ DOMAIN rootQueue' = 1..l
            /\ \A i \in 1..n-1 : rootQueue'[i] = rootQueue[i+1]
            /\ l = n => rootQueue'[n].kind = "initNames"
    <3>1. CASE openDatabase \/ readFailed
      BY <1>6, <3>1 DEF openDatabase, readFailed
    <3>2. CASE init
      <4>1. PICK d \in Databases : d = PropertyOr(root.current, None)
        BY DEF TypeOK, PropertyOr, Databases
      <4>2. PICK x \in RootRequests : x = [kind |-> "initNames", current |-> d]
        BY RootRequestsMade
      <4>3. rootQueue' = Append(Tail(rootQueue), x)
        BY <3>2, <4>1, <4>2 DEF init
      <4>4. QED BY <1>7, <4>2, <4>3
    <3>3. QED BY <1>10, <3>1, <3>2
  <2>3. ListsKept' /\ ShownKept'
    <3>1. ShiftedNames
      BY <2>1 DEF ShiftedNames, Excepted
    <3>2. QED BY <1>2, <1>4, <2>1, <2>2, <3>1, ShiftedLists
  <2>4. Covered' = Covered
    BY <2>1 DEF Covered, Excepted
  <2>5. QueuedCovered'
    BY <1>2, <1>4, <2>1, <2>2, <2>4, ShiftedQueued
  <2>6. HeldCovered'
    <3>1. \A c \in Calls : call'[c] = call[c] \/ call'[c].at = "failed"
      BY <1>13, <2>1
    <3>2. QED BY <1>2, <2>1, <2>4, <3>1 DEF HeldCovered
  <2>7. QED BY <2>3, <2>5, <2>6
<1>11. CASE initDone
  <2>1. /\ rootQueue[1].kind = "initNames" /\ ~ Names(1) /\ rootQueue' = Tail(rootQueue)
        /\ root' = root /\ manager'.names = root.names /\ call' = call
        /\ stored' = stored /\ ram' = ram /\ unlisted' = unlisted
        /\ overwritten \subseteq overwritten'
        /\ connect.ready => manager.names \ root.names \subseteq overwritten'
    BY <1>5, <1>11, TypeFacts DEF initDone, Names, disk
  <2>2. ListsKept'
    <3>1. ShiftedNames
      BY <2>1 DEF ShiftedNames, Excepted
    <3>2. QED BY <1>2, <1>4, <1>6, <2>1, <3>1, ShiftedLists
  <2>8. /\ DOMAIN rootQueue' = 1..n-1 /\ Len(rootQueue') = n-1
        /\ \A i \in 1..n-1 : rootQueue'[i] = rootQueue[i+1] /\ i+1 \in DOMAIN rootQueue
    BY <1>5, <1>6, <2>1
  <2>3. ShownKept'
    <3>1. CASE connect.ready
      <4>1. ASSUME NEW i \in 1..n-1, Names(i)', NEW w \in rootQueue'[i].names \ overwritten'
            PROVE  w \in manager'.names \/ Lost(w, i, n-1)'
        <5>1. /\ i+1 \in DOMAIN rootQueue /\ Names(i+1)
              /\ w \in rootQueue[i+1].names \ overwritten
          BY <2>1, <2>8, <4>1 DEF Names
        <5>2. w \in manager.names \/ Lost(w, i+1, n)
          BY <1>2, <1>4, <3>1, <5>1 DEF ShownKept
        <5>3. CASE w \in manager.names
          BY <2>1, <3>1, <4>1, <5>3
        <5>4. CASE Lost(w, i+1, n)
          <6>1. PICK m \in DOMAIN rootQueue :
                    i+1 < m /\ m <= n /\ Names(m) /\ w \in rootQueue[m].gone
            BY <5>4 DEF Lost
          <6>2. m-1 \in 1..n-1 /\ i < m-1 /\ m-1 <= n-1 /\ (m-1)+1 = m
            BY <1>5, <6>1
          <6>3. QED BY <2>8, <6>1, <6>2 DEF Lost, Names
        <5>5. QED BY <5>2, <5>3, <5>4
      <4>2. QED BY <2>1, <2>8, <4>1 DEF ShownKept
    <3>2. CASE ~ connect.ready
      <4>1. \A i \in DOMAIN rootQueue : rootQueue[i].kind \in {"open", "initCurrent", "initNames"}
        BY <3>2 DEF Tokens, Starting
      <4>2. \A i \in DOMAIN rootQueue' : ~ Names(i)'
        BY <2>8, <4>1 DEF Names
      <4>3. QED BY <2>1, <4>2 DEF ShownKept
    <3>3. QED BY <3>1, <3>2
  <2>4. Covered \subseteq Covered' /\ manager'.names \subseteq Covered'
    BY <2>1 DEF Covered, Excepted
  <2>5. QueuedCovered'
    BY <1>2, <1>4, <1>6, <2>1, <2>4, ShiftedQueued
  <2>6. HeldCovered'
    BY <1>2, <2>1, <2>4 DEF HeldCovered
  <2>7. QED BY <2>3, <2>2, <2>5, <2>6
<1>12. QED BY <1>8, <1>9, <1>10, <1>11 DEF rootAnswers

\* So do those of IndexedDB.
LEMMA RequestKept ==
    ASSUME TypeOK, Tokens, Kept, NEW i \in DOMAIN requests,
           opened(i) \/ openFailed(i) \/ deleted(i)
    PROVE  Kept'
<1>1. SUFFICES HeldCovered' /\ ListsKept' /\ ShownKept' /\ QueuedCovered'
  BY DEF Kept
<1>2. /\ HeldCovered /\ ListsKept /\ ShownKept /\ QueuedCovered
      /\ overwritten' = overwritten /\ unlisted' = unlisted
  BY DEF Kept, opened, openFailed, deleted, history
<1>3. /\ root' = root /\ manager' = manager /\ ram' = ram
  BY DEF opened, openFailed, deleted, shown, disk
<1>4. PICK r \in Requests : r = requests[i]
  BY TypeFacts
<1>5. Covered' = Covered
  BY <1>2, <1>3 DEF Covered, Excepted
<1>6. CASE opened(i) /\ r.by = Start
  <2>1. PICK x \in RootRequests : x = [kind |-> "initCurrent"]
    BY RootRequestsMade
  <2>2. /\ connect' = [connect EXCEPT !.from = r.db, !.init = TRUE] /\ stored' = stored
        /\ rootQueue' = Append(rootQueue, x) /\ call' = call
    BY <1>4, <1>6, <2>1 DEF opened, disk
  <2>3. PICK n \in Nat : n = Len(rootQueue)
    BY TypeFacts
  <2>4. /\ DOMAIN rootQueue' = 1..n+1 /\ Len(rootQueue') = n+1 /\ n+1 \in Nat /\ n <= n+1
        /\ \A j \in 1..n : rootQueue'[j] = rootQueue[j]
        /\ rootQueue'[n+1] = x /\ \A j \in n+1..n+1 : j = n+1
    BY <2>2, <2>3, GrownQueue
  <2>5. connect'.ready = connect.ready
    BY <2>2, TypeFacts
  <2>6. \A j \in n+1..n+1 : rootQueue'[j].kind = "initCurrent"
    BY <2>1, <2>4 DEF Names
  <2>7. manager.names \subseteq manager'.names \cup {}
    BY <1>3
  <2>9. ListsKept' /\ ShownKept'
    <3>1. Growth(n, n+1, {})
      BY <1>2, <1>3, <2>3, <2>4, <2>5, <2>6, <2>7 DEF Growth
    <3>2. QED BY <1>2, <2>4, <3>1, GrownLists
  <2>10. QueuedCovered'
    BY <1>2, <1>3, <1>5, <2>3, <2>4, <2>6, GrownQueued
  <2>11. HeldCovered'
    BY <1>2, <1>3, <1>5, <2>2 DEF HeldCovered
  <2>12. QED BY <2>9, <2>10, <2>11
<1>7. CASE opened(i) /\ r.by # Start
  <2>1. PICK c \in Calls : c = r.by
    BY <1>4, <1>7, RequestFacts DEF opened
  <2>2. PICK at \in {"putting", "loading"} :
               /\ call' = [call EXCEPT ![c].from = r.db, ![c].at = at]
               /\ at = IF call[c].at = "restoring" THEN "putting" ELSE "loading"
               /\ connect' = connect /\ rootQueue' = rootQueue /\ stored' = stored
    BY <1>4, <1>7, <2>1 DEF opened, disk
  <2>3. Asks(requests[i], c)
    BY <1>4, <1>7, <2>1 DEF opened, Asks
  <2>4. call[c].at \in {"restoring", "opening"}
    BY <2>3 DEF Tokens, OneOpen
  <2>5. /\ \A b \in Calls : b # c => call'[b] = call[b]
        /\ call'[c].wallet = call[c].wallet /\ call'[c].at = at
    BY <2>2, TypeFacts DEF CallRecords
  <2>6. at = "loading" => call[c].wallet \in Covered
    <3>1. at = "loading" => call[c].at = "opening"
      BY <2>2, <2>4
    <3>2. QED BY <1>2, <3>1 DEF HeldCovered
  <2>7. \A b \in Calls : call'[b].at \in {"opening", "loading", "accounts", "creating"}
                              => call'[b].wallet \in Covered
    BY <1>2, <2>5, <2>6 DEF HeldCovered
  <2>8. HeldCovered'
    BY <1>2, <1>3, <1>5, <2>2, <2>7 DEF HeldCovered
  <2>9. QED BY <1>2, <1>3, <2>2, <2>8, SameLists
<1>8. CASE openFailed(i)
  <2>1. PICK c \in Calls : c = r.by
    BY <1>4, <1>8 DEF openFailed
  <2>2. /\ call' = [call EXCEPT ![c].at = "failed"] /\ connect' = connect
        /\ rootQueue' = rootQueue /\ stored' = stored
    BY <1>4, <1>8, <2>1 DEF openFailed, disk
  <2>3. call'[c].at = "failed" /\ \A b \in Calls : b # c => call'[b] = call[b]
    BY <2>2, TypeFacts DEF CallRecords
  <2>4. HeldCovered'
    BY <1>2, <1>3, <1>5, <2>2, <2>3 DEF HeldCovered
  <2>5. QED BY <1>2, <1>3, <2>2, <2>4, SameLists
<1>9. CASE deleted(i)
  <2>1. /\ call' = call /\ connect' = connect /\ rootQueue' = rootQueue
        /\ stored' = [stored EXCEPT ![r.db] = {}]
    BY <1>4, <1>9 DEF deleted
  <2>2. \A d \in Databases : stored'[d] \subseteq stored[d]
    BY <2>1, TypeFacts
  <2>3. HeldCovered'
    BY <1>2, <1>3, <1>5, <2>1, <2>2 DEF HeldCovered
  <2>4. QED BY <1>2, <1>3, <2>1, <2>3, SameLists
<1>10. QED BY <1>6, <1>7, <1>8, <1>9

\* So do the loads and the end of the page.
LEMMA PageKept ==
    ASSUME TypeOK, Tokens, Kept, collected \/ walletLoaded \/ Connect \/ _updateWallet \/ reload
    PROVE  Kept'
<1>1. SUFFICES HeldCovered' /\ ListsKept' /\ ShownKept' /\ QueuedCovered'
  BY DEF Kept
<1>2. /\ HeldCovered /\ ListsKept /\ ShownKept /\ QueuedCovered
      /\ overwritten' = overwritten /\ unlisted' = unlisted /\ root' = root
  BY DEF Kept, collected, walletLoaded, Connect, _updateWallet, reload, history, disk
<1>3. Covered' = Covered
  BY <1>2 DEF Covered, Excepted
<1>4. CASE collected \/ _updateWallet
  <2>1. /\ call' = call /\ connect' = connect /\ rootQueue' = rootQueue /\ manager' = manager
        /\ ram' = ram
    BY <1>4 DEF collected, _updateWallet, shown
  <2>2. \A d \in Databases : stored'[d] \subseteq Covered
    <3>1. CASE collected
      BY <1>2, <3>1 DEF collected, disk, HeldCovered
    <3>2. CASE _updateWallet
      <4>1. /\ ram \in Covered /\ \A d \in Databases : stored'[d] \subseteq stored[d] \cup {ram}
        BY <1>2, <3>2, TypeFacts DEF _updateWallet, HeldCovered
      <4>2. QED BY <1>2, <4>1 DEF HeldCovered
    <3>3. QED BY <1>4, <3>1, <3>2
  <2>3. HeldCovered'
    BY <1>2, <1>3, <2>1, <2>2 DEF HeldCovered
  <2>4. QED BY <1>2, <2>1, <2>3, SameLists
<1>5. CASE walletLoaded
  <2>1. /\ call' = call /\ rootQueue' = rootQueue /\ manager' = manager /\ stored' = stored
        /\ connect' = [connect EXCEPT !.from = Unset, !.ready = @ \/ ~ connect.init]
        /\ connect.from # Unset /\ ram' \in LoadedFrom(connect.from)
    BY <1>5 DEF walletLoaded, disk
  <2>2. ram' = ram \/ ram' \in stored[connect.from]
    BY <2>1 DEF LoadedFrom
  <2>3. connect.from \in Databases
    BY <2>1, TypeFacts
  <2>4. HeldCovered'
    BY <1>2, <1>3, <2>1, <2>2, <2>3 DEF HeldCovered
  <2>5. ListsKept'
    BY <1>2, <2>1 DEF ListsKept, Names, Lost, Excepted
  <2>6. QueuedCovered'
    BY <1>2, <1>3, <2>1 DEF QueuedCovered, Names
  <2>7. ShownKept'
    <3>1. CASE connect.ready
      BY <1>2, <2>1, <3>1 DEF ShownKept, Names, Lost, Excepted
    <3>2. CASE ~ connect.ready /\ connect.init
      <4>1. ~ connect'.ready
        BY <2>1, <3>2, TypeFacts
      <4>2. QED BY <4>1 DEF ShownKept
    <3>3. CASE ~ connect.ready /\ ~ connect.init
      <4>1. /\ manager.names = root.names
            /\ \A i \in DOMAIN rootQueue : ~ Names(i)
        BY <2>1, <3>3 DEF Tokens, Starting, Names
      <4>2. QED BY <1>2, <2>1, <4>1 DEF ShownKept, Names
    <3>4. QED BY <3>1, <3>2, <3>3
  <2>8. QED BY <2>4, <2>5, <2>6, <2>7
<1>6. CASE Connect
  <2>1. PICK x \in RootRequests : x = [kind |-> "initCurrent"]
    BY RootRequestsMade
  <2>2. /\ connect' = [connect EXCEPT !.from = handle, !.init = TRUE] /\ stored' = stored
        /\ rootQueue' = Append(rootQueue, x) /\ call' = call /\ manager' = manager /\ ram' = ram
    BY <1>6, <2>1 DEF Connect, shown, disk
  <2>3. PICK n \in Nat : n = Len(rootQueue)
    BY TypeFacts
  <2>4. /\ DOMAIN rootQueue' = 1..n+1 /\ Len(rootQueue') = n+1 /\ n+1 \in Nat /\ n <= n+1
        /\ \A j \in 1..n : rootQueue'[j] = rootQueue[j]
        /\ rootQueue'[n+1] = x /\ \A j \in n+1..n+1 : j = n+1
    BY <2>2, <2>3, GrownQueue
  <2>5. connect'.ready = connect.ready
    BY <2>2, TypeFacts
  <2>6. \A j \in n+1..n+1 : rootQueue'[j].kind = "initCurrent"
    BY <2>1, <2>4 DEF Names
  <2>7. manager.names \subseteq manager'.names \cup {}
    BY <2>2
  <2>8. ListsKept' /\ ShownKept'
    <3>1. Growth(n, n+1, {})
      BY <1>2, <2>2, <2>3, <2>4, <2>5, <2>6, <2>7 DEF Growth
    <3>2. QED BY <1>2, <2>4, <3>1, GrownLists
  <2>9. QueuedCovered'
    BY <1>2, <1>3, <2>2, <2>3, <2>4, <2>6, GrownQueued
  <2>10. HeldCovered'
    BY <1>2, <1>3, <2>2 DEF HeldCovered
  <2>11. QED BY <2>8, <2>9, <2>10
<1>7. CASE reload
  <2>1. /\ rootQueue' = <<AskOpen(Start)>> /\ manager'.names = {} /\ ram' = None
        /\ ~ connect'.ready /\ \A c \in Calls : call'[c].at \in {"idle", "done"}
        /\ \A d \in Databases : stored'[d] \subseteq stored[d]
    BY <1>7 DEF reload, NoCall
  <2>2. DOMAIN rootQueue' = {1} /\ rootQueue'[1].kind = "open"
    BY <2>1 DEF AskOpen
  <2>3. ListsKept' /\ ShownKept' /\ QueuedCovered'
    BY <2>1, <2>2 DEF ListsKept, ShownKept, QueuedCovered, Names
  <2>4. HeldCovered'
    BY <1>2, <1>3, <2>1 DEF HeldCovered
  <2>5. QED BY <2>3, <2>4
<1>8. QED BY <1>4, <1>5, <1>6, <1>7

\* onSetWallet writes a wallet that the manager lists, or the names with it before.
LEMMA OnSetWalletKept ==
    ASSUME TypeOK, Kept, NEW c \in Calls, NEW w \in Wallets, NEW to,
           onSetWallet(c, w, to), connect.ready, connect' = connect, root' = root,
           unlisted \subseteq unlisted', overwritten' = overwritten
    PROVE  ListsKept' /\ ShownKept' /\ QueuedCovered'
<1>1. ListsKept /\ ShownKept /\ QueuedCovered
  BY DEF Kept
<1>2. Covered \subseteq Covered'
  BY DEF Covered, Excepted
<1>3. PICK n \in Nat : n = Len(rootQueue)
  BY TypeFacts
<1>4. DOMAIN rootQueue = 1..n /\ rootQueue \in Seq(RootRequests)
  BY <1>3, TypeFacts
<1>5. CASE manager.current = w
  <2>1. manager' = manager /\ rootQueue' = rootQueue
    BY <1>5 DEF onSetWallet
  <2>2. manager.names \subseteq manager'.names \cup {}
    BY <2>1
  <2>3. n <= n /\ \A j \in n+1..n : FALSE
    OBVIOUS
  <2>4. ListsKept' /\ ShownKept'
    <3>1. Growth(n, n, {})
      BY <1>3, <1>4, <2>1, <2>2, <2>3 DEF Growth
    <3>2. QED BY <1>1, <3>1, GrownLists
  <2>5. QueuedCovered'
    BY <1>1, <1>2, <1>3, <1>4, <2>1, <2>3, GrownQueued
  <2>6. QED BY <2>4, <2>5
<1>6. CASE manager.current # w /\ w \in manager.names
  <2>1. PICK y \in RootRequests : /\ rootQueue' = Append(rootQueue, y) /\ y.kind = "current"
                                  /\ y.current = w
    BY <1>6, OnSetWalletQueue DEF PutCurrent
  <2>2. /\ DOMAIN rootQueue' = 1..n+1 /\ Len(rootQueue') = n+1 /\ n+1 \in Nat /\ n <= n+1
        /\ \A j \in 1..n : rootQueue'[j] = rootQueue[j]
        /\ rootQueue'[n+1] = y /\ \A j \in n+1..n+1 : j = n+1
    BY <1>3, <2>1, GrownQueue
  <2>3. manager'.names = manager.names
    <3>1. manager' = [manager EXCEPT !.names = @ \cup {w}]
      BY <1>6 DEF onSetWallet
    <3>2. manager'.names = manager.names \cup {w}
      BY <3>1, TypeFacts
    <3>3. QED BY <1>6, <3>2
  <2>4. \A j \in n+1..n+1 : rootQueue'[j].kind # "names"
    BY <2>1, <2>2 DEF Names
  <2>5. manager.names \subseteq manager'.names \cup {}
    BY <2>3
  <2>6. ListsKept' /\ ShownKept'
    <3>1. Growth(n, n+1, {})
      BY <1>3, <2>2, <2>3, <2>4, <2>5 DEF Growth
    <3>2. QED BY <1>1, <2>2, <3>1, GrownLists
  <2>7. w \in Covered \/ \E k \in 1..n : Names(k) /\ w \in rootQueue[k].names
    BY <1>1, <1>4, <1>6 DEF QueuedCovered
  <2>8. w \in Covered' \/ \E k \in 1..n+1 : k < n+1 /\ Names(k)' /\ w \in rootQueue'[k].names
    BY <1>2, <2>2, <2>7 DEF Names
  <2>9. QueuedCovered'
    BY <1>1, <1>2, <1>3, <2>1, <2>2, <2>3, <2>8, GrownQueued
  <2>10. QED BY <2>6, <2>9
<1>7. CASE manager.current # w /\ w \notin manager.names
  <2>1. PICK x \in RootRequests : /\ x = PutNames(manager.names \cup {w}, {}, c) /\ x.kind = "names"
                                  /\ x.names = manager.names \cup {w} /\ x.gone = {}
    BY <1>7, OnSetWalletQueue DEF PutNames
  <2>2. PICK y \in RootRequests : /\ y = PutCurrent(w, c) /\ y.kind = "current" /\ y.current = w
    BY <1>7, OnSetWalletQueue DEF PutCurrent
  <2>3. rootQueue' = Append(Append(rootQueue, x), y)
    BY <1>7, <2>1, <2>2, OnSetWalletQueue
  <2>4. /\ DOMAIN rootQueue' = 1..n+2 /\ Len(rootQueue') = n+2 /\ n+2 \in Nat /\ n <= n+2
        /\ \A j \in 1..n : rootQueue'[j] = rootQueue[j]
        /\ rootQueue'[n+1] = x /\ rootQueue'[n+2] = y
    BY <1>3, <2>3, GrownTwice
  <2>5. \A j \in n+1..n+2 : j = n+1 \/ j = n+2
    OBVIOUS
  <2>6. manager'.names = manager.names \cup {w}
    BY <1>7, TypeFacts DEF onSetWallet
  <2>7. manager.names \subseteq manager'.names \cup {}
    BY <2>6
  <2>8. /\ Names(n+1)'
        /\ \A j \in n+1..n+2 : rootQueue'[j].kind = "names" =>
               /\ j = n+1 /\ connect.ready
               /\ rootQueue'[j].names = manager'.names /\ rootQueue'[j].gone = {}
    BY <2>1, <2>2, <2>4, <2>5, <2>6, <2>7 DEF Names
  <2>9. ListsKept' /\ ShownKept'
    <3>1. PICK l \in Nat : l = n+2
      OBVIOUS
    <3>2. /\ DOMAIN rootQueue' = 1..l /\ Len(rootQueue') = l /\ n <= l
          /\ \A j \in n+1..l : rootQueue'[j].kind = "names" =>
                 /\ j = n+1 /\ connect.ready
                 /\ rootQueue'[j].names = manager'.names /\ rootQueue'[j].gone = {}
      BY <2>4, <2>8, <3>1
    <3>3. root'.names = root.names /\ connect'.ready = connect.ready
      OBVIOUS
    <3>4. Growth(n, l, {})
      BY <1>3, <2>4, <2>7, <3>2, <3>3 DEF Growth
    <3>5. QED BY <1>1, <3>4, GrownLists
  <2>10. /\ n+1 \in 1..n+2 /\ n+1 < n+2 /\ Names(n+1)' /\ w \in rootQueue'[n+1].names
         /\ \A v \in manager'.names : v \in rootQueue'[n+1].names
    <3>1. n+1 \in 1..n+2 /\ n+1 < n+2
      OBVIOUS
    <3>2. QED BY <2>1, <2>4, <2>6, <2>8, <3>1
  <2>11. QueuedCovered'
    <3>1. \A j \in n+1..n+2 : rootQueue'[j].kind = "current" /\ rootQueue'[j].current # None =>
              \E k \in 1..n+2 : k < j /\ Names(k)' /\ rootQueue'[j].current \in rootQueue'[k].names
      BY <2>1, <2>2, <2>4, <2>5, <2>10
    <3>2. QED BY <1>1, <1>2, <1>3, <2>4, <2>10, <3>1, GrownQueued
  <2>12. QED BY <2>9, <2>11
<1>8. QED BY <1>5, <1>6, <1>7

\* The steps of calls keep the wallets.
LEMMA CallKept ==
    ASSUME TypeOK, Tokens, Kept, NEW c \in Calls,
           \/ \E w \in Wallets : (\E create \in BOOLEAN : setWallet(c, w, create))
                                 \/ restore(c, w)
           \/ restored(c) \/ restoreFailed(c) \/ loaded(c) \/ accountsLoaded(c)
           \/ accountsFailed(c) \/ created(c) \/ notCreated(c)
    PROVE  Kept'
<1>1. SUFFICES HeldCovered' /\ ListsKept' /\ ShownKept' /\ QueuedCovered'
  BY DEF Kept
<1>2. /\ HeldCovered /\ ListsKept /\ ShownKept /\ QueuedCovered
      /\ overwritten' = overwritten /\ connect' = connect /\ root' = root
  <2>1. overwritten' = overwritten /\ connect' = connect /\ root' = root
    BY DEF setWallet, restore, restored, restoreFailed, loaded, accountsLoaded,
           accountsFailed, created, notCreated, history, disk
  <2>2. QED BY <2>1 DEF Kept
<1>3. ASSUME NEW w \in Wallets, NEW to \in CallRecords, onSetWallet(c, w, to),
             to.wallet = w
      PROVE  \A b \in Calls : call'[b].at \in {"opening", "loading", "accounts", "creating"}
                                  => call'[b] = call[b]
  <2>1. PICK at \in {"done", "writing"} : call' = [call EXCEPT ![c] = [to EXCEPT !.at = at]]
    BY <1>3 DEF onSetWallet
  <2>2. call'[c].at = at /\ \A b \in Calls : b # c => call'[b] = call[b]
    BY <2>1, TypeFacts DEF CallRecords
  <2>3. QED BY <2>2
<1>4. ASSUME NEW w \in Wallets, NEW create \in BOOLEAN, setWallet(c, w, create)
      PROVE  HeldCovered' /\ ListsKept' /\ ShownKept' /\ QueuedCovered'
  <2>1. PICK to \in CallRecords : to = [NoCall EXCEPT !.wallet = w, !.create = create]
                                  /\ to.wallet = w
    <3>1. [NoCall EXCEPT !.wallet = w, !.create = create] \in CallRecords
      BY CallFacts DEF Databases
    <3>2. [NoCall EXCEPT !.wallet = w, !.create = create].wallet = w
      BY DEF NoCall
    <3>3. QED BY <3>1, <3>2
  <2>2. /\ onSetWallet(c, w, to) /\ connect.ready /\ unlisted' = unlisted
        /\ stored' = stored /\ ram' = ram
    BY <1>4, <2>1 DEF setWallet, NextCall, disk
  <2>3. ListsKept' /\ ShownKept' /\ QueuedCovered'
    BY <1>2, <2>2, OnSetWalletKept
  <2>4. HeldCovered'
    BY <1>2, <1>3, <2>1, <2>2 DEF HeldCovered, Covered, Excepted
  <2>5. QED BY <2>3, <2>4
<1>5. ASSUME NEW w \in Wallets, restore(c, w)
      PROVE  HeldCovered' /\ ListsKept' /\ ShownKept' /\ QueuedCovered'
  <2>1. /\ call' = [call EXCEPT ![c] = [NoCall EXCEPT !.wallet = w, !.at = "restoring"]]
        /\ stored' = stored /\ ram' = ram /\ rootQueue' = rootQueue /\ manager' = manager
        /\ unlisted' = unlisted
    BY <1>5 DEF restore, disk, shown
  <2>2. call'[c].at = "restoring" /\ \A b \in Calls : b # c => call'[b] = call[b]
    BY <2>1, TypeFacts DEF NoCall
  <2>3. HeldCovered'
    BY <1>2, <2>1, <2>2 DEF HeldCovered, Covered, Excepted
  <2>4. QED BY <1>2, <2>1, <2>3, SameLists
<1>6. CASE restored(c)
  <2>1. Active(c) /\ call[c] \in CallRecords
    BY <1>6, TypeFacts DEF restored, Active, Ended
  <2>2. PICK w \in Wallets : w = call[c].wallet /\ connect.ready
    BY <2>1 DEF Tokens, Running
  <2>3. /\ onSetWallet(c, w, call[c]) /\ unlisted' = unlisted \cup ({w} \ root.names)
        /\ stored' = [stored EXCEPT ![w] = @ \cup {w}] /\ ram' = ram
    BY <1>6, <2>2 DEF restored
  <2>4. ListsKept' /\ ShownKept' /\ QueuedCovered'
    BY <1>2, <2>2, <2>3, OnSetWalletKept
  <2>5. Covered \subseteq Covered' /\ w \in Covered'
    BY <1>2, <2>3 DEF Covered, Excepted
  <2>6. \A d \in Databases : stored'[d] \subseteq stored[d] \cup {w}
    BY <2>3, TypeFacts
  <2>7. \A b \in Calls : call'[b].at \in {"opening", "loading", "accounts", "creating"}
                                  => call'[b] = call[b]
    BY <1>3, <2>1, <2>2, <2>3
  <2>8. HeldCovered'
    BY <1>2, <2>3, <2>5, <2>6, <2>7 DEF HeldCovered
  <2>9. QED BY <2>4, <2>8
<1>7. ASSUME call[c].at \in {"putting", "loading", "accounts", "creating"},
             NEW at \in {"failed", "done", "accounts", "creating"},
             at \in {"accounts", "creating"} => call[c].at \in {"loading", "accounts"},
             call' = [call EXCEPT ![c].at = at],
             \A d \in Databases : stored'[d] \subseteq stored[d] \cup Covered,
             ram' # None => ram' = ram \/ ram' \in Covered,
             rootQueue' = rootQueue, manager'.names = manager.names, unlisted' = unlisted
      PROVE  HeldCovered' /\ ListsKept' /\ ShownKept' /\ QueuedCovered'
  <2>1. /\ call'[c].at = at /\ call'[c].wallet = call[c].wallet
        /\ \A b \in Calls : b # c => call'[b] = call[b]
    BY <1>7, TypeFacts DEF CallRecords
  <2>2. Covered' = Covered
    BY <1>2, <1>7 DEF Covered, Excepted
  <2>3. HeldCovered'
    BY <1>2, <1>7, <2>1, <2>2 DEF HeldCovered
  <2>4. QED BY <1>2, <1>7, <2>3, SameLists
<1>8. CASE restoreFailed(c)
  BY <1>7, <1>8 DEF restoreFailed, disk, shown
<1>9. CASE loaded(c)
  <2>1. PICK at \in {"failed", "accounts"} : call' = [call EXCEPT ![c].at = at]
    BY <1>9 DEF loaded
  <2>2. /\ call[c].at = "loading" /\ stored' = stored /\ rootQueue' = rootQueue
        /\ manager' = manager /\ unlisted' = unlisted /\ ram' \in LoadedFrom(call[c].from)
    BY <1>9 DEF loaded, disk
  <2>3. call[c].from \in Databases
    BY TypeFacts DEF CallRecords
  <2>4. ram' = ram \/ ram' \in Covered
    BY <1>2, <2>2, <2>3 DEF LoadedFrom, HeldCovered
  <2>5. QED BY <1>7, <2>1, <2>2, <2>4
<1>10. CASE accountsLoaded(c)
  <2>1. PICK at \in {"creating", "done"} : call' = [call EXCEPT ![c].at = at]
    BY <1>10 DEF accountsLoaded
  <2>2. manager'.names = manager.names
    BY <1>10, TypeFacts DEF accountsLoaded
  <2>3. /\ call[c].at = "accounts" /\ stored' = stored /\ rootQueue' = rootQueue
        /\ unlisted' = unlisted /\ ram' = ram
    BY <1>10 DEF accountsLoaded, disk, history
  <2>4. QED BY <1>7, <2>1, <2>2, <2>3
<1>11. CASE accountsFailed(c)
  BY <1>7, <1>11 DEF accountsFailed, disk, shown
<1>12. CASE created(c)
  <2>1. manager'.names = manager.names
    BY <1>12, TypeFacts DEF created
  <2>2. /\ call[c].at = "creating" /\ call' = [call EXCEPT ![c].at = "done"]
        /\ stored' = [stored EXCEPT ![idb] = @ \cup {call[c].wallet}]
        /\ ram' = call[c].wallet /\ rootQueue' = rootQueue /\ unlisted' = unlisted
    BY <1>12 DEF created, history
  <2>3. call[c].wallet \in Covered
    BY <1>2, <2>2 DEF HeldCovered
  <2>4. \A d \in Databases : stored'[d] \subseteq stored[d] \cup Covered
    BY <2>2, <2>3, TypeFacts
  <2>5. QED BY <1>7, <2>1, <2>2, <2>3, <2>4
<1>13. CASE notCreated(c)
  <2>1. manager'.names = manager.names
    BY <1>13, TypeFacts DEF notCreated
  <2>2. /\ call[c].at = "creating" /\ call' = [call EXCEPT ![c].at = "done"]
        /\ stored' = stored /\ ram' = ram /\ rootQueue' = rootQueue /\ unlisted' = unlisted
    BY <1>13 DEF notCreated, disk
  <2>3. QED BY <1>7, <2>1, <2>2
<1>14. QED BY <1>4, <1>5, <1>6, <1>8, <1>9, <1>10, <1>11, <1>12, <1>13

\* A deletion takes its wallet from the list only.
LEMMA DeleteKept ==
    ASSUME TypeOK, Tokens, Kept, NEW w \in Wallets, onDeleteWallet(w)
    PROVE  Kept'
<1>1. SUFFICES HeldCovered' /\ ListsKept' /\ ShownKept' /\ QueuedCovered'
  BY DEF Kept
<1>2. /\ HeldCovered /\ ListsKept /\ ShownKept /\ QueuedCovered
      /\ connect' = connect /\ connect.ready /\ root' = root /\ stored' = stored /\ ram' = ram
      /\ call' = call /\ unlisted' = unlisted \cup {w} /\ overwritten' = overwritten
  BY DEF Kept, onDeleteWallet, disk
<1>3. Covered \subseteq Covered'
  BY <1>2 DEF Covered, Excepted
<1>4. HeldCovered'
  BY <1>2, <1>3 DEF HeldCovered
<1>5. PICK n \in Nat : n = Len(rootQueue)
  BY TypeFacts
<1>6. PICK x \in RootRequests :
             /\ x.kind = "names" /\ x.names = manager.names \ {w} /\ x.gone = {w}
             /\ manager'.names = manager.names \ {w}
             /\ \/ /\ manager.current # w /\ rootQueue' = Append(rootQueue, x)
                   /\ manager'.current = manager.current
                \/ \E d \in Databases : \E y \in RootRequests :
                     /\ manager.current = w
                     /\ rootQueue' = Append(Append(rootQueue, x), y)
                     /\ y.kind = "current" /\ y.current = d /\ y.by = Unset
                     /\ d = None \/ d \in manager.names \ {w}
  BY DeleteQueue
<1>7. PICK G : G = {w} /\ manager.names \subseteq manager'.names \cup G
  BY <1>6
<1>8. CASE rootQueue' = Append(rootQueue, x)
  <2>1. /\ DOMAIN rootQueue' = 1..n+1 /\ Len(rootQueue') = n+1 /\ n+1 \in Nat /\ n <= n+1
        /\ \A j \in 1..n : rootQueue'[j] = rootQueue[j]
        /\ rootQueue'[n+1] = x /\ n < n+1
    BY <1>5, <1>8, GrownQueue
  <2>2. \A j \in n+1..n+1 : j = n+1
    OBVIOUS
  <2>3. Names(n+1)'
    BY <1>6, <2>1 DEF Names
  <2>4. ListsKept' /\ ShownKept'
    <3>1. PICK l \in Nat : l = n+1
      OBVIOUS
    <3>2. /\ DOMAIN rootQueue' = 1..l /\ Len(rootQueue') = l /\ n <= l /\ n < l
          /\ \A j \in n+1..l : rootQueue'[j].kind = "names" =>
                 /\ j = n+1 /\ connect.ready
                 /\ rootQueue'[j].names = manager'.names /\ rootQueue'[j].gone = G
      BY <1>2, <1>6, <1>7, <2>1, <2>2, <3>1
    <3>3. /\ root'.names = root.names /\ connect'.ready = connect.ready
          /\ unlisted \subseteq unlisted' /\ overwritten' = overwritten
      BY <1>2
    <3>4. n < l /\ rootQueue'[n+1].kind = "names"
      BY <2>3, <3>2 DEF Names
    <3>5. Growth(n, l, G)
      BY <1>5, <1>7, <2>1, <3>2, <3>3, <3>4 DEF Growth
    <3>6. QED BY <1>2, <3>5, GrownLists
  <2>5. QueuedCovered'
    BY <1>2, <1>3, <1>5, <1>6, <2>1, <2>2, GrownQueued
  <2>6. QED BY <1>4, <2>4, <2>5
<1>9. ASSUME NEW d \in Databases, NEW y \in RootRequests,
             rootQueue' = Append(Append(rootQueue, x), y),
             y.kind = "current" /\ y.current = d, d = None \/ d \in manager.names \ {w}
      PROVE  HeldCovered' /\ ListsKept' /\ ShownKept' /\ QueuedCovered'
  <2>1. /\ DOMAIN rootQueue' = 1..n+2 /\ Len(rootQueue') = n+2 /\ n+2 \in Nat /\ n <= n+2
        /\ \A j \in 1..n : rootQueue'[j] = rootQueue[j]
        /\ rootQueue'[n+1] = x /\ rootQueue'[n+2] = y /\ n < n+2
    BY <1>5, <1>9, GrownTwice
  <2>2. \A j \in n+1..n+2 : j = n+1 \/ j = n+2
    OBVIOUS
  <2>3. /\ Names(n+1)'
        /\ \A j \in n+1..n+2 : rootQueue'[j].kind = "names" =>
               /\ j = n+1 /\ connect.ready
               /\ rootQueue'[j].names = manager'.names /\ rootQueue'[j].gone = G
    BY <1>2, <1>6, <1>7, <1>9, <2>1, <2>2 DEF Names
  <2>4. ListsKept' /\ ShownKept'
    <3>1. PICK l \in Nat : l = n+2
      OBVIOUS
    <3>2. /\ DOMAIN rootQueue' = 1..l /\ Len(rootQueue') = l /\ n <= l /\ n < l
          /\ \A j \in n+1..l : rootQueue'[j].kind = "names" =>
                 /\ j = n+1 /\ connect.ready
                 /\ rootQueue'[j].names = manager'.names /\ rootQueue'[j].gone = G
      BY <2>1, <2>3, <3>1
    <3>3. /\ root'.names = root.names /\ connect'.ready = connect.ready
          /\ unlisted \subseteq unlisted' /\ overwritten' = overwritten
      BY <1>2
    <3>4. n < l /\ rootQueue'[n+1].kind = "names"
      BY <2>3, <3>2 DEF Names
    <3>5. Growth(n, l, G)
      BY <1>5, <1>7, <2>1, <3>2, <3>3, <3>4 DEF Growth
    <3>6. QED BY <1>2, <3>5, GrownLists
  <2>5. /\ n+1 \in 1..n+2 /\ n+1 < n+2
        /\ d # None => d \in rootQueue'[n+1].names
    BY <1>6, <1>9, <2>1
  <2>6. QueuedCovered'
    BY <1>2, <1>3, <1>5, <1>6, <1>9, <2>1, <2>2, <2>3, <2>5, GrownQueued
  <2>7. QED BY <1>4, <2>4, <2>6
<1>10. QED BY <1>6, <1>8, <1>9

-----------------------------------------------------------------------------
(* A page on which nothing overlapped or failed.                           *)

\* The head of the queue is the only request, unless it puts names.
LEMMA HeadAlone ==
    ASSUME TypeOK, Peace, rootQueue # <<>>, Head(rootQueue).kind # "names"
    PROVE  /\ 1 \in DOMAIN rootQueue /\ Head(rootQueue) = rootQueue[1]
           /\ rootQueue[1] \in RootRequests /\ DOMAIN rootQueue = {1}
           /\ DOMAIN Tail(rootQueue) = {}
           /\ \A x \in RootRequests : /\ Len(Append(Tail(rootQueue), x)) = 1
                                      /\ DOMAIN Append(Tail(rootQueue), x) = {1}
                                      /\ Append(Tail(rootQueue), x)[1] = x
           /\ connect.ready => manager.names = root.names
<1>1. PICK n \in Nat \ {0} : n = Len(rootQueue)
  BY TailQueue
<1>2. /\ Head(rootQueue) = rootQueue[1] /\ rootQueue[1] \in RootRequests
      /\ DOMAIN rootQueue = 1..n /\ DOMAIN Tail(rootQueue) = 1..n-1
      /\ \A x \in RootRequests : /\ Len(Append(Tail(rootQueue), x)) = n
                                 /\ DOMAIN Append(Tail(rootQueue), x) = 1..n
                                 /\ Append(Tail(rootQueue), x)[n] = x
  BY <1>1, TailQueue
<1>3. 1 \in 1..n /\ ~ Names(1)
  BY <1>2 DEF Names
<1>4. ~ 1 < n
  BY <1>1, <1>2, <1>3 DEF Peace, NamesFirst
<1>5. n = 1 /\ 1..n = {1} /\ 1..n-1 = {}
  BY <1>4
<1>6. connect.ready => manager.names = root.names
  BY <1>2, <1>3, <1>5 DEF Peace, NamesShown
<1>7. QED BY <1>2, <1>5, <1>6

\* When no call waits for the root database and the manager does not load, only names
\* are queued.
LEMMA NamesOnly ==
    ASSUME TypeOK, Tokens, Peace, connect.ready, ~ connect.init,
           \A b \in Calls : call[b].at \notin {"writing", "opening"}
    PROVE  \A i \in DOMAIN rootQueue : Names(i)
<1>1. SUFFICES ASSUME NEW i \in DOMAIN rootQueue
               PROVE  Names(i)
  OBVIOUS
<1>2. PICK r \in RootRequests : r = rootQueue[i]
  BY <1>1, TypeFacts
<1>3. r.kind # "current"
  <2>1. r.kind = "current" => Waits(r.by)
    BY <1>1, <1>2 DEF Peace, NamesFirst
  <2>2. QED BY <2>1 DEF Waits
<1>4. r.kind # "open"
  <2>1. ~ Asks(r, Start)
    BY <1>1, <1>2 DEF Peace, OneStart
  <2>2. ASSUME NEW b \in Calls
        PROVE  ~ Asks(r, b)
    BY <1>1, <1>2 DEF Tokens, OneQueued
  <2>3. QED BY <2>1, <2>2, RootRequestFacts DEF Asks
<1>5. r.kind \notin {"initCurrent", "initNames"}
  BY <1>1, <1>2 DEF Peace, NamesFirst
<1>6. QED BY <1>2, <1>3, <1>4, <1>5, RootRequestFacts DEF Names

\* A call that is under way is the only one.
LEMMA OneActive ==
    ASSUME Peace, NEW c \in Calls, Active(c)
    PROVE  /\ Switching /\ ~ Connecting
           /\ \A b \in Calls : b # c => call[b].at \in Ended
<1>1. Switching /\ ~ Connecting
  BY DEF Peace, Alone, Active, Switching
<1>2. \A b \in Calls : b # c => ~ Active(b)
  BY DEF Peace, Alone
<1>3. QED BY <1>1, <1>2 DEF Active

\* No part of Switch is about a call that has ended.
LEMMA EndedSwitch ==
    ASSUME NEW c \in Calls, call[c].at \in Ended \cup {"restoring", "putting"}
    PROVE  call[c].at \notin {"writing", "opening", "loading", "accounts", "creating"}
BY DEF Ended

\* The requests do not change, nor do the calls that wait for them.
LEMMA SameNamesFirst ==
    ASSUME NamesFirst, rootQueue' = rootQueue, connect'.init = connect.init,
           root'.current = root.current,
           \A b \in Calls : call[b].at = "writing" => call'[b].at = "writing"
    PROVE  NamesFirst'
BY DEF NamesFirst, Names, Waits

\* A wallet that is current is the one whose database is opened.
LEMMA DbFacts ==
    ASSUME TypeOK
    PROVE  /\ Db \in Databases /\ Unset \notin Databases
           /\ root.current \in Wallets => Db = root.current
                                          /\ PropertyOr(root.current, None) = root.current
<1>1. /\ root.current \in Databases \cup {Unset} /\ Default \in Wallets
      /\ Unset \notin Databases /\ Wallets \subseteq Databases
  BY WalletManagerAssumption DEF TypeOK, Databases
<1>2. QED BY <1>1 DEF Db, PropertyOr

\* The root database answers.
LEMMA NamesPutPeace ==
    ASSUME TypeOK, Tokens, Peace, rootQueue # <<>>, namesPut
    PROVE  Peace'
<1>1. PICK n \in Nat \ {0} : n = Len(rootQueue)
  BY TailQueue
<1>2. /\ Head(rootQueue) = rootQueue[1] /\ DOMAIN rootQueue = 1..n
      /\ rootQueue' = Tail(rootQueue) /\ DOMAIN rootQueue' = 1..n-1 /\ Len(rootQueue') = n-1
      /\ \A i \in 1..n-1 : rootQueue'[i] = rootQueue[i+1]
  BY <1>1, TailQueue DEF namesPut
<1>3. /\ rootQueue[1].kind = "names" /\ root' = [root EXCEPT !.names = rootQueue[1].names]
      /\ requests' = requests /\ idb' = idb /\ handle' = handle /\ call' = call
      /\ connect' = connect /\ manager' = manager /\ account' = account /\ ram' = ram
      /\ stored' = stored
  BY <1>2 DEF namesPut, shown
<1>4. root'.current = root.current /\ root'.names = rootQueue[1].names
  BY <1>3, TypeFacts
<1>5. \A i \in 1..n-1 : i+1 \in 1..n /\ (i < n-1 => i+1 < n)
  BY <1>1
<1>6. Alone'
  BY <1>3 DEF Peace, Alone, Active, Switching, Connecting
<1>7. NamesFirst'
  <2>1. SUFFICES ASSUME NEW i \in 1..n-1
                 PROVE  /\ i < n-1 => Names(i)'
                        /\ rootQueue'[i].kind = "current" =>
                               rootQueue'[i].by \in Calls /\ call[rootQueue'[i].by].at = "writing"
                        /\ rootQueue'[i].kind \in {"initCurrent", "initNames"} => connect'.init
                        /\ rootQueue'[i].kind = "initNames" =>
                               rootQueue'[i].current = PropertyOr(root'.current, None)
    BY <1>2, <1>3 DEF NamesFirst, Waits
  <2>2. i+1 \in 1..n /\ (i < n-1 => i+1 < n) /\ rootQueue'[i] = rootQueue[i+1]
    BY <1>2, <1>5
  <2>3. QED BY <1>1, <1>2, <1>3, <1>4, <2>2 DEF Peace, NamesFirst, Names, Waits
<1>8. NamesShown'
  <2>1. SUFFICES ASSUME connect.ready
                 PROVE  /\ \A i \in 1..n-1 :
                              Names(i)' /\ (\A j \in 1..n-1 : i < j => ~ Names(j)')
                                  => manager.names = rootQueue'[i].names
                        /\ (\A i \in 1..n-1 : ~ Names(i)') => manager.names = root'.names
    BY <1>2, <1>3 DEF NamesShown
  <2>2. \A j \in 1..n : j # 1 => j-1 \in 1..n-1 /\ rootQueue'[j-1] = rootQueue[j]
    <3>1. \A j \in 1..n : j # 1 => j-1 \in 1..n-1 /\ (j-1)+1 = j
      BY <1>1
    <3>2. QED BY <1>2, <3>1
  <2>3. ASSUME NEW i \in 1..n-1, Names(i)', \A j \in 1..n-1 : i < j => ~ Names(j)'
        PROVE  manager.names = rootQueue'[i].names
    <3>1. i+1 \in 1..n /\ Names(i+1) /\ rootQueue'[i] = rootQueue[i+1]
      BY <1>2, <1>5, <2>3 DEF Names
    <3>2. ASSUME NEW j \in 1..n, i+1 < j
          PROVE  ~ Names(j)
      <4>1. j-1 \in 1..n-1 /\ i < j-1 /\ rootQueue'[j-1] = rootQueue[j]
        BY <1>1, <2>2, <3>2
      <4>2. QED BY <2>3, <4>1 DEF Names
    <3>3. QED BY <1>2, <2>1, <3>1, <3>2 DEF Peace, NamesShown
  <2>4. ASSUME \A i \in 1..n-1 : ~ Names(i)'
        PROVE  manager.names = root'.names
    <3>1. 1 \in 1..n /\ Names(1)
      BY <1>1, <1>3 DEF Names
    <3>2. \A j \in 1..n : 1 < j => ~ Names(j)
      BY <2>2, <2>4 DEF Names
    <3>3. QED BY <1>2, <1>4, <2>1, <3>1, <3>2 DEF Peace, NamesShown
  <2>5. QED BY <2>3, <2>4
<1>9. OneStart'
  BY <1>2, <1>3, <1>4, <1>5 DEF Peace, OneStart, Asks, Db
<1>10. Switch'
  BY <1>3, <1>4 DEF Peace, Switch, Asks, RamIsOf
<1>11. Loading' /\ Calm'
  BY <1>3, <1>4 DEF Peace, Loading, Calm, Switching, Db, RamIsOf
<1>12. QED BY <1>6, <1>7, <1>8, <1>9, <1>10, <1>11 DEF Peace

\* The name of the current wallet is put.
LEMMA CurrentPutPeace ==
    ASSUME TypeOK, Tokens, Peace, rootQueue # <<>>, currentPut
    PROVE  Peace'
<1>1. /\ 1 \in DOMAIN rootQueue /\ Head(rootQueue) = rootQueue[1] /\ DOMAIN rootQueue = {1}
      /\ rootQueue[1] \in RootRequests /\ rootQueue[1].kind = "current"
      /\ connect.ready => manager.names = root.names
      /\ \A x \in RootRequests : /\ Len(Append(Tail(rootQueue), x)) = 1
                                 /\ DOMAIN Append(Tail(rootQueue), x) = {1}
                                 /\ Append(Tail(rootQueue), x)[1] = x
  BY HeadAlone DEF currentPut
<1>2. PICK c \in Calls : c = rootQueue[1].by /\ Waits(c)
  BY <1>1 DEF Peace, NamesFirst, Waits
<1>3. c # Unset /\ c # Start
  BY CallNumbers
<1>4. call[c].at = "writing" /\ rootQueue[1].current = call[c].wallet
  BY <1>1, <1>2 DEF Tokens, OneWrite, Writes, Waits
<1>5. Active(c)
  BY <1>4 DEF Active, Ended
<1>6. PICK w \in Wallets : w = call[c].wallet /\ connect.ready
  BY <1>5 DEF Tokens, Running
<1>7. /\ root' = [root EXCEPT !.current = w]
      /\ handle' = Unset /\ idb' = Unset
      /\ rootQueue' = Append(Tail(rootQueue), AskOpen(c))
      /\ call' = [call EXCEPT ![c].at = "opening"]
      /\ requests' = requests /\ connect' = connect /\ manager' = manager
      /\ account' = account
  BY <1>1, <1>2, <1>3, <1>4, <1>6 DEF currentPut, reopen, shown
<1>8. root'.current = w /\ root'.names = root.names
  BY <1>7, TypeFacts
<1>9. /\ call'[c].at = "opening" /\ call'[c].wallet = w
      /\ \A b \in Calls : b # c => call'[b] = call[b]
  BY <1>6, <1>7, TypeFacts DEF CallRecords
<1>10. /\ Len(rootQueue') = 1 /\ DOMAIN rootQueue' = {1} /\ rootQueue'[1].kind = "open"
       /\ rootQueue'[1].by = c
  BY <1>1, <1>7, RootRequestsMade
<1>11. ~ Connecting /\ \A b \in Calls : b # c => call[b].at \in Ended
  BY <1>5, OneActive
<1>12. Alone'
  <2>1. \A b \in Calls : Active(b)' => b = c
    BY <1>9, <1>11 DEF Active
  <2>2. ~ Connecting'
    BY <1>7, <1>11 DEF Connecting
  <2>3. QED BY <2>1, <2>2 DEF Alone
<1>13. NamesFirst' /\ NamesShown'
  BY <1>1, <1>6, <1>7, <1>8, <1>10 DEF NamesFirst, NamesShown, Names
<1>14. OneStart'
  BY <1>3, <1>6, <1>7, <1>10 DEF Peace, OneStart, Asks
<1>15. Switch'
  <2>1. account = w
    BY <1>4, <1>6 DEF Peace, Switch
  <2>2. \A i \in DOMAIN requests : ~ Asks(requests[i], c)
    BY <1>4 DEF Tokens, OneOpen
  <2>3. \A b \in Calls : b # c =>
            call'[b].at \notin {"writing", "opening", "loading", "accounts", "creating"}
    BY <1>9, <1>11 DEF Ended
  <2>4. QED BY <1>7, <1>8, <1>9, <2>1, <2>2, <2>3 DEF Switch, Asks
<1>16. Loading' /\ Calm'
  <2>1. Switching'
    BY <1>9 DEF Switching, Ended
  <2>2. QED BY <1>6, <1>7, <2>1 DEF Loading, Calm
<1>17. QED BY <1>12, <1>13, <1>14, <1>15, <1>16 DEF Peace

\* The root database opens.
LEMMA OpenDatabasePeace ==
    ASSUME TypeOK, Tokens, Peace, rootQueue # <<>>, openDatabase
    PROVE  Peace'
<1>1. /\ 1 \in DOMAIN rootQueue /\ Head(rootQueue) = rootQueue[1] /\ DOMAIN rootQueue = {1}
      /\ rootQueue[1] \in RootRequests /\ rootQueue[1].kind = "open"
      /\ connect.ready => manager.names = root.names
      /\ DOMAIN Tail(rootQueue) = {}
  BY HeadAlone DEF openDatabase
<1>2. PICK b \in {Start} \cup Calls : b = rootQueue[1].by
  BY <1>1, RootRequestFacts
<1>3. Asks(rootQueue[1], b)
  BY <1>1, <1>2 DEF Asks
<1>4. PICK x \in Requests : x = [kind |-> "open", db |-> Db, by |-> b]
  BY DbFacts, RequestFacts
<1>5. /\ DOMAIN rootQueue' = {} /\ requests' = Append(requests, x)
      /\ root' = root /\ stored' = stored /\ idb' = idb /\ handle' = handle
      /\ manager' = manager /\ account' = account /\ ram' = ram /\ call' = call
      /\ connect' = connect
  BY <1>1, <1>2, <1>4 DEF openDatabase, Db, disk, shown
<1>6. PICK m \in Nat : m = Len(requests)
  BY TypeFacts
<1>7. /\ DOMAIN requests = 1..m /\ DOMAIN requests' = 1..m+1
      /\ \A i \in 1..m : requests'[i] = requests[i]
      /\ requests'[m+1] = x
  BY <1>5, <1>6, TypeFacts, AppendFacts
<1>8. /\ x.kind = "open" /\ x.db = Db /\ x.by = b /\ Db' = Db
  BY <1>4, <1>5 DEF Db
<1>9. Alone' /\ NamesFirst' /\ NamesShown'
  BY <1>1, <1>5 DEF Peace, Alone, NamesFirst, NamesShown, Active, Switching, Connecting
<1>10. OneStart'
  <2>1. SUFFICES ASSUME NEW i \in 1..m+1, Asks(requests'[i], Start)
                 PROVE  /\ ~ connect.ready /\ idb = Unset /\ requests'[i].db = Db
                        /\ \A j \in 1..m+1 : Asks(requests'[j], Start) => i = j
    BY <1>5, <1>7, <1>8 DEF OneStart, Asks
  <2>2. CASE b = Start
    <3>1. ~ connect.ready /\ idb = Unset
      BY <1>1, <1>3, <2>2 DEF Peace, OneStart
    <3>2. \A j \in 1..m : ~ Asks(requests[j], Start)
      BY <1>1, <1>3, <1>7, <2>2 DEF Peace, OneStart
    <3>3. \A j \in 1..m+1 : Asks(requests'[j], Start) => j = m+1
      BY <1>7, <3>2 DEF Asks
    <3>4. QED BY <1>7, <1>8, <2>1, <3>1, <3>3
  <2>3. CASE b # Start
    <3>1. ~ Asks(x, Start)
      BY <1>8, <2>3 DEF Asks
    <3>2. \A j \in 1..m+1 : Asks(requests'[j], Start) => j \in 1..m
      BY <1>7, <3>1
    <3>3. QED BY <1>7, <2>1, <3>2 DEF Peace, OneStart
  <2>4. QED BY <2>2, <2>3
<1>11. Switch'
  <2>1. ASSUME NEW c \in Calls, call[c].at = "opening", NEW i \in 1..m+1,
               Asks(requests'[i], c)
        PROVE  requests'[i].db = call[c].wallet
    <3>1. root.current = call[c].wallet
      BY <2>1 DEF Peace, Switch
    <3>2. call[c].wallet \in Wallets
      BY <2>1 DEF Tokens, Running, Active, Ended
    <3>3. Db = call[c].wallet
      BY <3>1, <3>2, DbFacts
    <3>4. i \in 1..m => requests[i].db = call[c].wallet
      BY <1>7, <2>1 DEF Peace, Switch
    <3>5. QED BY <1>7, <1>8, <3>3, <3>4
  <2>2. QED BY <1>5, <1>7, <2>1 DEF Peace, Switch, Asks, RamIsOf
<1>12. Loading' /\ Calm'
  BY <1>5, <1>8 DEF Peace, Loading, Calm, Switching, RamIsOf
<1>13. QED BY <1>9, <1>10, <1>11, <1>12 DEF Peace

\* The names and the current wallet are read.
LEMMA InitPeace ==
    ASSUME TypeOK, Tokens, Peace, rootQueue # <<>>, init \/ initDone
    PROVE  Peace'
<1>1. /\ 1 \in DOMAIN rootQueue /\ Head(rootQueue) = rootQueue[1] /\ DOMAIN rootQueue = {1}
      /\ rootQueue[1].kind \in {"initCurrent", "initNames"}
      /\ connect.ready => manager.names = root.names
      /\ DOMAIN Tail(rootQueue) = {}
      /\ \A x \in RootRequests : /\ Len(Append(Tail(rootQueue), x)) = 1
                                 /\ DOMAIN Append(Tail(rootQueue), x) = {1}
                                 /\ Append(Tail(rootQueue), x)[1] = x
  BY HeadAlone DEF init, initDone
<1>2. /\ connect.init
      /\ rootQueue[1].kind = "initNames" =>
             rootQueue[1].current = PropertyOr(root.current, None)
  BY <1>1 DEF Peace, NamesFirst
<1>3. Connecting /\ ~ Switching
  BY <1>2 DEF Peace, Alone, Connecting
<1>4. CASE init
  <2>1. PICK d \in Databases : d = PropertyOr(root.current, None)
    BY DEF TypeOK, PropertyOr, Databases
  <2>2. PICK x \in RootRequests : /\ x = [kind |-> "initNames", current |-> d]
                                  /\ x.kind = "initNames" /\ x.current = d
    <3>1. [kind |-> "initNames", current |-> d] \in RootRequests
      BY RootRequestsMade
    <3>2. QED BY <3>1
  <2>3. /\ rootQueue' = Append(Tail(rootQueue), x)
        /\ root' = root /\ stored' = stored /\ idb' = idb /\ handle' = handle
        /\ manager' = manager /\ account' = account /\ ram' = ram /\ call' = call
        /\ connect' = connect /\ requests' = requests
    BY <1>4, <2>1, <2>2 DEF init, disk, shown
  <2>4. Len(rootQueue') = 1 /\ DOMAIN rootQueue' = {1} /\ rootQueue'[1] = x
    BY <1>1, <2>3
  <2>5. NamesFirst' /\ NamesShown'
    BY <1>1, <1>2, <2>1, <2>2, <2>3, <2>4 DEF NamesFirst, NamesShown, Names
  <2>6. OneStart'
    BY <2>2, <2>3, <2>4 DEF Peace, OneStart, Asks, Db
  <2>7. Alone' /\ Switch'
    BY <2>3 DEF Peace, Alone, Switch, Active, Switching, Connecting, Asks, RamIsOf
  <2>8. Loading' /\ Calm'
    BY <2>3 DEF Peace, Loading, Calm, Switching, Db, RamIsOf
  <2>9. QED BY <2>5, <2>6, <2>7, <2>8 DEF Peace
<1>5. CASE initDone
  <2>1. PICK d : d = PropertyOr(root.current, None) /\ d = Head(rootQueue).current
    BY <1>1, <1>2, <1>5 DEF initDone
  <2>2. /\ DOMAIN rootQueue' = {} /\ manager' = [names |-> root.names, current |-> d]
        /\ account' = d
        /\ connect' = [connect EXCEPT !.init = FALSE, !.ready = @ \/ connect.from = Unset]
        /\ root' = root /\ stored' = stored /\ idb' = idb /\ handle' = handle
        /\ ram' = ram /\ call' = call /\ requests' = requests
    BY <1>1, <1>5, <2>1 DEF initDone, disk
  <2>3. /\ ~ connect'.init /\ connect'.from = connect.from
        /\ connect'.ready <=> connect.ready \/ connect.from = Unset
    BY <2>2, TypeFacts
  <2>4. manager'.names = root.names /\ manager'.current = d /\ Db' = Db
        /\ PropertyOr(root.current, None)' = d
    BY <2>1, <2>2 DEF Db
  <2>5. ~ connect.ready => idb # Unset
    BY <1>2 DEF Peace, Loading
  <2>6. Alone'
    BY <1>3, <2>2 DEF Alone, Active, Switching
  <2>7. NamesFirst' /\ NamesShown'
    BY <2>2, <2>4 DEF NamesFirst, NamesShown
  <2>8. OneStart'
    <3>1. \A i \in DOMAIN requests : ~ Asks(requests[i], Start)
      BY <2>5 DEF Peace, OneStart
    <3>2. QED BY <2>2, <3>1 DEF OneStart, Asks
  <2>9. Switch'
    <3>1. \A c \in Calls : call[c].at \in Ended
      BY <1>3 DEF Switching
    <3>2. QED BY <2>2, <3>1 DEF Switch, Ended
  <2>10. Loading'
    BY <2>1, <2>2, <2>3, <2>4, <2>5 DEF Peace, Loading, RamIsOf
  <2>11. Calm'
    <3>1. CASE connect.ready
      BY <1>3, <2>1, <2>2, <2>3, <2>4, <3>1 DEF Peace, Calm, RamIsOf
    <3>2. CASE ~ connect.ready
      BY <2>1, <2>2, <2>3, <2>4, <2>5, <3>2 DEF Peace, Loading, Calm, RamIsOf
    <3>3. QED BY <3>1, <3>2
  <2>12. QED BY <2>6, <2>7, <2>8, <2>9, <2>10, <2>11 DEF Peace
<1>6. QED BY <1>4, <1>5

\* IndexedDB answers open and delete.
LEMMA StartOpenedPeace ==
    ASSUME TypeOK, Tokens, Peace, NEW i \in DOMAIN requests, opened(i),
           requests[i].by = Start
    PROVE  Peace'
<1>1. PICK r \in Requests : r = requests[i] /\ r.kind = "open" /\ r.by = Start
  BY TypeFacts DEF opened
<1>2. /\ ~ connect.ready /\ idb = Unset /\ r.db = Db
      /\ \A j \in DOMAIN rootQueue : ~ Asks(rootQueue[j], Start)
      /\ \A j \in DOMAIN requests : Asks(requests[j], Start) => i = j
  BY <1>1 DEF Peace, OneStart, Asks
<1>3. ram = None /\ ~ connect.init
  BY <1>2 DEF Peace, Loading
<1>4. /\ connect' = [connect EXCEPT !.from = Db, !.init = TRUE]
      /\ rootQueue' = Append(rootQueue, [kind |-> "initCurrent"])
      /\ idb' = Db /\ handle' = Db
      /\ requests' = RemoveAt(requests, i) /\ call' = call /\ root' = root
      /\ stored' = stored /\ manager' = manager /\ account' = account /\ ram' = ram
  BY <1>1, <1>2, <1>3 DEF opened, disk, shown
<1>5. /\ ~ connect'.ready /\ connect'.from = Db /\ connect'.init
      /\ idb' = Db /\ Db' = Db /\ Db # Unset
  BY <1>2, <1>3, <1>4, TypeFacts, DbFacts DEF Db
<1>6. \A c \in Calls : call[c].at \in Ended
  BY <1>2 DEF Tokens, Running, Active
<1>7. DOMAIN rootQueue = {}
  <2>1. SUFFICES ASSUME NEW j \in DOMAIN rootQueue
                 PROVE  FALSE
    OBVIOUS
  <2>2. PICK q \in RootRequests : q = rootQueue[j]
    BY <2>1, TypeFacts
  <2>3. q.kind = "open"
    BY <1>2, <1>3, <2>1, <2>2 DEF Tokens, Starting, Peace, NamesFirst
  <2>4. PICK b \in {Start} \cup Calls : Asks(q, b)
    BY <2>3, RootRequestFacts DEF Asks
  <2>5. b # Start
    BY <1>2, <2>1, <2>2, <2>4
  <2>6. call[b].at = "opening" /\ b \in Calls
    BY <2>1, <2>2, <2>4, <2>5 DEF Tokens, OneQueued
  <2>7. QED BY <1>6, <2>6 DEF Ended
<1>8. PICK x \in RootRequests : x = [kind |-> "initCurrent"] /\ x.kind = "initCurrent"
  BY RootRequestsMade
<1>9. /\ Len(rootQueue') = 1 /\ DOMAIN rootQueue' = {1} /\ rootQueue'[1].kind = "initCurrent"
  <2>1. /\ Len(rootQueue) \in Nat /\ DOMAIN rootQueue = 1..Len(rootQueue)
        /\ Len(rootQueue') = Len(rootQueue) + 1 /\ DOMAIN rootQueue' = 1..Len(rootQueue)+1
        /\ rootQueue'[Len(rootQueue)+1] = x
    BY <1>4, <1>8, GrownQueue
  <2>2. Len(rootQueue) = 0
    <3>1. Len(rootQueue) # 0 => 1 \in 1..Len(rootQueue)
      BY <2>1
    <3>2. QED BY <1>7, <2>1, <3>1
  <2>3. 1..0+1 = {1}
    OBVIOUS
  <2>4. QED BY <1>8, <2>1, <2>2, <2>3
<1>10. Alone'
  BY <1>4, <1>6 DEF Alone, Active, Switching
<1>11. NamesFirst'
  BY <1>5, <1>9 DEF NamesFirst
<1>12. NamesShown' /\ Calm'
  BY <1>5 DEF NamesShown, Calm
<1>13. OneStart'
  <2>1. \A j \in DOMAIN requests' : ~ Asks(requests'[j], Start)
    BY <1>2, <1>4, RemovedRequests
  <2>2. QED BY <1>9, <2>1 DEF OneStart, Asks
<1>14. Switch'
  BY <1>4, <1>6 DEF Switch, Ended
<1>15. Loading'
  BY <1>3, <1>4, <1>5 DEF Loading
<1>16. QED BY <1>10, <1>11, <1>12, <1>13, <1>14, <1>15 DEF Peace

\* A database opens for a call.
LEMMA CallOpenedPeace ==
    ASSUME TypeOK, Tokens, Peace, NEW i \in DOMAIN requests, opened(i),
           requests[i].by # Start
    PROVE  Peace'
<1>1. PICK r \in Requests : r = requests[i] /\ r.kind = "open" /\ r.by # Start
  BY TypeFacts DEF opened
<1>2. PICK c \in Calls : c = r.by /\ Asks(requests[i], c)
  BY <1>1, RequestFacts DEF Asks
<1>3. /\ call[c].at \in {"restoring", "opening"}
      /\ \A j \in DOMAIN requests : Asks(requests[j], c) => i = j
  BY <1>2 DEF Tokens, OneOpen
<1>4. Active(c)
  BY <1>3 DEF Active, Ended
<1>5. /\ connect.ready /\ ~ Connecting /\ \A b \in Calls : b # c => call[b].at \in Ended
  BY <1>4, OneActive DEF Tokens, Running
<1>6. /\ connect' = connect /\ rootQueue' = rootQueue /\ handle' = r.db
      /\ requests' = RemoveAt(requests, i) /\ root' = root /\ stored' = stored
      /\ manager' = manager /\ account' = account /\ ram' = ram
      /\ call[c].at # "restoring" => idb' = r.db
  BY <1>1, <1>2 DEF opened, disk, shown
<1>7. /\ call'[c].at = IF call[c].at = "restoring" THEN "putting" ELSE "loading"
      /\ call'[c].wallet = call[c].wallet /\ call'[c].from = r.db
      /\ \A b \in Calls : b # c => call'[b] = call[b]
  <2>1. PICK at \in {"putting", "loading"} :
             at = IF call[c].at = "restoring" THEN "putting" ELSE "loading"
    OBVIOUS
  <2>2. call' = [call EXCEPT ![c].from = r.db, ![c].at = at]
    <3>1. call' = [call EXCEPT ![c].from = r.db,
                               ![c].at = IF @ = "restoring" THEN "putting" ELSE "loading"]
      BY <1>1, <1>2 DEF opened
    <3>2. call[c] \in CallRecords
      BY TypeFacts
    <3>3. QED BY <2>1, <3>1, <3>2, TypeFacts DEF CallRecords
  <2>3. QED BY <2>1, <2>2, TypeFacts DEF CallRecords
<1>8. Alone'
  <2>1. \A b \in Calls : Active(b)' => b = c
    BY <1>5, <1>7 DEF Active
  <2>2. ~ Connecting'
    BY <1>5, <1>6 DEF Connecting
  <2>3. QED BY <2>1, <2>2 DEF Alone
<1>9. NamesFirst' /\ NamesShown'
  <2>1. \A b \in Calls : call[b].at = "writing" => call'[b].at = "writing"
    BY <1>3, <1>7
  <2>2. QED BY <1>6, <2>1, SameNamesFirst DEF Peace, NamesShown, Names
<1>10. OneStart'
  <2>1. /\ \A j \in DOMAIN requests : ~ Asks(requests[j], Start)
        /\ \A j \in DOMAIN rootQueue : ~ Asks(rootQueue[j], Start)
    BY <1>5 DEF Peace, OneStart
  <2>2. \A j \in DOMAIN requests' : ~ Asks(requests'[j], Start)
    BY <1>6, <2>1, RemovedRequests
  <2>3. QED BY <1>6, <2>1, <2>2 DEF OneStart, Asks
<1>11. Switch'
  <2>1. \A b \in Calls : b # c =>
            call'[b].at \notin {"writing", "opening", "loading", "accounts", "creating"}
    BY <1>5, <1>7 DEF Ended
  <2>2. CASE call[c].at = "restoring"
    BY <1>7, <2>1, <2>2 DEF Switch
  <2>3. CASE call[c].at = "opening"
    <3>1. /\ account = call[c].wallet /\ root.current = call[c].wallet
          /\ idb = Unset /\ r.db = call[c].wallet
      BY <1>1, <1>2, <2>3 DEF Peace, Switch
    <3>2. idb' = call[c].wallet
      BY <1>6, <2>3, <3>1
    <3>3. QED BY <1>6, <1>7, <2>1, <2>3, <3>1, <3>2 DEF Switch
  <2>4. QED BY <1>3, <2>2, <2>3
<1>12. Loading' /\ Calm'
  <2>1. Switching'
    BY <1>7 DEF Switching, Ended
  <2>2. QED BY <1>5, <1>6, <2>1 DEF Loading, Calm
<1>13. QED BY <1>8, <1>9, <1>10, <1>11, <1>12 DEF Peace

\* A database is deleted.
LEMMA DeletedPeace ==
    ASSUME TypeOK, Tokens, Peace, NEW i \in DOMAIN requests, deleted(i)
    PROVE  Peace'
<1>1. PICK r \in Requests : r = requests[i] /\ r.db # idb
  BY TypeFacts DEF deleted
<1>2. /\ requests' = RemoveAt(requests, i) /\ stored' = [stored EXCEPT ![r.db] = {}]
      /\ root' = root /\ rootQueue' = rootQueue /\ idb' = idb /\ handle' = handle
      /\ manager' = manager /\ account' = account /\ ram' = ram /\ call' = call
      /\ connect' = connect
  BY <1>1 DEF deleted, shown
<1>3. \A j \in DOMAIN requests' : /\ Skip(i, j) \in DOMAIN requests
                                  /\ requests'[j] = requests[Skip(i, j)]
  BY <1>2, RemovedRequests
<1>4. \A j, k \in DOMAIN requests' : Skip(i, j) = Skip(i, k) => j = k
  BY <1>2, RemovedRequests
<1>5. \A d \in Databases : d = idb /\ RamIsOf(d) => RamIsOf(d)'
  BY <1>1, <1>2, TypeFacts DEF RamIsOf
<1>6. Alone' /\ NamesFirst' /\ NamesShown'
  BY <1>2, SameNamesFirst DEF Peace, Alone, NamesShown, Names, Active, Switching, Connecting
<1>7. OneStart'
  <2>1. SUFFICES ASSUME NEW j \in DOMAIN requests', Asks(requests'[j], Start)
                 PROVE  /\ ~ connect.ready /\ idb = Unset /\ requests'[j].db = Db
                        /\ \A k \in DOMAIN rootQueue : ~ Asks(rootQueue[k], Start)
                        /\ \A k \in DOMAIN requests' : Asks(requests'[k], Start) => j = k
    BY <1>2 DEF Peace, OneStart, Asks, Db
  <2>2. Skip(i, j) \in DOMAIN requests /\ Asks(requests[Skip(i, j)], Start)
    BY <1>3, <2>1
  <2>3. /\ ~ connect.ready /\ idb = Unset /\ requests[Skip(i, j)].db = Db
        /\ \A k \in DOMAIN rootQueue : ~ Asks(rootQueue[k], Start)
        /\ \A k \in DOMAIN requests : Asks(requests[k], Start) => Skip(i, j) = k
    BY <2>2 DEF Peace, OneStart
  <2>4. ASSUME NEW k \in DOMAIN requests', Asks(requests'[k], Start)
        PROVE  j = k
    <3>1. Skip(i, j) = Skip(i, k)
      BY <1>3, <2>3, <2>4
    <3>2. QED BY <1>4, <3>1
  <2>5. QED BY <1>3, <2>3, <2>4
<1>8. Switch'
  <2>1. ASSUME NEW c \in Calls, call[c].at = "opening", NEW j \in DOMAIN requests',
               Asks(requests'[j], c)
        PROVE  requests'[j].db = call[c].wallet
    BY <1>3, <2>1 DEF Peace, Switch
  <2>2. ASSUME NEW c \in Calls, call[c].at = "accounts", ~ call[c].create
        PROVE  RamIsOf(call[c].wallet)'
    <3>1. PICK w \in Databases : w = call[c].wallet
      BY TypeFacts DEF CallRecords
    <3>2. w = idb /\ RamIsOf(w)
      BY <2>2, <3>1 DEF Peace, Switch
    <3>3. RamIsOf(w)'
      BY <1>5, <3>2
    <3>4. QED BY <1>2, <3>1, <3>3 DEF RamIsOf
  <2>3. QED BY <1>2, <2>1, <2>2 DEF Peace, Switch, Asks, RamIsOf
<1>9. Loading' /\ Calm'
  <2>1. PICK d \in Databases : d = Db /\ d # Unset
    BY DbFacts
  <2>2. d = idb /\ RamIsOf(d) => RamIsOf(d)'
    BY <1>5
  <2>3. Db' = d
    BY <1>2, <2>1 DEF Db
  <2>4. Loading'
    BY <1>2, <2>1, <2>2, <2>3 DEF Peace, Loading
  <2>5. Calm'
    BY <1>2, <2>1, <2>2, <2>3 DEF Peace, Calm, Switching
  <2>6. QED BY <2>4, <2>5
<1>10. QED BY <1>6, <1>7, <1>8, <1>9 DEF Peace

\* The loads and the end of the page.
LEMMA WalletLoadedPeace ==
    ASSUME TypeOK, Tokens, Peace, walletLoaded
    PROVE  Peace'
<1>1. /\ connect.from # Unset /\ ram' \in LoadedFrom(connect.from)
      /\ connect' = [connect EXCEPT !.from = Unset, !.ready = @ \/ ~ connect.init]
      /\ root' = root /\ stored' = stored /\ idb' = idb /\ handle' = handle
      /\ manager' = manager /\ account' = account /\ call' = call
      /\ requests' = requests /\ rootQueue' = rootQueue
  BY DEF walletLoaded, disk
<1>2. /\ connect'.from = Unset /\ connect'.init = connect.init
      /\ connect'.ready <=> connect.ready \/ ~ connect.init
  BY <1>1, TypeFacts
<1>3. ~ Switching
  BY <1>1 DEF Peace, Alone, Connecting
<1>4. ~ connect.ready => /\ idb = Db /\ handle = Db
                         /\ connect.from = Db /\ ram = None
                         /\ ~ connect.init => /\ manager.current = PropertyOr(root.current, None)
                                              /\ account = PropertyOr(root.current, None)
  BY <1>1 DEF Peace, Loading
<1>5. connect.ready => connect.from = Db /\ RamIsOf(Db)
  BY <1>1, <1>3 DEF Peace, Calm
<1>6. RamIsOf(Db)' /\ Db' = Db /\ Db # Unset
  <2>1. Db' = Db /\ Db # Unset /\ connect.from = Db
    BY <1>1, <1>4, <1>5, DbFacts DEF Db
  <2>2. ram' \in (IF stored[Db] = {} THEN {None} ELSE stored[Db])
    BY <1>1, <1>4, <1>5, <2>1 DEF LoadedFrom, RamIsOf
  <2>3. QED BY <1>1, <2>1, <2>2 DEF RamIsOf
<1>7. Alone'
  BY <1>1, <1>3 DEF Peace, Alone, Active, Switching
<1>8. NamesFirst'
  BY <1>1, <1>2, SameNamesFirst DEF Peace
<1>9. NamesShown'
  <2>1. CASE connect.ready
    BY <1>1, <2>1 DEF Peace, NamesShown, Names
  <2>2. CASE ~ connect.ready /\ ~ connect.init
    <3>1. /\ manager.names = root.names
          /\ \A i \in DOMAIN rootQueue : ~ Names(i)
      BY <1>1, <2>2 DEF Tokens, Starting, Names
    <3>2. QED BY <1>1, <3>1 DEF NamesShown, Names
  <2>3. CASE ~ connect.ready /\ connect.init
    BY <1>2, <2>3 DEF NamesShown
  <2>4. QED BY <2>1, <2>2, <2>3
<1>10. OneStart'
  <2>1. idb # Unset \/ connect.ready
    BY <1>4, <1>6
  <2>2. /\ \A i \in DOMAIN requests : ~ Asks(requests[i], Start)
        /\ \A i \in DOMAIN rootQueue : ~ Asks(rootQueue[i], Start)
    BY <2>1 DEF Peace, OneStart
  <2>3. QED BY <1>1, <2>2 DEF OneStart, Asks
<1>11. Switch'
  <2>1. \A c \in Calls : call[c].at \in Ended
    BY <1>3 DEF Switching
  <2>2. QED BY <1>1, <2>1 DEF Switch, Ended
<1>12. Loading'
  BY <1>1, <1>2, <1>4, <1>6 DEF Loading
<1>13. Calm'
  <2>1. CASE connect.ready
    BY <1>1, <1>2, <1>3, <1>6, <2>1 DEF Peace, Calm
  <2>2. CASE ~ connect.ready
    BY <1>1, <1>2, <1>4, <1>6, <2>2 DEF Calm
  <2>3. QED BY <2>1, <2>2
<1>14. QED BY <1>7, <1>8, <1>9, <1>10, <1>11, <1>12, <1>13 DEF Peace

\* A request that is put behind names only.
LEMMA QueuedPeace ==
    ASSUME TypeOK, NamesShown, connect.ready, connect'.ready, root'.names = root.names,
           \A i \in DOMAIN rootQueue : Names(i),
           NEW x \in RootRequests, rootQueue' = Append(rootQueue, x),
           x.kind \in {"names", "current", "initCurrent"},
           IF x.kind = "names" THEN manager'.names = x.names
                               ELSE manager'.names = manager.names,
           x.kind = "current" => x.by \in Calls /\ call'[x.by].at = "writing",
           x.kind = "initCurrent" => connect'.init
    PROVE  /\ NamesFirst' /\ NamesShown'
           /\ \A i \in DOMAIN rootQueue' : ~ Asks(rootQueue'[i], Start)
<1>1. PICK n \in Nat : n = Len(rootQueue)
  BY TypeFacts
<1>2. /\ DOMAIN rootQueue = 1..n /\ Len(rootQueue') = n+1 /\ DOMAIN rootQueue' = 1..n+1
      /\ \A j \in 1..n : rootQueue'[j] = rootQueue[j]
      /\ rootQueue'[n+1] = x
  BY <1>1, GrownQueue
<1>3. \A j \in 1..n : Names(j) /\ Names(j)' /\ j < n+1 /\ j # n+1
  BY <1>2 DEF Names
<1>4. \A j \in 1..n+1 : j \in 1..n \/ (j = n+1 /\ ~ j < n+1)
  BY <1>1
<1>5. NamesFirst'
  BY <1>2, <1>3, <1>4 DEF NamesFirst, Names, Waits
<1>6. \A i \in DOMAIN rootQueue' : ~ Asks(rootQueue'[i], Start)
  BY <1>2, <1>3, <1>4 DEF Asks, Names
<1>7. CASE x.kind = "names"
  <2>1. Names(n+1)' /\ manager'.names = rootQueue'[n+1].names /\ n+1 \in 1..n+1
    BY <1>1, <1>2, <1>7 DEF Names
  <2>2. \A i \in 1..n+1 : (\A j \in 1..n+1 : i < j => ~ Names(j)') => i = n+1
    BY <1>3, <1>4, <2>1
  <2>3. NamesShown'
    BY <1>2, <2>1, <2>2 DEF NamesShown
  <2>4. QED BY <1>5, <1>6, <2>3
<1>8. CASE x.kind # "names"
  <2>1. ~ Names(n+1)' /\ manager'.names = manager.names
    BY <1>2, <1>8 DEF Names
  <2>2. ASSUME NEW i \in 1..n+1, Names(i)', \A j \in 1..n+1 : i < j => ~ Names(j)'
        PROVE  manager'.names = rootQueue'[i].names
    <3>1. i \in 1..n
      BY <1>4, <2>1, <2>2
    <3>2. \A j \in 1..n : ~ i < j
      <4>1. \A j \in 1..n : j \in 1..n+1
        BY <1>1
      <4>2. QED BY <1>3, <2>2, <4>1
    <3>3. manager.names = rootQueue[i].names
      BY <1>2, <1>3, <3>1, <3>2 DEF NamesShown
    <3>4. QED BY <1>2, <2>1, <3>1, <3>3
  <2>3. ASSUME \A i \in 1..n+1 : ~ Names(i)'
        PROVE  manager'.names = root'.names
    <3>1. \A i \in 1..n : i \in 1..n+1
      BY <1>1
    <3>2. \A i \in DOMAIN rootQueue : ~ Names(i)
      BY <1>2, <1>3, <2>3, <3>1
    <3>3. QED BY <2>1, <3>2 DEF NamesShown
  <2>4. NamesShown'
    BY <1>2, <2>2, <2>3 DEF NamesShown
  <2>5. QED BY <1>5, <1>6, <2>4
<1>9. QED BY <1>7, <1>8

\* The stores are loaded, or loaded again.
LEMMA ConnectPeace ==
    ASSUME TypeOK, Tokens, Peace, Connect, ~ disturbed'
    PROVE  Peace'
<1>1. /\ connect.ready /\ ~ Connecting /\ ~ Switching
      /\ connect' = [connect EXCEPT !.from = handle, !.init = TRUE]
      /\ rootQueue' = Append(rootQueue, [kind |-> "initCurrent"])
      /\ root' = root /\ stored' = stored /\ idb' = idb /\ handle' = handle
      /\ manager' = manager /\ account' = account /\ ram' = ram /\ call' = call
      /\ requests' = requests
  BY DEF Connect, disk, shown
<1>2. connect'.ready /\ connect'.from = handle /\ connect'.init
  BY <1>1, TypeFacts
<1>3. \A c \in Calls : call[c].at \in Ended
  BY <1>1 DEF Switching
<1>4. \A i \in DOMAIN rootQueue : Names(i)
  BY <1>1, <1>3, NamesOnly DEF Connecting, Ended
<1>5. PICK x \in RootRequests : x = [kind |-> "initCurrent"] /\ x.kind = "initCurrent"
  BY RootRequestsMade
<1>6. /\ NamesFirst' /\ NamesShown'
      /\ \A i \in DOMAIN rootQueue' : ~ Asks(rootQueue'[i], Start)
  BY <1>1, <1>2, <1>4, <1>5, QueuedPeace DEF Peace
<1>7. Alone'
  BY <1>1, <1>3 DEF Alone, Active, Switching
<1>8. OneStart'
  <2>1. \A i \in DOMAIN requests : ~ Asks(requests[i], Start)
    BY <1>1 DEF Peace, OneStart
  <2>2. QED BY <1>1, <1>6, <2>1 DEF OneStart, Asks
<1>9. Switch'
  BY <1>1, <1>3 DEF Switch, Ended
<1>10. Loading' /\ Calm'
  BY <1>1, <1>2 DEF Peace, Loading, Calm, Switching, Db, RamIsOf
<1>11. QED BY <1>6, <1>7, <1>8, <1>9, <1>10 DEF Peace

\* A leaked database is collected, or the wallet in RAM written.
LEMMA UpdatePeace ==
    ASSUME TypeOK, Tokens, Peace, collected \/ _updateWallet
    PROVE  Peace'
<1>1. /\ root' = root /\ idb' = idb /\ handle' = handle
      /\ manager' = manager /\ account' = account /\ ram' = ram /\ call' = call
      /\ requests' = requests /\ rootQueue' = rootQueue /\ connect' = connect
  BY DEF collected, _updateWallet, disk, shown
<1>2. \A d \in Databases : RamIsOf(d) => RamIsOf(d)'
  <2>1. CASE collected
    BY <1>1, <2>1 DEF collected, disk, RamIsOf
  <2>2. CASE _updateWallet
    <3>1. stored' = [stored EXCEPT ![idb] = @ \cup {ram}]
      BY <2>2 DEF _updateWallet
    <3>2. QED BY <1>1, <3>1, TypeFacts DEF RamIsOf
  <2>3. QED BY <2>1, <2>2
<1>3. Alone' /\ NamesFirst' /\ NamesShown' /\ OneStart'
  BY <1>1, SameNamesFirst DEF Peace, Alone, NamesShown, OneStart, Names, Active, Switching,
              Connecting, Asks, Db
<1>4. Switch'
  <2>1. ASSUME NEW c \in Calls, call[c].at = "accounts", ~ call[c].create
        PROVE  RamIsOf(call[c].wallet)'
    <3>1. PICK w \in Databases : w = call[c].wallet
      BY TypeFacts DEF CallRecords
    <3>2. RamIsOf(w)
      BY <2>1, <3>1 DEF Peace, Switch
    <3>3. RamIsOf(w)'
      BY <1>2, <3>2
    <3>4. QED BY <1>1, <3>1, <3>3 DEF RamIsOf
  <2>2. QED BY <1>1, <2>1 DEF Peace, Switch, Asks
<1>5. Loading' /\ Calm'
  <2>1. PICK d \in Databases : d = Db
    BY DbFacts
  <2>2. RamIsOf(d) => RamIsOf(d)'
    BY <1>2
  <2>3. Db' = d
    BY <1>1, <2>1 DEF Db
  <2>4. Loading'
    BY <1>1, <2>1, <2>2, <2>3 DEF Peace, Loading
  <2>5. Calm'
    BY <1>1, <2>1, <2>2, <2>3 DEF Peace, Calm, Switching
  <2>6. QED BY <2>4, <2>5
<1>6. QED BY <1>3, <1>4, <1>5 DEF Peace

\* A page that begins.
Fresh ==
    /\ rootQueue = <<AskOpen(Start)>> /\ requests = <<>>
    /\ idb = Unset /\ ram = None
    /\ connect = [ready |-> FALSE, from |-> Unset, init |-> FALSE]
    /\ \A c \in Calls : call[c].at \in {"idle", "done"}

\* It is at peace.
LEMMA StartPeace == Fresh => Peace
<1> SUFFICES ASSUME Fresh
             PROVE  Peace
  OBVIOUS
<1>1. /\ Len(rootQueue) = 1 /\ DOMAIN rootQueue = {1} /\ rootQueue[1].kind = "open"
      /\ DOMAIN requests = {}
  BY DEF Fresh, AskOpen
<1>2. ~ connect.ready /\ connect.from = Unset /\ ~ connect.init
  BY DEF Fresh
<1>3. \A c \in Calls : call[c].at \in Ended
  BY DEF Fresh, Ended
<1>4. idb = Unset /\ ram = None
  BY DEF Fresh
<1>5. Alone
  BY <1>3 DEF Alone, Active, Switching
<1>6. NamesFirst /\ NamesShown
  BY <1>1, <1>2 DEF NamesFirst, NamesShown
<1>7. OneStart
  BY <1>1, <1>2, <1>4 DEF OneStart
<1>8. Switch
  BY <1>3 DEF Switch, Ended
<1>9. Loading /\ Calm
  BY <1>2, <1>4 DEF Loading, Calm
<1>10. QED BY <1>5, <1>6, <1>7, <1>8, <1>9 DEF Peace

\* The page is loaded again: nothing of the session is left.
LEMMA ReloadPeace ==
    ASSUME reload
    PROVE  Peace'
<1>1. Fresh'
  BY DEF Fresh, reload, NoCall
<1>2. QED BY <1>1, StartPeace, PTL

\* The calls.
LEMMA OnSetWalletPeace ==
    ASSUME TypeOK, Tokens, Peace, NEW c \in Calls, NEW w \in Wallets, NEW to \in CallRecords,
           to.wallet = w, onSetWallet(c, w, to), manager.current # w,
           connect.ready, ~ Connecting, \A b \in Calls : b # c => call[b].at \in Ended,
           call[c].at \notin {"writing", "opening"},
           account' = w, connect' = connect, root' = root, requests' = requests
    PROVE  Peace'
<1>1. call' = [call EXCEPT ![c] = [to EXCEPT !.at = "writing"]]
  BY DEF onSetWallet
<1>2. /\ call'[c].at = "writing" /\ call'[c].wallet = w
      /\ \A b \in Calls : b # c => call'[b] = call[b]
  BY <1>1, TypeFacts DEF CallRecords
<1>3. \A i \in DOMAIN rootQueue : Names(i)
  BY NamesOnly DEF Connecting, Ended
<1>4. /\ NamesFirst' /\ NamesShown'
      /\ \A i \in DOMAIN rootQueue' : ~ Asks(rootQueue'[i], Start)
  <2>1. manager'.names = manager.names \cup {w}
    BY TypeFacts DEF onSetWallet
  <2>2. PICK y \in RootRequests : /\ y = PutCurrent(w, c) /\ y.kind = "current" /\ y.by = c
    BY OnSetWalletQueue DEF PutCurrent
  <2>3. CASE w \in manager.names
    <3>1. rootQueue' = Append(rootQueue, y) /\ manager'.names = manager.names
      <4>1. rootQueue' = Append(rootQueue, PutCurrent(w, c))
        BY <2>3, OnSetWalletQueue
      <4>2. manager'.names = manager.names
        BY <2>1, <2>3
      <4>3. QED BY <2>2, <4>1, <4>2
    <3>2. QED BY <1>2, <1>3, <2>2, <3>1, QueuedPeace DEF Peace
  <2>4. CASE w \notin manager.names
    <3>1. PICK x \in RootRequests : /\ x = PutNames(manager.names \cup {w}, {}, c)
                                    /\ x.kind = "names" /\ x.names = manager.names \cup {w}
      BY <2>4, OnSetWalletQueue DEF PutNames
    <3>2. rootQueue' = Append(Append(rootQueue, x), y)
      BY <2>2, <2>4, <3>1, OnSetWalletQueue
    <3>3. PICK n \in Nat : n = Len(rootQueue)
      BY TypeFacts
    <3>4. /\ DOMAIN rootQueue = 1..n /\ Len(rootQueue') = n+2 /\ DOMAIN rootQueue' = 1..n+2
          /\ \A j \in 1..n : rootQueue'[j] = rootQueue[j]
          /\ rootQueue'[n+1] = x /\ rootQueue'[n+2] = y
      BY <3>2, <3>3, GrownTwice
    <3>5. \A j \in 1..n+2 : \/ j \in 1..n /\ j < n+1 /\ j < n+2
                            \/ j = n+1 /\ j < n+2
                            \/ j = n+2 /\ ~ j < n+2 /\ n+1 < j
      OBVIOUS
    <3>6. /\ \A j \in 1..n : Names(j)' /\ rootQueue'[j].kind = "names"
          /\ Names(n+1)' /\ rootQueue'[n+1].kind = "names"
          /\ ~ Names(n+2)' /\ rootQueue'[n+2].kind = "current"
      BY <1>3, <2>2, <3>1, <3>4 DEF Names
    <3>7. NamesFirst'
      BY <1>2, <2>2, <3>4, <3>5, <3>6 DEF NamesFirst, Waits
    <3>8. \A i \in DOMAIN rootQueue' : ~ Asks(rootQueue'[i], Start)
      BY <3>4, <3>5, <3>6 DEF Asks
    <3>9. NamesShown'
      <4>1. n+1 \in 1..n+2
        OBVIOUS
      <4>2. ASSUME NEW i \in 1..n+2, Names(i)', \A j \in 1..n+2 : i < j => ~ Names(j)'
            PROVE  manager'.names = rootQueue'[i].names
        <5>1. i = n+1
          BY <3>5, <3>6, <4>1, <4>2
        <5>2. QED BY <2>1, <3>1, <3>4, <5>1
      <4>3. QED BY <3>4, <3>6, <4>1, <4>2 DEF NamesShown
    <3>10. QED BY <3>7, <3>8, <3>9
  <2>5. QED BY <2>3, <2>4
<1>5. Alone'
  <2>1. \A b \in Calls : Active(b)' => b = c
    BY <1>2 DEF Active
  <2>2. ~ Connecting'
    BY DEF Connecting
  <2>3. QED BY <2>1, <2>2 DEF Alone
<1>6. OneStart'
  <2>1. \A i \in DOMAIN requests : ~ Asks(requests[i], Start)
    BY DEF Peace, OneStart
  <2>2. QED BY <1>4, <2>1 DEF OneStart, Asks
<1>7. Switch'
  BY <1>2 DEF Switch, Ended
<1>8. Loading' /\ Calm'
  <2>1. Switching'
    BY <1>2 DEF Switching, Ended
  <2>2. QED BY <2>1 DEF Loading, Calm
<1>9. QED BY <1>4, <1>5, <1>6, <1>7, <1>8 DEF Peace

\* A call for a wallet begins.
LEMMA SetWalletPeace ==
    ASSUME TypeOK, Tokens, Peace, NEW c \in Calls, NEW w \in Wallets, NEW create \in BOOLEAN,
           setWallet(c, w, create), ~ disturbed'
    PROVE  Peace'
<1>1. PICK to \in CallRecords : to = [NoCall EXCEPT !.wallet = w, !.create = create]
                                /\ to.wallet = w
  <2>1. [NoCall EXCEPT !.wallet = w, !.create = create] \in CallRecords
    BY CallFacts DEF Databases
  <2>2. [NoCall EXCEPT !.wallet = w, !.create = create].wallet = w
    BY DEF NoCall
  <2>3. QED BY <2>1, <2>2
<1>2. /\ onSetWallet(c, w, to) /\ connect.ready /\ call[c].at = "idle" /\ account' = w
      /\ ~ Switching /\ ~ Connecting
      /\ root' = root /\ stored' = stored /\ idb' = idb /\ handle' = handle
      /\ ram' = ram /\ requests' = requests /\ connect' = connect
  BY <1>1 DEF setWallet, NextCall, disk
<1>3. \A b \in Calls : call[b].at \in Ended
  BY <1>2 DEF Switching
<1>4. CASE manager.current # w
  BY <1>1, <1>2, <1>3, <1>4, OnSetWalletPeace
<1>5. CASE manager.current = w
  <2>1. /\ call' = [call EXCEPT ![c] = [to EXCEPT !.at = "done"]]
        /\ manager' = manager /\ rootQueue' = rootQueue
    BY <1>2, <1>5 DEF onSetWallet
  <2>2. \A b \in Calls : call'[b].at \in Ended
    BY <1>3, <2>1, TypeFacts DEF CallRecords, Ended
  <2>3. Alone' /\ Switch'
    BY <2>2 DEF Alone, Switch, Active, Switching, Ended
  <2>4. NamesFirst' /\ NamesShown' /\ OneStart'
    <3>1. \A b \in Calls : call[b].at # "writing"
      BY <1>3 DEF Ended
    <3>2. QED BY <1>2, <2>1, <3>1, SameNamesFirst DEF Peace, NamesShown, OneStart, Names, Asks,
                                                      Db
  <2>5. Loading' /\ Calm'
    BY <1>2, <1>5, <2>1 DEF Peace, Loading, Calm, Db, RamIsOf
  <2>6. QED BY <2>3, <2>4, <2>5 DEF Peace
<1>6. QED BY <1>4, <1>5

\* A restore begins.
LEMMA RestorePeace ==
    ASSUME TypeOK, Tokens, Peace, NEW c \in Calls, NEW w \in Wallets, restore(c, w),
           ~ disturbed'
    PROVE  Peace'
<1>1. /\ connect.ready /\ ~ Switching /\ ~ Connecting
      /\ call' = [call EXCEPT ![c] = [NoCall EXCEPT !.wallet = w, !.at = "restoring"]]
      /\ requests' = Append(requests, [kind |-> "open", db |-> w, by |-> c])
      /\ root' = root /\ stored' = stored /\ idb' = idb /\ handle' = handle
      /\ manager' = manager /\ account' = account /\ ram' = ram /\ rootQueue' = rootQueue
      /\ connect' = connect
  BY DEF restore, NextCall, disk, shown
<1>2. /\ call'[c].at = "restoring" /\ \A b \in Calls : b # c => call'[b] = call[b]
  BY <1>1, TypeFacts DEF NoCall
<1>3. \A b \in Calls : call[b].at \in Ended
  BY <1>1 DEF Switching
<1>4. PICK x \in Requests : x = [kind |-> "open", db |-> w, by |-> c]
  BY RequestFacts DEF Databases
<1>5. /\ DOMAIN requests = 1..Len(requests) /\ DOMAIN requests' = 1..Len(requests)+1
      /\ Len(requests) \in Nat
      /\ \A j \in 1..Len(requests) : requests'[j] = requests[j]
      /\ requests'[Len(requests)+1] = x
  BY <1>1, <1>4, TypeFacts, AppendFacts
<1>6. Alone'
  <2>1. \A b \in Calls : Active(b)' => b = c
    BY <1>2, <1>3 DEF Active
  <2>2. ~ Connecting'
    BY <1>1 DEF Connecting
  <2>3. QED BY <2>1, <2>2 DEF Alone
<1>7. NamesFirst' /\ NamesShown'
  <2>1. \A b \in Calls : call[b].at # "writing"
    BY <1>3 DEF Ended
  <2>2. QED BY <1>1, <2>1, SameNamesFirst DEF Peace, NamesShown, Names
<1>8. OneStart'
  <2>1. /\ \A j \in DOMAIN requests : ~ Asks(requests[j], Start)
        /\ \A j \in DOMAIN rootQueue : ~ Asks(rootQueue[j], Start)
    BY <1>1 DEF Peace, OneStart
  <2>2. ~ Asks(x, Start)
    BY <1>4, CallNumbers DEF Asks
  <2>3. \A j \in DOMAIN requests' : ~ Asks(requests'[j], Start)
    BY <1>5, <2>1, <2>2
  <2>4. QED BY <1>1, <2>1, <2>3 DEF OneStart, Asks
<1>9. Switch'
  BY <1>2, <1>3 DEF Switch, Ended
<1>10. Loading' /\ Calm'
  <2>1. Switching'
    BY <1>2 DEF Switching, Ended
  <2>2. QED BY <1>1, <2>1 DEF Loading, Calm
<1>11. QED BY <1>6, <1>7, <1>8, <1>9, <1>10 DEF Peace

\* A restore has put its wallet.
LEMMA RestoredPeace ==
    ASSUME TypeOK, Tokens, Peace, NEW c \in Calls, restored(c), ~ disturbed'
    PROVE  Peace'
<1>1. call[c].at = "putting" /\ Active(c)
  BY DEF restored, Active, Ended
<1>2. PICK w \in Wallets : w = call[c].wallet /\ connect.ready
  BY <1>1 DEF Tokens, Running
<1>3. PICK to \in CallRecords : to = call[c]
  BY TypeFacts
<1>4. /\ onSetWallet(c, w, to) /\ to.wallet = w /\ manager.current # w
      /\ account' = w /\ connect' = connect /\ root' = root /\ requests' = requests
  BY <1>2, <1>3 DEF restored
<1>5. ~ Connecting /\ \A b \in Calls : b # c => call[b].at \in Ended
  BY <1>1, OneActive
<1>6. QED BY <1>1, <1>2, <1>4, <1>5, OnSetWalletPeace

\* A call goes on, and nothing is asked of IndexedDB.
LEMMA PhasePeace ==
    ASSUME TypeOK, Tokens, Peace, NEW c \in Calls, Active(c), call[c].at # "writing",
           NEW at \in {"accounts", "creating", "done"}, call' = [call EXCEPT ![c].at = at],
           connect' = connect, root' = root, rootQueue' = rootQueue, requests' = requests,
           manager'.names = manager.names, idb' = idb, handle' = handle
    PROVE  /\ call'[c] = [call[c] EXCEPT !.at = at] /\ call'[c].at = at
           /\ call'[c].wallet = call[c].wallet /\ call'[c].create = call[c].create
           /\ \A b \in Calls : b # c => call'[b] = call[b] /\ call[b].at \in Ended
           /\ connect.ready /\ call[c].wallet \in Wallets /\ connect.from = Unset
           /\ Alone' /\ NamesFirst' /\ NamesShown' /\ OneStart' /\ Loading'
           /\ at # "done" => Calm'
<1>1. /\ call'[c] = [call[c] EXCEPT !.at = at] /\ call'[c].at = at
      /\ call'[c].wallet = call[c].wallet /\ call'[c].create = call[c].create
      /\ \A b \in Calls : b # c => call'[b] = call[b]
  BY TypeFacts DEF CallRecords
<1>2. ~ Connecting /\ \A b \in Calls : b # c => call[b].at \in Ended
  BY OneActive
<1>3. connect.ready /\ call[c].wallet \in Wallets /\ connect.from = Unset
  BY <1>2 DEF Tokens, Running, Connecting
<1>4. Alone'
  <2>1. \A b \in Calls : Active(b)' => b = c
    BY <1>1, <1>2 DEF Active
  <2>2. ~ Connecting'
    BY <1>2 DEF Connecting
  <2>3. QED BY <2>1, <2>2 DEF Alone
<1>5. NamesFirst' /\ NamesShown' /\ OneStart'
  BY <1>1, SameNamesFirst DEF Peace, NamesShown, OneStart, Names, Asks, Db
<1>6. Loading' /\ (at # "done" => Calm')
  <2>1. at # "done" => Switching'
    BY <1>1 DEF Switching, Ended
  <2>2. QED BY <1>3, <2>1 DEF Loading, Calm
<1>7. QED BY <1>1, <1>2, <1>3, <1>4, <1>5, <1>6

\* The steps of a call that has its database open.
LEMMA LoadedPeace ==
    ASSUME TypeOK, Tokens, Peace, NEW c \in Calls, loaded(c) \/ accountsLoaded(c) \/ created(c),
           ~ disturbed'
    PROVE  Peace'
<1>1. /\ connect' = connect /\ root' = root /\ rootQueue' = rootQueue
      /\ requests' = requests /\ idb' = idb /\ handle' = handle /\ account' = account
  BY DEF loaded, accountsLoaded, created, disk
<1>2. manager'.names = manager.names
  BY TypeFacts DEF loaded, accountsLoaded, created
<1>3. call[c].at \in {"loading", "accounts", "creating"} /\ Active(c)
  BY DEF loaded, accountsLoaded, created, Active, Ended
<1>4. PICK w \in Wallets : w = call[c].wallet
  BY <1>3 DEF Tokens, Running
<1>5. /\ account = w /\ root.current = w /\ idb = w /\ handle = w
      /\ call[c].at = "loading" => call[c].from = w
      /\ call[c].at = "accounts" /\ ~ call[c].create => RamIsOf(w)
  BY <1>3, <1>4 DEF Peace, Switch
<1>6. /\ Db = w /\ w # Unset /\ w \in Databases /\ PropertyOr(root.current, None) = w
      /\ Db' = w
  BY <1>1, <1>4, <1>5, DbFacts DEF Db, Databases
<1>7. CASE loaded(c)
  <2>1. /\ call' = [call EXCEPT ![c].at = "accounts"] /\ ram' \in LoadedFrom(w)
        /\ stored' = stored /\ (call[c].create \/ stored[w] # {} \/ ram = None)
    BY <1>5, <1>6, <1>7 DEF loaded, disk
  <2>2. /\ call'[c].at = "accounts" /\ call'[c].wallet = w /\ call'[c].create = call[c].create
        /\ \A b \in Calls : b # c => call'[b] = call[b] /\ call[b].at \in Ended
        /\ Alone' /\ NamesFirst' /\ NamesShown' /\ OneStart' /\ Loading' /\ Calm'
    BY <1>1, <1>2, <1>3, <1>4, <2>1, PhasePeace
  <2>3. ~ call[c].create => RamIsOf(w)'
    <3>1. ~ call[c].create => ram' \in (IF stored[w] = {} THEN {None} ELSE stored[w])
      BY <2>1 DEF LoadedFrom
    <3>2. QED BY <2>1, <3>1 DEF RamIsOf
  <2>4. Switch'
    BY <1>1, <1>5, <2>2, <2>3 DEF Switch, Ended, RamIsOf
  <2>5. QED BY <2>2, <2>4 DEF Peace
<1>8. CASE accountsLoaded(c) /\ call[c].create
  <2>1. call' = [call EXCEPT ![c].at = "creating"]
    BY <1>8 DEF accountsLoaded
  <2>2. /\ call'[c].at = "creating" /\ call'[c].wallet = w
        /\ \A b \in Calls : b # c => call'[b] = call[b] /\ call[b].at \in Ended
        /\ Alone' /\ NamesFirst' /\ NamesShown' /\ OneStart' /\ Loading' /\ Calm'
    BY <1>1, <1>2, <1>3, <1>4, <2>1, PhasePeace
  <2>3. Switch'
    BY <1>1, <1>5, <2>2 DEF Switch, Ended
  <2>4. QED BY <2>2, <2>3 DEF Peace
<1>9. CASE (accountsLoaded(c) /\ ~ call[c].create) \/ created(c)
  <2>1. call' = [call EXCEPT ![c].at = "done"] /\ manager' = [manager EXCEPT !.current = w]
    BY <1>4, <1>9 DEF accountsLoaded, created
  <2>2. /\ call'[c].at = "done" /\ connect.from = Unset
        /\ \A b \in Calls : b # c => call'[b] = call[b] /\ call[b].at \in Ended
        /\ Alone' /\ NamesFirst' /\ NamesShown' /\ OneStart' /\ Loading'
    BY <1>1, <1>2, <1>3, <2>1, PhasePeace
  <2>3. Switch'
    BY <2>2 DEF Switch, Ended
  <2>4. manager'.current = w
    BY <2>1, TypeFacts
  <2>5. RamIsOf(w)'
    <3>1. CASE accountsLoaded(c) /\ ~ call[c].create
      BY <1>5, <3>1 DEF accountsLoaded, disk, RamIsOf
    <3>2. CASE created(c)
      <4>1. ram' = w /\ stored' = [stored EXCEPT ![w] = @ \cup {w}]
        BY <1>4, <1>5, <3>2 DEF created
      <4>2. w \in stored'[w]
        BY <1>6, <4>1, TypeFacts
      <4>3. QED BY <4>1, <4>2 DEF RamIsOf
    <3>3. QED BY <1>9, <3>1, <3>2
  <2>6. Calm'
    BY <1>1, <1>5, <1>6, <2>2, <2>4, <2>5 DEF Calm, RamIsOf
  <2>7. QED BY <2>2, <2>3, <2>6 DEF Peace
<1>10. QED BY <1>7, <1>8, <1>9

\* A wallet is taken from the list, and its database is to be deleted.
LEMMA DeletePeace ==
    ASSUME TypeOK, Tokens, Peace, NEW w \in Wallets, onDeleteWallet(w), ~ disturbed'
    PROVE  Peace'
<1>1. /\ connect.ready /\ ~ Switching /\ ~ Connecting /\ manager.current # w
      /\ requests' = Append(requests, [kind |-> "delete", db |-> w])
      /\ root' = root /\ stored' = stored /\ idb' = idb /\ handle' = handle
      /\ account' = account /\ ram' = ram /\ call' = call /\ connect' = connect
  BY DEF onDeleteWallet, disk
<1>2. PICK x \in RootRequests :
          /\ x.kind = "names" /\ x.names = manager.names \ {w}
          /\ manager'.names = manager.names \ {w} /\ manager'.current = manager.current
          /\ rootQueue' = Append(rootQueue, x)
  BY <1>1, DeleteQueue
<1>3. \A c \in Calls : call[c].at \in Ended
  BY <1>1 DEF Switching
<1>4. \A i \in DOMAIN rootQueue : Names(i)
  BY <1>1, <1>3, NamesOnly DEF Connecting, Ended
<1>5. /\ NamesFirst' /\ NamesShown'
      /\ \A i \in DOMAIN rootQueue' : ~ Asks(rootQueue'[i], Start)
  BY <1>1, <1>2, <1>4, QueuedPeace DEF Peace
<1>6. OneStart'
  <2>1. \A i \in DOMAIN requests : ~ Asks(requests[i], Start)
    BY <1>1 DEF Peace, OneStart
  <2>2. PICK r \in Requests : r = [kind |-> "delete", db |-> w] /\ ~ Asks(r, Start)
    BY RequestFacts DEF Asks
  <2>3. \A i \in DOMAIN requests' : ~ Asks(requests'[i], Start)
    <3>1. /\ DOMAIN requests = 1..Len(requests) /\ DOMAIN requests' = 1..Len(requests)+1
          /\ Len(requests) \in Nat
          /\ \A j \in 1..Len(requests) : requests'[j] = requests[j]
          /\ requests'[Len(requests)+1] = r
      BY <1>1, <2>2, TypeFacts, AppendFacts
    <3>2. QED BY <2>1, <2>2, <3>1
  <2>4. QED BY <1>5, <2>3 DEF OneStart, Asks
<1>7. Alone' /\ Switch'
  BY <1>1, <1>3 DEF Alone, Switch, Active, Switching, Ended
<1>8. Loading' /\ Calm'
  BY <1>1, <1>2 DEF Peace, Loading, Calm, Switching, Db, RamIsOf
<1>9. QED BY <1>5, <1>6, <1>7, <1>8 DEF Peace

-----------------------------------------------------------------------------
(* The invariant.                                                          *)

\* Every step keeps the types.
LEMMA StepTypes ==
    ASSUME TypeOK, Tokens, Next
    PROVE  TypeOK'
<1>1. CASE rootAnswers
  BY <1>1, RootAnswersTypes
<1>2. ASSUME NEW i \in DOMAIN requests, opened(i) \/ openFailed(i) \/ deleted(i)
      PROVE  TypeOK'
  BY <1>2, RequestTypes
<1>3. CASE collected \/ walletLoaded \/ Connect \/ _updateWallet \/ reload
  BY <1>3, PageTypes
<1>4. ASSUME NEW c \in Calls,
             \/ \E w \in Wallets : (\E create \in BOOLEAN : setWallet(c, w, create))
                                   \/ restore(c, w)
             \/ restored(c) \/ restoreFailed(c) \/ loaded(c) \/ accountsLoaded(c)
             \/ accountsFailed(c) \/ created(c) \/ notCreated(c)
      PROVE  TypeOK'
  <2>1. restored(c) \/ created(c) => call[c].wallet \in Wallets
    BY DEF Tokens, Running, Active, Ended, restored, created
  <2>2. QED BY <1>4, <2>1, CallTypes
<1>5. ASSUME NEW w \in Wallets, onDeleteWallet(w)
      PROVE  TypeOK'
  BY <1>5, DeleteTypes
<1>6. QED BY <1>1, <1>2, <1>3, <1>4, <1>5 DEF Next

\* Every step keeps the tokens and the wallets.
LEMMA StepKept ==
    ASSUME TypeOK, Tokens, Kept, Next
    PROVE  Tokens' /\ Kept'
<1>1. CASE rootAnswers
  BY <1>1, RootAnswersTokens, RootAnswersKept
<1>2. ASSUME NEW i \in DOMAIN requests, opened(i) \/ openFailed(i) \/ deleted(i)
      PROVE  Tokens' /\ Kept'
  BY <1>2, RequestTokens, RequestKept
<1>3. CASE collected \/ walletLoaded \/ Connect \/ _updateWallet \/ reload
  BY <1>3, PageTokens, PageKept
<1>4. ASSUME NEW c \in Calls,
             \/ \E w \in Wallets : (\E create \in BOOLEAN : setWallet(c, w, create))
                                   \/ restore(c, w)
             \/ restored(c) \/ restoreFailed(c) \/ loaded(c) \/ accountsLoaded(c)
             \/ accountsFailed(c) \/ created(c) \/ notCreated(c)
      PROVE  Tokens' /\ Kept'
  BY <1>4, CallTokens, CallKept
<1>5. ASSUME NEW w \in Wallets, onDeleteWallet(w)
      PROVE  Tokens' /\ Kept'
  BY <1>5, DeleteTokens, DeleteKept
<1>6. QED BY <1>1, <1>2, <1>3, <1>4, <1>5 DEF Next

\* Every step that leaves the page undisturbed keeps its peace.
LEMMA StepUndisturbed ==
    ASSUME TypeOK, Tokens, Undisturbed, Next
    PROVE  Undisturbed'
<1>1. SUFFICES ASSUME ~ disturbed'
               PROVE  Peace'
  BY DEF Undisturbed
<1>2. CASE rootAnswers
  <2>1. ~ disturbed /\ rootQueue # <<>>
    BY <1>1, <1>2 DEF rootAnswers, namesPut, namesNotPut, currentPut, currentNotPut,
                      openDatabase, readFailed, init, initDone, history
  <2>2. namesPut \/ currentPut \/ openDatabase \/ init \/ initDone
    BY <1>1, <1>2 DEF rootAnswers, namesNotPut, currentNotPut, readFailed
  <2>3. QED BY <2>1, <2>2, NamesPutPeace, CurrentPutPeace, OpenDatabasePeace, InitPeace
            DEF Undisturbed
<1>3. ASSUME NEW i \in DOMAIN requests, opened(i) \/ openFailed(i) \/ deleted(i)
      PROVE  Peace'
  <2>1. ~ disturbed /\ ~ openFailed(i)
    BY <1>1, <1>3 DEF opened, openFailed, deleted, history
  <2>2. QED BY <1>3, <2>1, StartOpenedPeace, CallOpenedPeace, DeletedPeace DEF Undisturbed
<1>4. CASE collected \/ walletLoaded \/ Connect \/ _updateWallet
  <2>1. ~ disturbed
    BY <1>1, <1>4 DEF collected, walletLoaded, Connect, _updateWallet, history
  <2>2. QED BY <1>1, <1>4, <2>1, UpdatePeace, WalletLoadedPeace, ConnectPeace DEF Undisturbed
<1>5. CASE reload
  BY <1>5, ReloadPeace
<1>6. ASSUME NEW c \in Calls, NEW w \in Wallets, NEW create \in BOOLEAN,
             setWallet(c, w, create)
      PROVE  Peace'
  <2>1. ~ disturbed
    BY <1>1, <1>6 DEF setWallet
  <2>2. QED BY <1>1, <1>6, <2>1, SetWalletPeace DEF Undisturbed
<1>7. ASSUME NEW c \in Calls, NEW w \in Wallets, restore(c, w)
      PROVE  Peace'
  <2>1. ~ disturbed
    BY <1>1, <1>7 DEF restore
  <2>2. QED BY <1>1, <1>7, <2>1, RestorePeace DEF Undisturbed
<1>8. ASSUME NEW c \in Calls,
             \/ restored(c) \/ restoreFailed(c) \/ loaded(c) \/ accountsLoaded(c)
             \/ accountsFailed(c) \/ created(c) \/ notCreated(c)
      PROVE  Peace'
  <2>1. ~ disturbed /\ (restored(c) \/ loaded(c) \/ accountsLoaded(c) \/ created(c))
    <3>1. ~ restoreFailed(c) /\ ~ accountsFailed(c) /\ ~ notCreated(c)
      BY <1>1 DEF restoreFailed, accountsFailed, notCreated
    <3>2. restored(c) \/ loaded(c) => ~ disturbed
      BY <1>1 DEF restored, loaded
    <3>3. accountsLoaded(c) \/ created(c) => ~ disturbed
      BY <1>1 DEF accountsLoaded, created, history
    <3>4. QED BY <1>8, <3>1, <3>2, <3>3
  <2>2. QED BY <1>1, <2>1, RestoredPeace, LoadedPeace DEF Undisturbed
<1>9. ASSUME NEW w \in Wallets, onDeleteWallet(w)
      PROVE  Peace'
  <2>1. ~ disturbed
    BY <1>1, <1>9 DEF onDeleteWallet
  <2>2. QED BY <1>1, <1>9, <2>1, DeletePeace DEF Undisturbed
<1>10. QED BY <1>2, <1>3, <1>4, <1>5, <1>6, <1>7, <1>8, <1>9 DEF Next

\* The first page begins at peace, with nothing on disk.
LEMMA InitInvariant == Init => IInv
<1> SUFFICES ASSUME Init
             PROVE  IInv
  OBVIOUS
<1>1. TypeOK
  <2>1. rootQueue \in Seq(RootRequests)
    <3>1. AskOpen(Start) \in RootRequests
      BY RootRequestsMade
    <3>2. QED BY <3>1 DEF Init
  <2>2. call \in [Calls -> CallRecords]
    BY CallFacts DEF Init
  <2>3. idb \in Databases \cup {Unset}
    BY DEF Init
  <2>4. /\ events \in 0..MaxEvents
        /\ reloads \in 0..MaxReloads
    BY WalletManagerAssumption DEF Init
  <2>5. /\ root \in [names : SUBSET Wallets, current : Databases \cup {Unset}]
        /\ manager \in [names : SUBSET Wallets, current : Databases]
        /\ stored \in [Databases -> SUBSET Wallets]
    BY DEF Init, Databases
  <2>6. connect \in [ready : BOOLEAN, from : Databases \cup {Unset}, init : BOOLEAN]
    BY DEF Init
  <2>7. requests \in Seq(Requests) /\ leaked \subseteq Databases /\ unlisted \subseteq Wallets
    BY DEF Init
  <2>8. /\ handle \in Databases \cup {Unset} /\ account \in Databases /\ ram \in Databases
        /\ overwritten \subseteq Wallets /\ disturbed \in BOOLEAN
    BY DEF Init, Databases
  <2>9. QED BY <2>1, <2>2, <2>3, <2>4, <2>5, <2>6, <2>7, <2>8 DEF TypeOK, Requests, CallRecords
<1>2. /\ DOMAIN rootQueue = {1} /\ Len(rootQueue) = 1 /\ rootQueue[1].kind = "open"
      /\ rootQueue[1].by = Start /\ DOMAIN requests = {}
  BY DEF Init, AskOpen
<1>3. \A c \in Calls : call[c].at = "idle"
  BY DEF Init, NoCall
<1>4. Tokens
  BY <1>2, <1>3, CallNumbers
     DEF Init, Tokens, OneOpen, OneQueued, OneWrite, Running, Starting, Asks, Writes, Active,
         Ended
<1>5. Kept
  <2>1. root.names = {} /\ root.current = Unset /\ manager.names = {} /\ ram = None
        /\ \A d \in Databases : stored[d] = {}
    BY DEF Init
  <2>2. Unset \notin Wallets
    BY WalletManagerAssumption
  <2>3. HeldCovered
    BY <1>3, <2>1, <2>2 DEF HeldCovered
  <2>4. ListsKept /\ ShownKept /\ QueuedCovered
    BY <1>2, <2>1 DEF ListsKept, ShownKept, QueuedCovered, Names
  <2>5. QED BY <2>3, <2>4 DEF Kept
<1>6. Undisturbed
  <2>1. Fresh
    BY <1>3 DEF Init, Fresh
  <2>2. QED BY <2>1, StartPeace DEF Undisturbed
<1>7. QED BY <1>1, <1>4, <1>5, <1>6 DEF IInv

\* A step of another program changes nothing.
LEMMA StutterInvariant ==
    ASSUME IInv, UNCHANGED walletManagerVars
    PROVE  IInv'
<1>1. /\ root' = root /\ rootQueue' = rootQueue /\ stored' = stored /\ requests' = requests
      /\ idb' = idb /\ leaked' = leaked /\ handle' = handle /\ manager' = manager
      /\ account' = account /\ ram' = ram /\ call' = call /\ connect' = connect
      /\ events' = events /\ reloads' = reloads
      /\ unlisted' = unlisted /\ overwritten' = overwritten /\ disturbed' = disturbed
  BY DEF walletManagerVars
<1>2. TypeOK'
  BY <1>1 DEF IInv, TypeOK
<1>3. Tokens'
  BY <1>1, SameTokens DEF IInv, tokenVars
<1>4. Kept'
  BY <1>1 DEF IInv, Kept, HeldCovered, ListsKept, ShownKept, QueuedCovered, Covered,
                   Excepted, Lost, Names
<1>5. Undisturbed'
  BY <1>1 DEF IInv, Undisturbed, Peace, Alone, NamesFirst, NamesShown, OneStart, Switch, Loading,
              Calm, Names, Asks, Active, Switching, Connecting, Db, RamIsOf, Waits
<1>6. QED BY <1>2, <1>3, <1>4, <1>5 DEF IInv

\* The invariant holds whatever the page, IndexedDB and the node do, for every number
\* of wallets, calls, deletions, connections and page loads.
THEOREM WalletManagerInvariant == Spec => []IInv
<1>1. IInv /\ [Next]_walletManagerVars => IInv'
  <2>1. ASSUME IInv, Next
        PROVE  IInv'
    BY <2>1, StepTypes, StepKept, StepUndisturbed DEF IInv
  <2>2. QED BY <2>1, StutterInvariant
<1>2. QED BY InitInvariant, <1>1, PTL DEF Spec

\* The manager's state, the databases and the requests under way keep their types
\* (WalletManagerStore.js, idb-instance.js, idb-root.js).
THEOREM WalletManagerTypes == Spec => []TypeOK
<1>1. IInv => TypeOK
  BY DEF IInv
<1>2. QED BY <1>1, WalletManagerInvariant, PTL

\* A wallet that is stored, or that is opened next time, can be found in the list on
\* disk, wherever the page ends (WalletManagerStore.js:101-135).
THEOREM WalletsListed == Spec => []Listed
<1>1. IInv => Listed
  BY DEF IInv, TypeOK, Kept, HeldCovered, Covered, Excepted, Listed, Databases
<1>2. QED BY <1>1, WalletManagerInvariant, PTL

\* After steps that were alone and did not fail, the open databases, the shown wallet,
\* the accounts, RAM and the disk are of one wallet (WalletManagerStore.js:44-175).
THEOREM WalletsAgree == Spec => []Agree
<1>1. IInv => Agree
  <2>1. SUFFICES ASSUME IInv, Quiet, ~ disturbed
                 PROVE  /\ idb = Db /\ handle = idb
                        /\ manager = [names |-> root.names,
                                      current |-> PropertyOr(root.current, None)]
                        /\ account = manager.current /\ RamIsOf(handle)
    BY DEF Agree, Db, RamIsOf
  <2>2. connect.ready /\ ~ Switching /\ DOMAIN rootQueue = {}
    BY <2>1 DEF Quiet
  <2>3. manager.names = root.names
    BY <2>1, <2>2 DEF IInv, Undisturbed, Peace, NamesShown
  <2>4. /\ idb = Db /\ handle = Db /\ RamIsOf(Db)
        /\ manager.current = PropertyOr(root.current, None) /\ account = manager.current
    BY <2>1, <2>2 DEF IInv, Undisturbed, Peace, Calm
  <2>5. manager \in [names : SUBSET Wallets, current : Databases]
    BY <2>1, TypeFacts DEF IInv
  <2>6. QED BY <2>3, <2>4, <2>5
<1>2. QED BY <1>1, WalletManagerInvariant, PTL
=============================================================================
