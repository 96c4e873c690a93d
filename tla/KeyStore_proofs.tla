---------------------------- MODULE KeyStore_proofs ----------------------------
(***************************************************************************)
(* Theorems about KeyStore: what it shows, counts, indexes and reports as  *)
(* imported is right, for any keys, imports and bounds.                    *)
(***************************************************************************)
EXTENDS KeyStore, SequenceTheorems, FiniteSetTheorems, FunctionTheorems, TLAPS

-----------------------------------------------------------------------------
(* The inductive invariant.                                                *)

\* One of the transactions up to last puts k, encrypted.
Queued(k, last) ==
    \E n \in 1..last : \E p \in queue[n].puts : p.pubkey = k /\ p.encrypted

\* k is on the disk, or will be when the transactions up to last have ended.
Safe(k, last) == Stored(k) \/ k \in harmed \/ Queued(k, last)

\* An import has one transaction, which it waits for.  One that puts a key without
\* an id comes behind the record of that key.
QueueInv ==
    \A n \in 1..Len(queue) :
        LET tx == queue[n]
        IN  /\ IsFiniteSet(tx.puts)
            /\ tx.kind = "load" => tx.puts = {} /\ tx.by = NoImport
            /\ tx.by # NoImport => /\ import[tx.by].stage = "storing"
                                   /\ ~ import[tx.by].stored
                                   /\ \A m \in 1..Len(queue) : queue[m].by = tx.by => m = n
            /\ tx.kind = "update" => \A p \in tx.puts :
                   p.id = 0 => p.pubkey \in LoginKeys \/ Safe(p.pubkey, n - 1)

\* Only keys of a cloud login are ever in plain text; every record has an id.
LoginInv ==
    /\ \A k \in Keys : hasKey(k) /\ ~ keys[k].encrypted => k \in LoginKeys
    /\ \A r \in disk : r.id # 0 /\ (~ r.encrypted => r.pubkey \in LoginKeys)
    /\ \A n \in 1..Len(queue) : \A p \in queue[n].puts : ~ p.encrypted => p.pubkey \in LoginKeys

ShownInv == \A k \in Keys : hasKey(k) /\ keys[k].encrypted => Safe(k, Len(queue))

\* A key that RAM has from the disk is in the index; one that it has from an
\* import may wait for the address worker.
IndexInv ==
    /\ map # "read" => indexed = {}
    /\ \A k \in Keys : hasKey(k) /\ keys[k].encrypted =>
          \/ IndexedIfRead(k)
          \/ keys[k].id = 0 /\ \E i \in Imports : ~ import[i].indexed /\ k \in import[i].keys

\* The transaction of i puts k for the first time, or so it believes.
Unsure(i, k) ==
    \E m \in 1..Len(queue) :
        /\ queue[m].by = i /\ queue[m].kind = "update"
        /\ \E p \in queue[m].puts : p.pubkey = k /\ p.id = 0

\* How far the keys of an import have come at each of its stages.
JobInv(i) ==
    LET job == import[i]
    IN  /\ job.stage = "encrypting" => ~ job.stored
        /\ job.stage = "success" => job.stored /\ job.indexed
        /\ job.stage = "encrypting" /\ job.indexed => \A k \in job.keys : IndexedIfRead(k)
        /\ job.stage \in {"storing", "success"} =>
              \A k \in job.keys \ LoginKeys :
                  IF job.stored THEN Stored(k) \/ k \in harmed
                  ELSE \E m \in 1..Len(queue) : queue[m].by = i /\ Safe(k, m)
        /\ job.stage \in {"storing", "success"} /\ job.indexed =>
              \A k \in job.keys \ LoginKeys :
                  \/ k \in harmed \/ IndexedIfRead(k)
                  \/ ~ job.stored /\ Unsure(i, k)

ImportInv == \A i \in Imports : JobInv(i)

KeyStoreInv ==
    /\ TypeOK /\ CountIsOutstanding
    /\ QueueInv /\ LoginInv /\ ShownInv /\ IndexInv /\ ImportInv

-----------------------------------------------------------------------------
(* The queue.                                                              *)

\* A transaction is created.
LEMMA Push ==
    ASSUME queue \in Seq(Transaction), NEW tx \in Transaction, queue' = Append(queue, tx)
    PROVE  /\ queue' \in Seq(Transaction)
           /\ Len(queue) \in Nat /\ Len(queue') = Len(queue) + 1
           /\ \A n \in 1..Len(queue) : queue'[n] = queue[n]
           /\ queue'[Len(queue) + 1] = tx
BY AppendProperties, LenProperties

\* A transaction ends.
LEMMA Pop ==
    ASSUME queue \in Seq(Transaction), queue # <<>>, queue' = Tail(queue)
    PROVE  /\ queue' \in Seq(Transaction)
           /\ Len(queue) \in Nat \ {0} /\ Len(queue') = Len(queue) - 1
           /\ Head(queue) = queue[1] /\ queue[1] \in Transaction
           /\ \A n \in 1..Len(queue') : queue'[n] = queue[n + 1]
           /\ \A n \in 2..Len(queue) : queue'[n - 1] = queue[n]
<1>1. Len(queue) \in Nat \ {0}
  BY EmptySeq
<1>2. /\ Head(queue) \in Transaction /\ Tail(queue) \in Seq(Transaction)
      /\ Len(Tail(queue)) = Len(queue) - 1
      /\ \A n \in 1..Len(Tail(queue)) : Tail(queue)[n] = queue[n + 1]
  BY HeadTailProperties
<1>3. Head(queue) = queue[1]
  BY <1>1
<1>4. \A n \in 2..Len(queue) : queue'[n - 1] = queue[n]
  <2> TAKE n \in 2..Len(queue)
  <2>1. n - 1 \in 1..Len(Tail(queue)) /\ (n - 1) + 1 = n
    BY <1>1, <1>2
  <2> QED BY <2>1, <1>2
<1> QED BY <1>1, <1>2, <1>3, <1>4

\* The positions of the additions and loads.
CountedIn(q) == {n \in 1..Len(q) : q[n].kind \in {"load", "add"}}

\* They are finitely many.
LEMMA CountedFinite ==
    ASSUME NEW q \in Seq(Transaction)
    PROVE  /\ IsFiniteSet(CountedIn(q)) /\ Cardinality(CountedIn(q)) \in Nat
           /\ CountedIn(q) \subseteq 1..Len(q)
<1>1. Len(q) \in Nat
  BY LenProperties
<1>2. IsFiniteSet(1..Len(q)) /\ CountedIn(q) \subseteq 1..Len(q)
  BY <1>1, FS_Interval DEF CountedIn
<1> QED BY <1>2, FS_Subset, FS_CardinalityType

\* One more is counted if it is an addition or a load.
LEMMA CountPush ==
    ASSUME queue \in Seq(Transaction), NEW tx \in Transaction, queue' = Append(queue, tx)
    PROVE  Cardinality(CountedIn(queue')) =
               Cardinality(CountedIn(queue)) + (IF tx.kind \in {"load", "add"} THEN 1 ELSE 0)
<1>0. /\ queue' \in Seq(Transaction)
      /\ Len(queue) \in Nat /\ Len(queue') = Len(queue) + 1
      /\ \A n \in 1..Len(queue) : queue'[n] = queue[n]
      /\ queue'[Len(queue) + 1] = tx
  BY Push
<1>1. IsFiniteSet(CountedIn(queue)) /\ Cardinality(CountedIn(queue)) \in Nat
      /\ Len(queue) + 1 \notin CountedIn(queue)
  BY <1>0, CountedFinite
<1>2. CASE tx.kind \in {"load", "add"}
  <2>1. CountedIn(queue') = CountedIn(queue) \cup {Len(queue) + 1}
    BY <1>0, <1>2 DEF CountedIn
  <2> QED BY <2>1, <1>1, <1>2, FS_AddElement
<1>3. CASE tx.kind \notin {"load", "add"}
  <2>1. CountedIn(queue') = CountedIn(queue)
    BY <1>0, <1>3 DEF CountedIn
  <2> QED BY <2>1, <1>1, <1>3
<1> QED BY <1>2, <1>3

\* One less is counted if the first was an addition or a load.
LEMMA CountPop ==
    ASSUME queue \in Seq(Transaction), queue # <<>>, queue' = Tail(queue)
    PROVE  Cardinality(CountedIn(queue')) =
               Cardinality(CountedIn(queue))
                   - (IF queue[1].kind \in {"load", "add"} THEN 1 ELSE 0)
<1>0. /\ queue' \in Seq(Transaction)
      /\ Len(queue) \in Nat \ {0} /\ Len(queue') = Len(queue) - 1
      /\ \A n \in 1..Len(queue') : queue'[n] = queue[n + 1]
      /\ \A n \in 2..Len(queue) : queue'[n - 1] = queue[n]
  BY Pop
<1>1. IsFiniteSet(CountedIn(queue)) /\ Cardinality(CountedIn(queue)) \in Nat
  BY CountedFinite
<1> DEFINE rest == CountedIn(queue) \ {1}
           f    == [n \in rest |-> n - 1]
<1>2. IsFiniteSet(rest)
      /\ Cardinality(rest) = Cardinality(CountedIn(queue))
             - (IF queue[1].kind \in {"load", "add"} THEN 1 ELSE 0)
  <2>1. 1 \in CountedIn(queue) <=> queue[1].kind \in {"load", "add"}
    BY <1>0 DEF CountedIn
  <2> QED BY <2>1, <1>1, FS_RemoveElement
<1>3. rest = {n \in 2..Len(queue) : queue[n].kind \in {"load", "add"}}
  BY <1>0 DEF CountedIn
<1>4. f \in Bijection(rest, CountedIn(queue'))
  <2>1. f \in [rest -> CountedIn(queue')]
    <3> SUFFICES ASSUME NEW n \in rest PROVE n - 1 \in CountedIn(queue')
      OBVIOUS
    <3>1. n \in 2..Len(queue) /\ queue[n].kind \in {"load", "add"}
      BY <1>3
    <3> QED BY <3>1, <1>0 DEF CountedIn
  <2>2. \A m, n \in rest : f[m] = f[n] => m = n
    BY <1>3
  <2>3. \A m \in CountedIn(queue') : \E n \in rest : f[n] = m
    <3> SUFFICES ASSUME NEW m \in CountedIn(queue') PROVE \E n \in rest : f[n] = m
      OBVIOUS
    <3>1. m \in 1..Len(queue') /\ queue'[m].kind \in {"load", "add"}
      BY DEF CountedIn
    <3>2. m + 1 \in rest /\ (m + 1) - 1 = m
      BY <3>1, <1>0, <1>3
    <3> QED BY <3>2
  <2> QED BY <2>1, <2>2, <2>3, Fun_IsBij
<1>5. Cardinality(CountedIn(queue')) = Cardinality(rest)
  BY <1>2, <1>4, FS_Bijection DEF ExistsBijection
<1> QED BY <1>2, <1>5

\* A transaction that is neither is not counted.
LEMMA CountOther ==
    ASSUME TypeOK, CountIsOutstanding, NEW tx \in Transaction, tx.kind \notin {"load", "add"},
           queue' = Append(queue, tx), UNCHANGED <<count, stateCount>>
    PROVE  CountIsOutstanding'
<1>0. /\ Len(queue) \in Nat /\ Len(queue') = Len(queue) + 1
      /\ \A n \in 1..Len(queue) : queue'[n] = queue[n]
      /\ queue'[Len(queue) + 1] = tx
  BY Push DEF TypeOK
<1>1. Counted' = Counted
  BY <1>0 DEF Counted
<1>2. \A n \in Counted : queue'[n] = queue[n]
  BY <1>0 DEF Counted
<1> QED BY <1>1, <1>2 DEF CountIsOutstanding

-----------------------------------------------------------------------------
(* What the end of a transaction does to the disk.                         *)

\* A transaction that completes stores its encrypted keys; a key whose record it
\* replaces by another is harmed.
LEMMA CompleteStores ==
    ASSUME TypeOK, QueueInv, LoginInv, Complete
    PROVE  /\ disk' \subseteq Record /\ nextId' \in Nat \ {0}
           /\ harmed \subseteq harmed' /\ harmed' \subseteq Keys
           /\ \A r \in disk' : \/ r \in disk
                               \/ /\ r.id # 0
                                  /\ \E p \in queue[1].puts : /\ p.pubkey = r.pubkey
                                                              /\ p.encrypted = r.encrypted
           /\ \A p \in queue[1].puts : p.encrypted => Stored(p.pubkey)'
           /\ \A k \in Keys : Stored(k) => Stored(k)' \/ k \in harmed'
<1> DEFINE tx    == Head(queue)
           new   == {p \in tx.puts : p.id = 0}
           given == tx.puts \ new
           old   == {r \in disk : \E p \in given : r.id = p.id}
<1>1. /\ queue \in Seq(Transaction) /\ queue # <<>> /\ queue' = Tail(queue)
      /\ disk \subseteq Record /\ nextId \in Nat \ {0} /\ harmed \subseteq Keys
  BY DEF TypeOK, Complete
<1>2. queue[1] = tx /\ tx \in Transaction /\ 1 \in 1..Len(queue)
  BY <1>1, Pop
<1>3. IsFiniteSet(new) /\ Cardinality(new) \in Nat /\ tx.puts \subseteq Record
  <2>1. IsFiniteSet(tx.puts)
    BY <1>2 DEF QueueInv
  <2> QED BY <2>1, <1>2, FS_Subset, FS_CardinalityType DEF Transaction
<1>4. PICK order \in [new -> 1..Cardinality(new)] :
         /\ disk' = (disk \ old) \cup (given \cup WithIds(new, order))
         /\ harmed' = harmed \cup (Pubkeys({r \in old : r.encrypted})
                         \ Pubkeys({p \in given \cup WithIds(new, order) : p.encrypted}))
  BY DEF Complete
<1>5. nextId' = nextId + Cardinality(new)
  BY DEF Complete
<1> DEFINE put == given \cup WithIds(new, order)
<1>6. \A p \in new : /\ [p EXCEPT !.id = nextId - 1 + order[p]] \in WithIds(new, order)
                     /\ nextId - 1 + order[p] \in Nat \ {0}
  <2> TAKE p \in new
  <2>1. order[p] \in 1..Cardinality(new)
    BY <1>4
  <2>2. nextId - 1 + order[p] \in Nat \ {0}
    BY <2>1, <1>1, <1>3
  <2>3. p.id = 0
    OBVIOUS
  <2> QED BY <2>2, <2>3 DEF WithIds
<1>7. \A r \in put : /\ r \in Record /\ r.id # 0
                     /\ \E p \in tx.puts : p.pubkey = r.pubkey /\ p.encrypted = r.encrypted
  <2> SUFFICES ASSUME NEW r \in put
               PROVE  /\ r \in Record /\ r.id # 0
                      /\ \E p \in tx.puts : p.pubkey = r.pubkey /\ p.encrypted = r.encrypted
    OBVIOUS
  <2>1. CASE r \in given
    BY <2>1, <1>3
  <2>2. CASE r \in WithIds(new, order)
    <3>1. PICK p \in new : r = IF p.id = 0 THEN [p EXCEPT !.id = nextId - 1 + order[p]] ELSE p
      BY <2>2 DEF WithIds
    <3>2. r = [p EXCEPT !.id = nextId - 1 + order[p]] /\ p \in Record
      BY <3>1, <1>3
    <3> HIDE DEF new, put, given
    <3>3. nextId - 1 + order[p] \in Nat \ {0} /\ p \in tx.puts
      BY <1>6, <3>1 DEF new
    <3> QED BY <3>2, <3>3 DEF Record
  <2> QED BY <2>1, <2>2
<1>8. \A p \in tx.puts : \E r \in put : r.pubkey = p.pubkey /\ r.encrypted = p.encrypted
  <2> SUFFICES ASSUME NEW p \in tx.puts
               PROVE  \E r \in put : r.pubkey = p.pubkey /\ r.encrypted = p.encrypted
    OBVIOUS
  <2>1. CASE p \in new
    <3>1. [p EXCEPT !.id = nextId - 1 + order[p]] \in put /\ p \in Record
      BY <2>1, <1>6, <1>3
    <3> HIDE DEF new, put, given
    <3> QED BY <3>1 DEF Record
  <2>2. CASE p \in given
    BY <2>2
  <2> QED BY <2>1, <2>2
<1> HIDE DEF new, put
<1>9. /\ disk' = (disk \ old) \cup put
      /\ harmed' = harmed \cup (Pubkeys({r \in old : r.encrypted})
                                \ Pubkeys({p \in put : p.encrypted}))
  BY <1>4 DEF put
<1>10. \A p \in queue[1].puts : p.encrypted => Stored(p.pubkey)'
  BY <1>2, <1>8, <1>9 DEF Stored
<1>11. ASSUME NEW k \in Keys, Stored(k)
       PROVE  Stored(k)' \/ k \in harmed'
  <2>1. PICK r \in disk : r.pubkey = k /\ r.encrypted
    BY <1>11 DEF Stored
  <2>2. CASE r \in old
    <3>1. k \in Pubkeys({q \in old : q.encrypted})
      BY <2>1, <2>2 DEF Pubkeys
    <3>2. CASE k \in Pubkeys({p \in put : p.encrypted})
      BY <3>2, <1>9 DEF Pubkeys, Stored
    <3>3. CASE k \notin Pubkeys({p \in put : p.encrypted})
      BY <3>1, <3>3, <1>9
    <3> QED BY <3>2, <3>3
  <2>3. CASE r \notin old
    BY <2>1, <2>3, <1>9 DEF Stored
  <2> QED BY <2>2, <2>3
<1>12. Pubkeys({r \in old : r.encrypted}) \subseteq Keys
  BY <1>1 DEF Pubkeys, Record
<1>13. /\ disk' \subseteq Record
       /\ \A r \in disk' : \/ r \in disk
                           \/ /\ r.id # 0
                              /\ \E p \in queue[1].puts : /\ p.pubkey = r.pubkey
                                                          /\ p.encrypted = r.encrypted
  BY <1>1, <1>2, <1>7, <1>9
<1>14. nextId' \in Nat \ {0}
  BY <1>1, <1>3, <1>5
<1>15. harmed \subseteq harmed' /\ harmed' \subseteq Keys
  BY <1>1, <1>9, <1>12
<1> QED BY <1>10, <1>11, <1>13, <1>14, <1>15

-----------------------------------------------------------------------------
(* A key that is safe remains so.                                          *)

\* A longer part of the queue makes no key less safe.
LEMMA SafeMonotonic ==
    ASSUME NEW k \in Keys, NEW m \in Nat, NEW n \in Nat, m <= n, Safe(k, m)
    PROVE  Safe(k, n)
BY DEF Safe, Queued

\* A step that leaves the queue and the disk alone.
LEMMA SafeStutter ==
    ASSUME UNCHANGED <<disk, harmed, queue>>
    PROVE  \A k \in Keys, last \in Int : Safe(k, last) => Safe(k, last)'
BY DEF Safe, Queued, Stored

\* A transaction is created: what it puts encrypted is safe, too.
LEMMA SafePush ==
    ASSUME queue \in Seq(Transaction), NEW tx \in Transaction, queue' = Append(queue, tx),
           UNCHANGED <<disk, harmed>>
    PROVE  /\ \A k \in Keys, last \in 0..Len(queue), n \in Nat :
                 last <= n /\ Safe(k, last) => Safe(k, n)'
           /\ \A k \in Keys, n \in Nat :
                 /\ n = Len(queue) + 1
                 /\ \E p \in tx.puts : p.pubkey = k /\ p.encrypted
                 => Safe(k, n)'
<1>1. /\ Len(queue) \in Nat
      /\ \A n \in 1..Len(queue) : queue'[n] = queue[n]
      /\ queue'[Len(queue) + 1] = tx
  BY Push
<1>2. ASSUME NEW k \in Keys, NEW last \in 0..Len(queue), NEW n \in Nat, last <= n,
             Safe(k, last)
      PROVE  Safe(k, n)'
  BY <1>1, <1>2 DEF Safe, Queued, Stored
<1>3. ASSUME NEW k \in Keys, NEW n \in Nat, n = Len(queue) + 1,
             \E p \in tx.puts : p.pubkey = k /\ p.encrypted
      PROVE  Safe(k, n)'
  BY <1>1, <1>3 DEF Safe, Queued
<1> QED BY <1>2, <1>3

\* A transaction ends, in whatever way: its keys are stored or harmed, and those of
\* the transactions behind it have come closer.
LEMMA SafePop ==
    ASSUME TypeOK, QueueInv, LoginInv,
           Complete \/ (\E told \in BOOLEAN : Abort(told)) \/ Loaded \/ LoadError
    PROVE  \A k \in Keys, last \in 0..Len(queue) : Safe(k, last) => Safe(k, last - 1)'
<1>1. queue \in Seq(Transaction) /\ queue # <<>> /\ queue' = Tail(queue)
  BY DEF TypeOK, Complete, Abort, Loaded, LoadError
<1>2. /\ Len(queue) \in Nat \ {0} /\ Head(queue) = queue[1] /\ queue[1] \in Transaction
      /\ \A n \in 2..Len(queue) : queue'[n - 1] = queue[n]
  BY <1>1, Pop
<1>3. \A k \in Keys : (\E p \in queue[1].puts : p.pubkey = k /\ p.encrypted)
                          => Stored(k)' \/ k \in harmed'
  <2>1. CASE Complete
    BY <2>1, CompleteStores
  <2>2. ASSUME NEW told \in BOOLEAN, Abort(told)
        PROVE  \A k \in Keys : (\E p \in queue[1].puts : p.pubkey = k /\ p.encrypted)
                                   => k \in harmed'
    BY <2>2, <1>2 DEF Abort, Pubkeys
  <2>3. CASE Loaded \/ LoadError
    <3>1. queue[1].kind = "load" /\ 1 \in 1..Len(queue)
      BY <2>3, <1>2 DEF Loaded, LoadError
    <3> QED BY <3>1 DEF QueueInv
  <2> QED BY <2>1, <2>2, <2>3
<1>4. /\ \A k \in Keys : Stored(k) => Stored(k)' \/ k \in harmed'
      /\ harmed \subseteq harmed'
  <2>1. CASE Complete
    BY <2>1, CompleteStores
  <2>2. CASE \E told \in BOOLEAN : Abort(told)
    BY <2>2 DEF Abort, Stored
  <2>3. CASE Loaded \/ LoadError
    BY <2>3 DEF Loaded, LoadError, Stored
  <2> QED BY <2>1, <2>2, <2>3
<1> SUFFICES ASSUME NEW k \in Keys, NEW last \in 0..Len(queue), Safe(k, last)
             PROVE  Safe(k, last - 1)'
  OBVIOUS
<1>5. CASE Stored(k) \/ k \in harmed
  BY <1>4, <1>5 DEF Safe
<1>6. CASE Queued(k, last)
  <2>1. PICK n \in 1..last : \E p \in queue[n].puts : p.pubkey = k /\ p.encrypted
    BY <1>6 DEF Queued
  <2>2. CASE n = 1
    BY <2>1, <2>2, <1>3 DEF Safe
  <2>3. CASE n # 1
    <3>1. n \in 2..Len(queue) /\ n - 1 \in 1..(last - 1)
      BY <2>1, <2>3, <1>2
    <3>2. queue'[n - 1] = queue[n]
      BY <3>1, <1>2
    <3> QED BY <3>1, <3>2, <2>1 DEF Safe, Queued
  <2> QED BY <2>2, <2>3
<1> QED BY <1>5, <1>6 DEF Safe

-----------------------------------------------------------------------------
(* The parts of the invariant, for all steps that change them alike.       *)

\* A waiting import goes on waiting.
WaitingKept ==
    \A i \in Imports : import[i].stage = "storing" /\ ~ import[i].stored =>
                           import'[i].stage = "storing" /\ ~ import'[i].stored

\* A step that leaves the queue and the disk alone.
LEMMA QueueStutter ==
    ASSUME TypeOK, QueueInv, UNCHANGED <<disk, harmed, queue>>, WaitingKept
    PROVE  QueueInv'
<1> SUFFICES ASSUME NEW n \in 1..Len(queue)
             PROVE  LET tx == queue[n]
                    IN  /\ IsFiniteSet(tx.puts)
                        /\ tx.kind = "load" => tx.puts = {} /\ tx.by = NoImport
                        /\ tx.by # NoImport =>
                              /\ import'[tx.by].stage = "storing"
                              /\ ~ import'[tx.by].stored
                              /\ \A m \in 1..Len(queue) : queue[m].by = tx.by => m = n
                        /\ tx.kind = "update" => \A p \in tx.puts :
                              p.id = 0 => p.pubkey \in LoginKeys \/ Safe(p.pubkey, n - 1)'
  BY DEF QueueInv
<1>1. queue[n] \in Transaction /\ n - 1 \in Int
  BY ElementOfSeq, LenProperties DEF TypeOK
<1>2. /\ queue[n].by # NoImport => queue[n].by \in Imports
      /\ \A p \in queue[n].puts : p.pubkey \in Keys
  BY <1>1 DEF Transaction, Record
<1>3. \A k \in Keys : Safe(k, n - 1) => Safe(k, n - 1)'
  BY <1>1, SafeStutter
<1> QED BY <1>1, <1>2, <1>3 DEF QueueInv, WaitingKept

\* A transaction is created for nobody, or for an import that did not wait before.
LEMMA QueuePush ==
    ASSUME TypeOK, QueueInv, NEW tx \in Transaction, queue' = Append(queue, tx),
           UNCHANGED <<disk, harmed>>, WaitingKept,
           IsFiniteSet(tx.puts),
           tx.kind = "load" => tx.puts = {} /\ tx.by = NoImport,
           tx.by # NoImport => /\ import'[tx.by].stage = "storing" /\ ~ import'[tx.by].stored
                               /\ ~ (import[tx.by].stage = "storing" /\ ~ import[tx.by].stored),
           tx.kind = "update" => \A p \in tx.puts :
               p.id = 0 => p.pubkey \in LoginKeys \/ Safe(p.pubkey, Len(queue))
    PROVE  QueueInv'
<1>1. queue \in Seq(Transaction)
  BY DEF TypeOK
<1>2. /\ Len(queue) \in Nat /\ Len(queue') = Len(queue) + 1
      /\ \A n \in 1..Len(queue) : queue'[n] = queue[n] /\ queue[n] \in Transaction
      /\ queue'[Len(queue) + 1] = tx
  BY <1>1, Push, ElementOfSeq
<1>3. \A k \in Keys, last \in 0..Len(queue) : Safe(k, last) => Safe(k, last)'
  BY <1>1, <1>2, SafePush
<1>4. \A n \in 1..Len(queue) : queue[n].by # NoImport => queue[n].by # tx.by
  BY <1>2 DEF QueueInv
<1> SUFFICES ASSUME NEW n \in 1..Len(queue')
             PROVE  /\ IsFiniteSet(queue'[n].puts)
                    /\ queue'[n].kind = "load" => queue'[n].puts = {} /\ queue'[n].by = NoImport
                    /\ queue'[n].by # NoImport =>
                          /\ import'[queue'[n].by].stage = "storing"
                          /\ ~ import'[queue'[n].by].stored
                          /\ \A m \in 1..Len(queue') : queue'[m].by = queue'[n].by => m = n
                    /\ queue'[n].kind = "update" => \A p \in queue'[n].puts :
                          p.id = 0 => p.pubkey \in LoginKeys \/ Safe(p.pubkey, n - 1)'
  BY DEF QueueInv
<1>5. CASE n \in 1..Len(queue)
  <2>1. /\ queue[n].by # NoImport => queue[n].by \in Imports
        /\ \A p \in queue[n].puts : p.pubkey \in Keys
        /\ n - 1 \in 0..Len(queue)
    BY <1>2, <1>5 DEF Transaction, Record
  <2>2. queue[n].by # NoImport =>
            \A m \in 1..Len(queue') : queue'[m].by = queue[n].by => m = n
    BY <1>2, <1>4, <1>5 DEF QueueInv
  <2>3. queue[n].by # NoImport => /\ import'[queue[n].by].stage = "storing"
                                  /\ ~ import'[queue[n].by].stored
    BY <2>1, <1>5 DEF QueueInv, WaitingKept
  <2> QED BY <1>2, <1>3, <1>5, <2>1, <2>2, <2>3 DEF QueueInv
<1>6. CASE n = Len(queue) + 1
  <2>1. queue'[n] = tx /\ n - 1 = Len(queue) /\ \A p \in tx.puts : p.pubkey \in Keys
    BY <1>2, <1>6 DEF Transaction, Record
  <2>2. tx.by # NoImport => \A m \in 1..Len(queue') : queue'[m].by = tx.by => m = n
    BY <1>2, <1>4, <1>6
  <2> QED BY <1>2, <1>3, <2>1, <2>2
<1> QED BY <1>2, <1>5, <1>6

\* The first transaction ends.  Only the import that it was for goes on.
LEMMA QueuePop ==
    ASSUME TypeOK, QueueInv, LoginInv,
           Complete \/ (\E told \in BOOLEAN : Abort(told)) \/ Loaded \/ LoadError,
           \A i \in Imports : i # queue[1].by => import'[i] = import[i]
    PROVE  QueueInv'
<1>1. queue \in Seq(Transaction) /\ queue # <<>> /\ queue' = Tail(queue)
  BY DEF TypeOK, Complete, Abort, Loaded, LoadError
<1>2. /\ Len(queue) \in Nat \ {0} /\ Len(queue') = Len(queue) - 1
      /\ \A n \in 1..Len(queue') : queue'[n] = queue[n + 1]
  BY <1>1, Pop
<1>3. \A n \in 1..Len(queue) : queue[n] \in Transaction
  BY <1>1, ElementOfSeq
<1>4. \A k \in Keys, last \in 0..Len(queue) : Safe(k, last) => Safe(k, last - 1)'
  BY SafePop
<1> SUFFICES ASSUME NEW n \in 1..Len(queue')
             PROVE  /\ IsFiniteSet(queue'[n].puts)
                    /\ queue'[n].kind = "load" => queue'[n].puts = {} /\ queue'[n].by = NoImport
                    /\ queue'[n].by # NoImport =>
                          /\ import'[queue'[n].by].stage = "storing"
                          /\ ~ import'[queue'[n].by].stored
                          /\ \A m \in 1..Len(queue') : queue'[m].by = queue'[n].by => m = n
                    /\ queue'[n].kind = "update" => \A p \in queue'[n].puts :
                          p.id = 0 => p.pubkey \in LoginKeys \/ Safe(p.pubkey, n - 1)'
  BY DEF QueueInv
<1>5. /\ queue'[n] = queue[n + 1] /\ n + 1 \in 1..Len(queue) /\ n \in 0..Len(queue)
      /\ n + 1 # 1 /\ 1 \in 1..Len(queue)
  BY <1>2
<1>6. /\ queue[n + 1].by # NoImport => queue[n + 1].by \in Imports
      /\ \A p \in queue[n + 1].puts : p.pubkey \in Keys
  BY <1>3, <1>5 DEF Transaction, Record
<1>7. queue[n + 1].by # NoImport => queue[n + 1].by # queue[1].by
  BY <1>5 DEF QueueInv
<1>8. queue[n + 1].by # NoImport => /\ import'[queue[n + 1].by].stage = "storing"
                                    /\ ~ import'[queue[n + 1].by].stored
  BY <1>5, <1>6, <1>7 DEF QueueInv
<1>9. queue[n + 1].by # NoImport =>
          \A m \in 1..Len(queue') : queue'[m].by = queue[n + 1].by => m = n
  <2> SUFFICES ASSUME queue[n + 1].by # NoImport, NEW m \in 1..Len(queue'),
                      queue'[m].by = queue[n + 1].by
               PROVE  m = n
    OBVIOUS
  <2>1. m + 1 \in 1..Len(queue) /\ queue[m + 1].by = queue[n + 1].by
    BY <1>2
  <2>2. m + 1 = n + 1
    BY <2>1, <1>5 DEF QueueInv
  <2> QED BY <2>2
<1>10. queue[n + 1].kind = "update" => \A p \in queue[n + 1].puts :
           p.id = 0 => p.pubkey \in LoginKeys \/ Safe(p.pubkey, n - 1)'
  <2>1. queue[n + 1].kind = "update" => \A p \in queue[n + 1].puts :
            p.id = 0 => p.pubkey \in LoginKeys \/ Safe(p.pubkey, (n + 1) - 1)
    BY <1>5 DEF QueueInv
  <2>2. (n + 1) - 1 = n
    BY <1>5
  <2> QED BY <2>1, <2>2, <1>4, <1>5, <1>6
<1>11. /\ IsFiniteSet(queue[n + 1].puts)
       /\ queue[n + 1].kind = "load" => queue[n + 1].puts = {} /\ queue[n + 1].by = NoImport
  BY <1>5 DEF QueueInv
<1> QED BY <1>5, <1>8, <1>9, <1>10, <1>11

\* An import that the step does not change, whose transaction stays in the queue.
LEMMA JobKept ==
    ASSUME NEW i \in Imports, TypeOK, JobInv(i), import'[i] = import[i],
           \A k \in Keys : IndexedIfRead(k) => IndexedIfRead(k)',
           harmed \subseteq harmed',
           \A k \in Keys : Stored(k) => Stored(k)' \/ k \in harmed',
           \A m \in 1..Len(queue) : queue[m].by = i =>
               \E n \in 1..Len(queue') :
                   /\ queue'[n] = queue[m]
                   /\ \A k \in Keys : Safe(k, m) => Safe(k, n)'
    PROVE  JobInv(i)'
<1> DEFINE job == import[i]
<1>1. job.keys \subseteq Keys
  BY DEF TypeOK, Import
<1>2. ASSUME NEW k \in job.keys \ LoginKeys, job.stage \in {"storing", "success"}
      PROVE  IF job.stored THEN Stored(k)' \/ k \in harmed'
             ELSE \E n \in 1..Len(queue') : queue'[n].by = i /\ Safe(k, n)'
  <2>1. CASE job.stored
    BY <1>1, <1>2, <2>1 DEF JobInv
  <2>2. CASE ~ job.stored
    <3>1. PICK m \in 1..Len(queue) : queue[m].by = i /\ Safe(k, m)
      BY <1>2, <2>2 DEF JobInv
    <3> QED BY <1>1, <2>2, <3>1
  <2> QED BY <2>1, <2>2
<1>3. ASSUME NEW k, Unsure(i, k)
      PROVE  Unsure(i, k)'
  BY <1>3 DEF Unsure
<1>4. ASSUME NEW k \in job.keys \ LoginKeys, job.stage \in {"storing", "success"}, job.indexed
      PROVE  \/ k \in harmed' \/ IndexedIfRead(k)'
             \/ ~ job.stored /\ Unsure(i, k)'
  BY <1>1, <1>3, <1>4 DEF JobInv
<1>5. job.stage = "encrypting" /\ job.indexed => \A k \in job.keys : IndexedIfRead(k)'
  BY <1>1 DEF JobInv
<1>6. /\ job.stage = "encrypting" => ~ job.stored
      /\ job.stage = "success" => job.stored /\ job.indexed
  BY DEF JobInv
<1> HIDE DEF job
<1>7. import'[i] = job
  BY DEF job
<1> QED BY <1>2, <1>4, <1>5, <1>6, <1>7 DEF JobInv

\* Keys are added to the address index.
LEMMA IndexAdded ==
    ASSUME TypeOK, IndexInv, NEW S \in SUBSET Keys, addToIndex(S)
    PROVE  /\ map' \in {"unread", "reading", "read", "failed"} /\ saved' = saved
           /\ indexed' \subseteq Keys /\ awaiting' \subseteq Keys /\ saveTimer' \in BOOLEAN
           /\ \A k \in Keys : IndexedIfRead(k) \/ k \in S => IndexedIfRead(k)'
           /\ map' # "read" => indexed' = {}
<1>1. CASE map = "read"
  BY <1>1 DEF TypeOK, IndexInv, addToIndex, IndexedIfRead
<1>2. CASE map \in {"unread", "reading"}
  BY <1>2 DEF TypeOK, IndexInv, addToIndex, IndexedIfRead
<1>3. CASE map = "failed"
  BY <1>3 DEF TypeOK, IndexInv, addToIndex, IndexedIfRead
<1> QED BY <1>1, <1>2, <1>3 DEF TypeOK

\* The same import, when nothing happens to the queue, when a transaction is created
\* for another, and when one ends that was not its own.
LEMMA JobStutter ==
    ASSUME NEW i \in Imports, TypeOK, JobInv(i), import'[i] = import[i],
           \A k \in Keys : IndexedIfRead(k) => IndexedIfRead(k)',
           UNCHANGED <<disk, harmed, queue>>
    PROVE  JobInv(i)'
<1>1. Len(queue) \in Nat
  BY LenProperties DEF TypeOK
<1>2. \A k \in Keys, m \in 1..Len(queue) : Safe(k, m) => Safe(k, m)'
  BY <1>1, SafeStutter
<1>3. \A k \in Keys : Stored(k) => Stored(k)'
  BY DEF Stored
<1> QED BY <1>2, <1>3, JobKept

\* An import that does not move does not mind a transaction behind the others.
LEMMA JobPush ==
    ASSUME NEW i \in Imports, TypeOK, JobInv(i), import'[i] = import[i],
           \A k \in Keys : IndexedIfRead(k) => IndexedIfRead(k)',
           UNCHANGED <<disk, harmed>>, NEW tx \in Transaction, queue' = Append(queue, tx)
    PROVE  JobInv(i)'
<1>1. queue \in Seq(Transaction)
  BY DEF TypeOK
<1>2. /\ Len(queue) \in Nat /\ Len(queue') = Len(queue) + 1
      /\ \A n \in 1..Len(queue) : queue'[n] = queue[n]
  BY <1>1, Push
<1>3. \A k \in Keys, m \in 1..Len(queue) : Safe(k, m) => Safe(k, m)'
  BY <1>1, <1>2, SafePush
<1>4. \A k \in Keys : Stored(k) => Stored(k)'
  BY DEF Stored
<1>5. 1..Len(queue) \subseteq 1..Len(queue')
  BY <1>2
<1> QED BY <1>2, <1>3, <1>4, <1>5, JobKept

\* Nor the end of the first transaction, when that is another's.
LEMMA JobPop ==
    ASSUME NEW i \in Imports, TypeOK, QueueInv, LoginInv, JobInv(i), import'[i] = import[i],
           \A k \in Keys : IndexedIfRead(k) => IndexedIfRead(k)',
           Complete \/ (\E told \in BOOLEAN : Abort(told)) \/ Loaded \/ LoadError,
           queue[1].by # i
    PROVE  JobInv(i)'
<1>1. queue \in Seq(Transaction) /\ queue # <<>> /\ queue' = Tail(queue)
  BY DEF TypeOK, Complete, Abort, Loaded, LoadError
<1>2. /\ Len(queue) \in Nat \ {0} /\ Len(queue') = Len(queue) - 1
      /\ \A n \in 2..Len(queue) : queue'[n - 1] = queue[n]
  BY <1>1, Pop
<1>3. /\ \A k \in Keys : Stored(k) => Stored(k)' \/ k \in harmed'
      /\ harmed \subseteq harmed'
  <2>1. CASE Complete
    BY <2>1, CompleteStores
  <2>2. CASE \E told \in BOOLEAN : Abort(told)
    BY <2>2 DEF Abort, Stored
  <2>3. CASE Loaded \/ LoadError
    BY <2>3 DEF Loaded, LoadError, Stored
  <2> QED BY <2>1, <2>2, <2>3
<1>4. ASSUME NEW m \in 1..Len(queue), queue[m].by = i
      PROVE  \E n \in 1..Len(queue') :
                 queue'[n] = queue[m] /\ \A k \in Keys : Safe(k, m) => Safe(k, n)'
  <2>1. m \in 2..Len(queue)
    BY <1>2, <1>4
  <2>2. /\ m - 1 \in 1..Len(queue') /\ queue'[m - 1] = queue[m]
        /\ m \in 0..Len(queue)
    BY <2>1, <1>2
  <2>3. \A k \in Keys : Safe(k, m) => Safe(k, m - 1)'
    BY <2>2, SafePop
  <2> QED BY <2>2, <2>3
<1> QED BY <1>3, <1>4, JobKept

\* RAM shows what was safe before and what the new transaction puts.
LEMMA ShownPush ==
    ASSUME queue \in Seq(Transaction), NEW tx \in Transaction, queue' = Append(queue, tx),
           UNCHANGED <<disk, harmed>>,
           \A k \in Keys : hasKey(k)' /\ keys'[k].encrypted =>
               \/ Safe(k, Len(queue))
               \/ \E p \in tx.puts : p.pubkey = k /\ p.encrypted
    PROVE  ShownInv'
<1>1. Len(queue) \in Nat /\ Len(queue') = Len(queue) + 1
  BY Push
<1>2. ASSUME NEW k \in Keys, hasKey(k)', keys'[k].encrypted, NEW n \in Nat, n = Len(queue')
      PROVE  Safe(k, n)'
  BY <1>1, <1>2, SafePush
<1>3. ASSUME NEW k \in Keys, hasKey(k)', keys'[k].encrypted
      PROVE  Safe(k, Len(queue))'
  <2>1. PICK n \in Nat : n = Len(queue')
    BY <1>1
  <2>2. Safe(k, n)'
    BY <1>2, <1>3, <2>1
  <2> QED BY <2>1, <2>2 DEF Safe, Queued
<1> QED BY <1>3 DEF ShownInv

-----------------------------------------------------------------------------
(* The steps.                                                              *)

\* A new wallet satisfies the invariant.
LEMMA KeyStoreInit == Init => KeyStoreInv
<1> SUFFICES ASSUME Init PROVE KeyStoreInv
  OBVIOUS
<1>1. queue = <<>> /\ queue \in Seq(Transaction) /\ Len(queue) = 0
  BY EmptySeq DEF Init
<1>2. Idle \in Import
  BY DEF Idle, Import
<1>3. TypeOK
  <2>1. /\ keys \in [Keys -> Entry \cup {NoEntry}]
        /\ import \in [Imports -> Import]
    BY <1>2 DEF Init
  <2>2. failed \in BOOLEAN /\ saveTimer \in BOOLEAN
    BY Zenon DEF Init
  <2>3. /\ disk \subseteq Record /\ nextId \in Nat \ {0} /\ count \in Nat /\ stateCount \in Nat
        /\ map \in {"unread", "reading", "read", "failed"}
        /\ awaiting \subseteq Keys /\ indexed \subseteq Keys /\ saved \subseteq Keys
        /\ harmed \subseteq Keys
    BY DEF Init
  <2> QED BY <2>1, <2>2, <2>3, <1>1 DEF TypeOK
<1>4. CountIsOutstanding
  <2>1. Counted = {}
    BY <1>1 DEF Counted
  <2> QED BY <2>1, FS_EmptySet DEF Init, CountIsOutstanding
<1>5. QueueInv /\ LoginInv /\ ShownInv /\ IndexInv
  BY <1>1 DEF Init, QueueInv, LoginInv, ShownInv, IndexInv, hasKey
<1>6. ImportInv
  BY DEF Init, ImportInv, JobInv, Idle
<1> QED BY <1>3, <1>4, <1>5, <1>6 DEF KeyStoreInv

\* Loading the keys begins.
LEMMA OnLoadStep == KeyStoreInv /\ onLoadDbData => KeyStoreInv'
<1> SUFFICES ASSUME KeyStoreInv, onLoadDbData PROVE KeyStoreInv'
  OBVIOUS
<1> DEFINE tx == [kind |-> "load", puts |-> {}, by |-> NoImport]
<1>0. /\ TypeOK /\ CountIsOutstanding /\ QueueInv /\ LoginInv /\ IndexInv /\ ImportInv
      /\ queue \in Seq(Transaction)
  BY DEF KeyStoreInv, TypeOK
<1>1. /\ queue' = Append(queue, tx) /\ count' = count + 1 /\ stateCount' = 0
      /\ keys' = [k \in Keys |-> NoEntry] /\ failed' = FALSE
      /\ UNCHANGED <<disk, nextId, harmed, map, awaiting, indexed, saved, saveTimer, import>>
  BY DEF onLoadDbData, indexVars
<1>2. tx \in Transaction /\ tx.puts = {} /\ tx.by = NoImport /\ tx.kind = "load"
  BY DEF Transaction
<1> HIDE DEF tx
<1>3. /\ queue' \in Seq(Transaction)
      /\ Len(queue) \in Nat /\ Len(queue') = Len(queue) + 1
      /\ \A n \in 1..Len(queue) : queue'[n] = queue[n]
      /\ queue'[Len(queue) + 1] = tx
  BY <1>0, <1>1, <1>2, Push
<1>4. TypeOK'
  <2>1. keys' \in [Keys -> Entry \cup {NoEntry}]
    BY <1>1
  <2>2. failed' \in BOOLEAN
    BY <1>1
  <2>3. /\ count' \in Nat /\ stateCount' \in Nat
        /\ UNCHANGED <<disk, nextId, harmed, map, awaiting, indexed, saved, saveTimer, import>>
    BY <1>0, <1>1 DEF TypeOK
  <2> QED BY <2>1, <2>2, <2>3, <1>0, <1>3 DEF TypeOK
<1>5. CountIsOutstanding'
  <2>1. Cardinality(CountedIn(queue')) = Cardinality(CountedIn(queue)) + 1
    BY <1>0, <1>1, <1>2, CountPush
  <2>2. count' = Cardinality(Counted')
    BY <2>1, <1>0, <1>1 DEF CountIsOutstanding, Counted, CountedIn
  <2>3. PICK n \in Nat : n = Len(queue')
    BY <1>3
  <2>4. n \in Counted' /\ queue'[n].kind = "load" /\ \A m \in Counted' : m <= n
    BY <2>3, <1>2, <1>3 DEF Counted
  <2> QED BY <2>2, <2>4, <1>1 DEF CountIsOutstanding
<1>6. QueueInv'
  BY <1>0, <1>1, <1>2, QueuePush, FS_EmptySet DEF WaitingKept
<1>7. LoginInv'
  BY <1>0, <1>1, <1>2, <1>3 DEF LoginInv, hasKey
<1>8. ShownInv' /\ IndexInv'
  BY <1>0, <1>1 DEF ShownInv, IndexInv, hasKey
<1>9. ImportInv'
  BY <1>0, <1>1, <1>2, JobPush DEF ImportInv, IndexedIfRead
<1> QED BY <1>4, <1>5, <1>6, <1>7, <1>8, <1>9 DEF KeyStoreInv

\* A key of the brainkey is added.
LEMMA OnAddStep == ASSUME KeyStoreInv, NEW k \in Keys, onAddKey(k) PROVE KeyStoreInv'
<1> DEFINE put == [id |-> 0, pubkey |-> k, encrypted |-> TRUE]
           tx  == [kind |-> "add", by |-> NoImport, puts |-> {put}]
<1>0. /\ TypeOK /\ CountIsOutstanding /\ QueueInv /\ LoginInv /\ ShownInv /\ IndexInv
      /\ ImportInv /\ queue \in Seq(Transaction)
  BY DEF KeyStoreInv, TypeOK
<1>1. /\ queue' = Append(queue, tx) /\ count' = count + 1 /\ stateCount' = count'
      /\ keys' = [keys EXCEPT ![k] = [id |-> 0, encrypted |-> TRUE]]
      /\ addToIndex({k})
      /\ UNCHANGED <<disk, nextId, harmed, failed, import>>
  BY DEF onAddKey
<1>2. /\ tx \in Transaction /\ tx.puts = {put} /\ tx.by = NoImport /\ tx.kind = "add"
      /\ put.pubkey = k /\ put.encrypted
  BY DEF Transaction, Record
<1> HIDE DEF tx, put
<1>3. /\ queue' \in Seq(Transaction)
      /\ Len(queue) \in Nat /\ Len(queue') = Len(queue) + 1
      /\ \A n \in 1..Len(queue) : queue'[n] = queue[n]
      /\ queue'[Len(queue) + 1] = tx
  BY <1>0, <1>1, <1>2, Push
<1>4. /\ map' \in {"unread", "reading", "read", "failed"} /\ saved' = saved
      /\ indexed' \subseteq Keys /\ awaiting' \subseteq Keys /\ saveTimer' \in BOOLEAN
      /\ \A j \in Keys : IndexedIfRead(j) \/ j \in {k} => IndexedIfRead(j)'
      /\ map' # "read" => indexed' = {}
  BY <1>0, <1>1, IndexAdded
<1>5. TypeOK'
  BY <1>0, <1>1, <1>3, <1>4 DEF TypeOK, Entry
<1>6. CountIsOutstanding'
  <2>1. Cardinality(CountedIn(queue')) = Cardinality(CountedIn(queue)) + 1
    BY <1>0, <1>1, <1>2, CountPush
  <2>2. count' = Cardinality(Counted')
    BY <2>1, <1>0, <1>1 DEF CountIsOutstanding, Counted, CountedIn
  <2> QED BY <2>2, <1>1 DEF CountIsOutstanding
<1>7. QueueInv'
  <2>1. WaitingKept
    BY <1>1 DEF WaitingKept
  <2>2. IsFiniteSet(tx.puts)
    BY <1>2, FS_Singleton
  <2> QED BY <2>1, <2>2, <1>0, <1>1, <1>2, QueuePush
<1>8. /\ keys'[k] = [id |-> 0, encrypted |-> TRUE]
      /\ \A j \in Keys : j # k => keys'[j] = keys[j]
  BY <1>0, <1>1 DEF TypeOK
<1>9. LoginInv'
  BY <1>0, <1>1, <1>2, <1>3, <1>8 DEF LoginInv, hasKey
<1>10. ShownInv'
  <2>1. ASSUME NEW j \in Keys, hasKey(j)', keys'[j].encrypted
        PROVE  Safe(j, Len(queue)) \/ \E p \in tx.puts : p.pubkey = j /\ p.encrypted
    BY <2>1, <1>0, <1>2, <1>8 DEF ShownInv, hasKey
  <2> QED BY <2>1, <1>0, <1>1, <1>2, ShownPush
<1>11. IndexInv'
  BY <1>0, <1>1, <1>4, <1>8 DEF IndexInv, hasKey
<1>12. ImportInv'
  BY <1>0, <1>1, <1>2, <1>4, JobPush DEF ImportInv
<1> QED BY <1>5, <1>6, <1>7, <1>9, <1>10, <1>11, <1>12 DEF KeyStoreInv

\* What Settled changes.
LEMMA SettledFacts ==
    ASSUME NEW job \in Import
    PROVE  /\ Settled(job) \in Import
           /\ Settled(job).keys = job.keys
           /\ Settled(job).stored = job.stored /\ Settled(job).indexed = job.indexed
           /\ Settled(job).stage = IF job.stage = "storing" /\ job.stored /\ job.indexed
                                   THEN "success" ELSE job.stage
BY DEF Settled, Import

\* Steps that leave the store of keys alone.
LEMMA StoreStutter ==
    ASSUME KeyStoreInv, UNCHANGED storeVars, WaitingKept
    PROVE  CountIsOutstanding' /\ QueueInv' /\ LoginInv' /\ ShownInv'
<1>1. UNCHANGED <<keys, disk, queue, count, stateCount, harmed>>
  BY DEF storeVars
<1>2. CountIsOutstanding'
  BY <1>1 DEF KeyStoreInv, CountIsOutstanding, Counted
<1>3. QueueInv'
  BY <1>1, QueueStutter DEF KeyStoreInv
<1>4. LoginInv'
  BY <1>1 DEF KeyStoreInv, LoginInv, hasKey
<1>5. ShownInv'
  BY <1>1 DEF KeyStoreInv, ShownInv, hasKey, Safe, Queued, Stored
<1> QED BY <1>2, <1>3, <1>4, <1>5

\* The saved index is read, or written.
LEMMA IndexStep ==
    KeyStoreInv /\ (loadAddyMap \/ loadAddyMapFails \/ saveAddyMap) => KeyStoreInv'
<1> SUFFICES ASSUME KeyStoreInv, loadAddyMap \/ loadAddyMapFails \/ saveAddyMap
             PROVE  KeyStoreInv'
  OBVIOUS
<1>0. TypeOK /\ IndexInv /\ ImportInv
  BY DEF KeyStoreInv
<1>1. UNCHANGED storeVars /\ import' = import
  BY DEF loadAddyMap, loadAddyMapFails, saveAddyMap
<1>2. UNCHANGED <<keys, disk, nextId, queue, count, stateCount, failed, harmed>>
  BY <1>1 DEF storeVars
<1>3. /\ map' \in {"unread", "reading", "read", "failed"}
      /\ awaiting' \subseteq Keys /\ indexed' \subseteq Keys /\ saved' \subseteq Keys
      /\ saveTimer' \in BOOLEAN
      /\ map' # "read" => indexed' = {}
      /\ \A k \in Keys : IndexedIfRead(k) => IndexedIfRead(k)'
  <2>1. CASE loadAddyMap
    <3>1. /\ indexed' = saved \cup awaiting /\ awaiting' = {} /\ saved' = saved
          /\ map' = "read" /\ saveTimer' \in BOOLEAN
      BY <2>1 DEF loadAddyMap
    <3>2. map = "reading" /\ indexed = {}
      BY <2>1, <1>0 DEF loadAddyMap, IndexInv
    <3> QED BY <3>1, <3>2, <1>0 DEF TypeOK, IndexedIfRead
  <2>2. CASE saveAddyMap
    <3>1. /\ saveTimer' \in BOOLEAN /\ saved' \in {saved, indexed}
          /\ UNCHANGED <<map, awaiting, indexed>>
      BY <2>2 DEF saveAddyMap
    <3> QED BY <3>1, <1>0 DEF TypeOK, IndexInv, IndexedIfRead
  <2>3. CASE loadAddyMapFails
    <3>1. /\ map = "reading" /\ map' = "failed" /\ awaiting' = {}
          /\ UNCHANGED <<indexed, saved, saveTimer>>
      BY <2>3 DEF loadAddyMapFails
    <3> QED BY <3>1, <1>0 DEF TypeOK, IndexInv, IndexedIfRead
  <2> QED BY <2>1, <2>2, <2>3
<1>4. TypeOK'
  BY <1>0, <1>1, <1>2, <1>3 DEF TypeOK
<1>5. CountIsOutstanding' /\ QueueInv' /\ LoginInv' /\ ShownInv'
  BY <1>1, StoreStutter DEF WaitingKept
<1>6. IndexInv'
  BY <1>0, <1>1, <1>2, <1>3 DEF IndexInv, hasKey
<1>7. ImportInv'
  BY <1>0, <1>1, <1>2, <1>3, JobStutter DEF ImportInv
<1> QED BY <1>4, <1>5, <1>6, <1>7 DEF KeyStoreInv

\* A cloud login's keys are in plain text.
LEMMA LoginStep == KeyStoreInv /\ setPasswordLoginKey => KeyStoreInv'
<1> SUFFICES ASSUME KeyStoreInv, setPasswordLoginKey PROVE KeyStoreInv'
  OBVIOUS
<1>0. /\ TypeOK /\ CountIsOutstanding /\ QueueInv /\ LoginInv /\ ShownInv /\ IndexInv
      /\ ImportInv
  BY DEF KeyStoreInv
<1>1. UNCHANGED <<disk, nextId, queue, count, stateCount, failed, harmed, map, awaiting, indexed,
                  saved, saveTimer, import>>
  BY DEF setPasswordLoginKey, indexVars
<1>2. PICK id \in [LoginKeys -> 1..Cardinality(LoginKeys)] :
         keys' = [k \in Keys |-> IF k \in LoginKeys
                                 THEN [id |-> id[k], encrypted |-> FALSE] ELSE keys[k]]
  BY DEF setPasswordLoginKey
<1>3. LoginKeys \subseteq Keys /\ Cardinality(LoginKeys) \in Nat
  BY KeyStoreAssumption, FS_Subset, FS_CardinalityType
<1>4. keys' \in [Keys -> Entry \cup {NoEntry}]
  <2>1. \A k \in LoginKeys : [id |-> id[k], encrypted |-> FALSE] \in Entry
    BY <1>2, <1>3 DEF Entry
  <2> QED BY <2>1, <1>0, <1>2 DEF TypeOK
<1>5. \A k \in Keys : IF k \in LoginKeys THEN ~ keys'[k].encrypted ELSE keys'[k] = keys[k]
  BY <1>2
<1>6. TypeOK'
  BY <1>0, <1>1, <1>4 DEF TypeOK
<1>7. CountIsOutstanding' /\ QueueInv'
  BY <1>0, <1>1, QueueStutter DEF CountIsOutstanding, Counted, WaitingKept
<1>8. LoginInv'
  BY <1>0, <1>1, <1>5 DEF LoginInv, hasKey
<1>9. ShownInv'
  BY <1>0, <1>1, <1>5 DEF ShownInv, hasKey, Safe, Queued, Stored
<1>10. IndexInv'
  BY <1>0, <1>1, <1>5 DEF IndexInv, IndexedIfRead, hasKey
<1>11. ImportInv'
  BY <1>0, <1>1, JobStutter DEF ImportInv, IndexedIfRead
<1> QED BY <1>6, <1>7, <1>8, <1>9, <1>10, <1>11 DEF KeyStoreInv

\* The workers of an import start.
LEMMA WorkerStep ==
    ASSUME KeyStoreInv, NEW i \in Imports, NEW S \in SUBSET Keys, importKeysWorker(i, S)
    PROVE  KeyStoreInv'
<1> DEFINE job == [keys |-> S, stage |-> "encrypting", stored |-> FALSE, indexed |-> FALSE]
<1>0. TypeOK /\ IndexInv /\ ImportInv
  BY DEF KeyStoreInv
<1>1. /\ UNCHANGED <<storeVars, awaiting, indexed, saved, saveTimer>>
      /\ import' = [import EXCEPT ![i] = job]
      /\ map' \in {"unread", "reading", "read", "failed"} /\ (map' = "read" => map = "read")
      /\ (map = "read" => map' = "read") /\ (map = "failed" => map' = "failed")
      /\ import[i].stage # "storing" /\ import[i].indexed
  BY <1>0 DEF importKeysWorker, Free, TypeOK
<1>2. UNCHANGED <<keys, disk, nextId, queue, count, stateCount, failed, harmed>>
  BY <1>1 DEF storeVars
<1>3. job \in Import
  BY DEF Import
<1>4. import'[i] = job /\ \A j \in Imports : j # i => import'[j] = import[j]
  BY <1>0, <1>1 DEF TypeOK
<1>5. TypeOK'
  BY <1>0, <1>1, <1>2, <1>3 DEF TypeOK
<1>6. WaitingKept
  BY <1>1, <1>4 DEF WaitingKept
<1>7. CountIsOutstanding' /\ QueueInv' /\ LoginInv' /\ ShownInv'
  BY <1>1, <1>6, StoreStutter
<1>8. IndexInv'
  BY <1>0, <1>1, <1>2, <1>4 DEF IndexInv, IndexedIfRead, hasKey
<1>9. ImportInv'
  <2>1. JobInv(i)'
    BY <1>4 DEF JobInv
  <2>2. \A k \in Keys : IndexedIfRead(k) => IndexedIfRead(k)'
    BY <1>1 DEF IndexedIfRead
  <2>3. \A j \in Imports : j # i => JobInv(j)'
    BY <2>2, <1>0, <1>1, <1>2, <1>4, JobStutter DEF ImportInv
  <2> QED BY <2>1, <2>3 DEF ImportInv
<1> QED BY <1>5, <1>7, <1>8, <1>9 DEF KeyStoreInv

\* The address worker has answered.
LEMMA AddAllStep ==
    ASSUME KeyStoreInv, NEW i \in Imports, addAll(i)
    PROVE  KeyStoreInv'
<1> DEFINE job == import[i]
           new == [job EXCEPT !.indexed = TRUE]
<1>0. TypeOK /\ IndexInv /\ ImportInv /\ JobInv(i) /\ job \in Import
  BY DEF KeyStoreInv, ImportInv, TypeOK
<1>1. /\ UNCHANGED <<storeVars, map, awaiting, saved>>
      /\ import' = [import EXCEPT ![i] = Settled(new)]
      /\ indexed' = indexed \cup job.keys
      /\ ~ job.indexed /\ map = "read" /\ saveTimer' \in BOOLEAN
  BY DEF addAll
<1>2. UNCHANGED <<keys, disk, nextId, queue, count, stateCount, failed, harmed>>
  BY <1>1 DEF storeVars
<1>3. /\ new \in Import /\ new.keys = job.keys /\ new.stored = job.stored /\ new.indexed
      /\ new.stage = job.stage
  BY <1>0 DEF Import
<1> HIDE DEF new
<1>4. import'[i] = Settled(new) /\ \A j \in Imports : j # i => import'[j] = import[j]
  BY <1>0, <1>1 DEF TypeOK
<1>5. /\ import'[i] \in Import /\ import'[i].keys = job.keys
      /\ import'[i].stored = job.stored /\ import'[i].indexed
      /\ import'[i].stage = IF job.stage = "storing" /\ job.stored THEN "success" ELSE job.stage
  BY <1>3, <1>4, SettledFacts
<1>6. job.keys \subseteq Keys
  BY <1>0 DEF Import
<1>7. TypeOK'
  <2>1. import' \in [Imports -> Import]
    BY <1>0, <1>1, <1>4, <1>5 DEF TypeOK
  <2> QED BY <2>1, <1>0, <1>1, <1>2, <1>6 DEF TypeOK
<1>8. WaitingKept
  BY <1>4, <1>5 DEF WaitingKept
<1>9. CountIsOutstanding' /\ QueueInv' /\ LoginInv' /\ ShownInv'
  BY <1>1, <1>8, StoreStutter
<1>10. IndexInv'
  <2>1. map' = "read"
    BY <1>1
  <2>2. ASSUME NEW k \in Keys, hasKey(k), keys[k].encrypted
        PROVE  \/ IndexedIfRead(k)'
               \/ keys[k].id = 0 /\ \E j \in Imports : ~ import'[j].indexed /\ k \in import'[j].keys
    <3>1. CASE IndexedIfRead(k)
      BY <3>1, <1>1 DEF IndexedIfRead
    <3>2. CASE keys[k].id = 0 /\ \E j \in Imports : ~ import[j].indexed /\ k \in import[j].keys
      <4>1. PICK j \in Imports : ~ import[j].indexed /\ k \in import[j].keys
        BY <3>2
      <4> QED BY <3>2, <4>1, <1>1, <1>4 DEF IndexedIfRead
    <3> QED BY <2>2, <3>1, <3>2, <1>0 DEF IndexInv
  <2> QED BY <2>1, <2>2, <1>2 DEF IndexInv, hasKey
<1>11. ImportInv'
  <2>1. JobInv(i)'
    <3>1. /\ import'[i].stage = "encrypting" => ~ import'[i].stored
          /\ import'[i].stage = "success" => import'[i].stored /\ import'[i].indexed
      BY <1>0, <1>1, <1>5 DEF JobInv
    <3>2. \A k \in import'[i].keys : IndexedIfRead(k)'
      BY <1>1, <1>5 DEF IndexedIfRead
    <3>3. ASSUME NEW k \in job.keys \ LoginKeys, import'[i].stage \in {"storing", "success"}
          PROVE  IF job.stored THEN Stored(k)' \/ k \in harmed'
                 ELSE \E m \in 1..Len(queue') : queue'[m].by = i /\ Safe(k, m)'
      <4>1. IF job.stored THEN Stored(k) \/ k \in harmed
            ELSE \E m \in 1..Len(queue) : queue[m].by = i /\ Safe(k, m)
        BY <3>3, <1>0, <1>5 DEF JobInv
      <4> QED BY <4>1, <1>2 DEF Stored, Safe, Queued
    <3> QED BY <3>1, <3>2, <3>3, <1>5 DEF JobInv
  <2>2. \A k \in Keys : IndexedIfRead(k) => IndexedIfRead(k)'
    BY <1>1 DEF IndexedIfRead
  <2>3. \A j \in Imports : j # i => JobInv(j)'
    BY <2>2, <1>0, <1>1, <1>2, <1>4, JobStutter DEF ImportInv
  <2> QED BY <2>1, <2>3 DEF ImportInv
<1> QED BY <1>7, <1>9, <1>10, <1>11 DEF KeyStoreInv

\* The records of a finite set of keys are finitely many.
LEMMA PutsFinite ==
    ASSUME NEW S \in SUBSET Keys
    PROVE  LET puts == {[id |-> 0, pubkey |-> k, encrypted |-> TRUE] : k \in S}
           IN  /\ IsFiniteSet(puts) /\ puts \in SUBSET Record
               /\ \A p \in puts : p.encrypted
               /\ \A k \in S : \E p \in puts : p.pubkey = k /\ p.encrypted
<1> DEFINE put(k) == [id |-> 0, pubkey |-> k, encrypted |-> TRUE]
           puts   == {put(k) : k \in S}
           f      == [k \in S |-> put(k)]
<1>1. IsFiniteSet(S)
  BY KeyStoreAssumption, FS_Subset
<1>2. f \in Surjection(S, puts)
  <2>1. f \in [S -> puts] /\ \A p \in puts : \E k \in S : f[k] = p
    OBVIOUS
  <2> HIDE DEF f, puts
  <2> QED BY <2>1, Fun_IsSurj
<1>3. IsFiniteSet(puts)
  <2> HIDE DEF f, puts
  <2> QED BY <1>1, <1>2, FS_Surjection
<1>4. puts \in SUBSET Record
  <2>1. \A k \in S : put(k) \in Record
    BY DEF Record
  <2> QED BY <2>1
<1>5. /\ \A p \in puts : p.encrypted
      /\ \A k \in S : \E p \in puts : p.pubkey = k /\ p.encrypted
  <2>1. \A k \in S : put(k) \in puts /\ put(k).pubkey = k /\ put(k).encrypted
    OBVIOUS
  <2>2. \A p \in puts : \E k \in S : p = put(k)
    OBVIOUS
  <2> QED BY <2>1, <2>2
<1> QED BY <1>3, <1>4, <1>5

\* The AES worker has answered: the new keys are in RAM and in a transaction.
LEMMA EncryptedStep ==
    ASSUME KeyStoreInv, NEW i \in Imports, Encrypted(i)
    PROVE  KeyStoreInv'
<1> DEFINE job  == import[i]
           new  == {k \in job.keys : ~ hasKey(k)}
           puts == {[id |-> 0, pubkey |-> k, encrypted |-> TRUE] : k \in new}
           tx   == [kind |-> "import", by |-> i, puts |-> puts]
<1>0. /\ TypeOK /\ CountIsOutstanding /\ QueueInv /\ LoginInv /\ ShownInv /\ IndexInv
      /\ ImportInv /\ JobInv(i) /\ job \in Import /\ queue \in Seq(Transaction)
  BY DEF KeyStoreInv, ImportInv, TypeOK
<1>1. /\ queue' = Append(queue, tx)
      /\ keys' = [k \in Keys |-> IF k \in new THEN [id |-> 0, encrypted |-> TRUE] ELSE keys[k]]
      /\ import' = [import EXCEPT ![i].stage = "storing"]
      /\ job.stage = "encrypting"
      /\ UNCHANGED <<disk, nextId, count, stateCount, failed, harmed, map, awaiting, indexed,
                     saved, saveTimer>>
  BY DEF Encrypted, indexVars
<1>2. /\ job.keys \subseteq Keys /\ new \in SUBSET Keys /\ i # NoImport
      /\ ~ job.stored /\ (job.indexed => \A k \in job.keys : IndexedIfRead(k))
  BY <1>0, <1>1, KeyStoreAssumption DEF Import, JobInv
<1>3. /\ IsFiniteSet(puts) /\ puts \in SUBSET Record
      /\ \A p \in puts : p.encrypted
      /\ \A k \in new : \E p \in puts : p.pubkey = k /\ p.encrypted
  BY <1>2, PutsFinite
<1> HIDE DEF new, puts
<1>4. tx \in Transaction /\ tx.kind = "import" /\ tx.by = i /\ tx.puts = puts
  BY <1>3 DEF Transaction
<1> HIDE DEF tx
<1>5. /\ queue' \in Seq(Transaction)
      /\ Len(queue) \in Nat /\ Len(queue') = Len(queue) + 1
      /\ \A n \in 1..Len(queue) : queue'[n] = queue[n]
      /\ queue'[Len(queue) + 1] = tx
  BY <1>0, <1>1, <1>4, Push
<1>6. /\ import'[i] = [job EXCEPT !.stage = "storing"]
      /\ \A j \in Imports : j # i => import'[j] = import[j]
  BY <1>0, <1>1 DEF TypeOK
<1>7. /\ import'[i] \in Import /\ import'[i].keys = job.keys /\ ~ import'[i].stored
      /\ import'[i].indexed = job.indexed /\ import'[i].stage = "storing"
  BY <1>0, <1>2, <1>6 DEF Import
<1>8. \A k \in Keys : IF k \in new THEN keys'[k] = [id |-> 0, encrypted |-> TRUE]
                      ELSE keys'[k] = keys[k]
  BY <1>1
<1>9. TypeOK'
  <2>1. keys' \in [Keys -> Entry \cup {NoEntry}]
    <3>1. [id |-> 0, encrypted |-> TRUE] \in Entry
      BY DEF Entry
    <3> QED BY <3>1, <1>0, <1>1 DEF TypeOK
  <2>2. import' \in [Imports -> Import]
    BY <1>0, <1>1, <1>6, <1>7 DEF TypeOK
  <2> QED BY <2>1, <2>2, <1>0, <1>1, <1>5 DEF TypeOK
<1>10. CountIsOutstanding'
  BY <1>0, <1>1, <1>4, CountOther
<1>11. QueueInv'
  <2>1. WaitingKept
    BY <1>1, <1>6 DEF WaitingKept
  <2> QED BY <2>1, <1>0, <1>1, <1>3, <1>4, <1>7, QueuePush
<1>12. LoginInv'
  <2>1. \A k \in Keys : hasKey(k)' /\ ~ keys'[k].encrypted => k \in LoginKeys
    BY <1>0, <1>8 DEF LoginInv, hasKey
  <2>2. \A n \in 1..Len(queue') : \A p \in queue'[n].puts :
            ~ p.encrypted => p.pubkey \in LoginKeys
    BY <1>0, <1>3, <1>4, <1>5 DEF LoginInv
  <2> QED BY <2>1, <2>2, <1>0, <1>1 DEF LoginInv
<1>13. ShownInv'
  <2>1. ASSUME NEW k \in Keys, hasKey(k)', keys'[k].encrypted
        PROVE  Safe(k, Len(queue)) \/ \E p \in tx.puts : p.pubkey = k /\ p.encrypted
    <3>1. CASE k \in new
      BY <3>1, <1>3, <1>4
    <3>2. CASE k \notin new
      BY <3>2, <2>1, <1>0, <1>8 DEF ShownInv, hasKey
    <3> QED BY <3>1, <3>2
  <2> QED BY <2>1, <1>0, <1>1, <1>4, ShownPush
<1>14. IndexInv'
  <2>1. ASSUME NEW k \in Keys, hasKey(k)', keys'[k].encrypted
        PROVE  \/ IndexedIfRead(k)'
               \/ /\ keys'[k].id = 0
                  /\ \E j \in Imports : ~ import'[j].indexed /\ k \in import'[j].keys
    <3>1. CASE k \in new
      <4>1. k \in job.keys /\ keys'[k].id = 0
        BY <3>1, <1>8 DEF new
      <4> QED BY <4>1, <1>1, <1>2, <1>7 DEF IndexedIfRead
    <3>2. CASE k \notin new
      <4>1. keys'[k] = keys[k]
        BY <3>2, <1>8
      <4>2. \/ IndexedIfRead(k)
            \/ /\ keys[k].id = 0
               /\ \E j \in Imports : ~ import[j].indexed /\ k \in import[j].keys
        BY <2>1, <4>1, <1>0 DEF IndexInv, hasKey
      <4>3. \A j \in Imports : import'[j].indexed = import[j].indexed
                               /\ import'[j].keys = import[j].keys
        BY <1>6, <1>7
      <4> QED BY <4>1, <4>2, <4>3, <1>1 DEF IndexedIfRead
    <3> QED BY <3>1, <3>2
  <2> QED BY <2>1, <1>0, <1>1 DEF IndexInv
<1>15. ImportInv'
  <2>1. JobInv(i)'
    <3>1. ASSUME NEW k \in job.keys \ LoginKeys
          PROVE  \E m \in 1..Len(queue') : queue'[m].by = i /\ Safe(k, m)'
      <4>0. k \in Keys
        BY <3>1, <1>2
      <4>1. PICK n \in Nat : n = Len(queue) + 1
        BY <1>5
      <4>2. n \in 1..Len(queue') /\ queue'[n].by = i
        BY <4>1, <1>4, <1>5
      <4>3. CASE k \in new
        <5>1. \E p \in tx.puts : p.pubkey = k /\ p.encrypted
          BY <4>3, <1>3, <1>4
        <5>2. Safe(k, n)'
          BY <5>1, <4>0, <4>1, <1>0, <1>1, <1>4, SafePush
        <5> QED BY <5>2, <4>2
      <4>4. CASE k \notin new
        <5>1. Safe(k, Len(queue))
          BY <4>4, <4>0, <3>1, <1>0 DEF new, hasKey, LoginInv, ShownInv
        <5>2. Len(queue) \in 0..Len(queue) /\ Len(queue) <= n
          BY <4>1, <1>5
        <5>3. Safe(k, n)'
          BY <5>1, <5>2, <4>0, <4>1, <1>0, <1>1, <1>4, SafePush
        <5> QED BY <5>3, <4>2
      <4> QED BY <4>3, <4>4
    <3> QED BY <3>1, <1>1, <1>2, <1>7 DEF JobInv, IndexedIfRead
  <2>2. \A j \in Imports : j # i => JobInv(j)'
    BY <1>0, <1>1, <1>4, <1>6, JobPush DEF ImportInv, IndexedIfRead
  <2> QED BY <2>1, <2>2 DEF ImportInv
<1> QED BY <1>9, <1>10, <1>11, <1>12, <1>13, <1>14, <1>15 DEF KeyStoreInv

\* The account names of a key are put.
LEMMA UpdateStep ==
    ASSUME KeyStoreInv, NEW i \in Imports, NEW k \in Keys, updateImportedKeyAccounts(i, k)
    PROVE  KeyStoreInv'
<1> DEFINE job == [keys |-> {k}, stage |-> "storing", stored |-> FALSE, indexed |-> TRUE]
           put == [id |-> keys[k].id, pubkey |-> k, encrypted |-> keys[k].encrypted]
           tx  == [kind |-> "update", by |-> i, puts |-> {put}]
<1>0. /\ TypeOK /\ CountIsOutstanding /\ QueueInv /\ LoginInv /\ ShownInv /\ IndexInv
      /\ ImportInv /\ queue \in Seq(Transaction) /\ keys[k] \in Entry \cup {NoEntry}
  BY DEF KeyStoreInv, TypeOK
<1>1. /\ queue' = Append(queue, tx)
      /\ import' = [import EXCEPT ![i] = job]
      /\ Free(i) /\ hasKey(k) /\ import[i].stage # "storing" /\ import[i].indexed
      /\ UNCHANGED <<keys, disk, nextId, count, stateCount, failed, harmed, map, awaiting,
                     indexed, saved, saveTimer>>
  BY DEF updateImportedKeyAccounts, indexVars, Free
<1>2. keys[k] \in Entry /\ i # NoImport
  BY <1>0, <1>1, KeyStoreAssumption DEF hasKey
<1>3. /\ put \in Record /\ put.pubkey = k
      /\ put.id = keys[k].id /\ put.encrypted = keys[k].encrypted
  BY <1>2 DEF Entry, Record
<1> HIDE DEF put
<1>4. tx \in Transaction /\ tx.kind = "update" /\ tx.by = i /\ tx.puts = {put}
  BY <1>3 DEF Transaction
<1> HIDE DEF tx
<1>5. /\ queue' \in Seq(Transaction)
      /\ Len(queue) \in Nat /\ Len(queue') = Len(queue) + 1
      /\ \A n \in 1..Len(queue) : queue'[n] = queue[n]
      /\ queue'[Len(queue) + 1] = tx
  BY <1>0, <1>1, <1>4, Push
<1>6. import'[i] = job /\ \A j \in Imports : j # i => import'[j] = import[j]
  BY <1>0, <1>1 DEF TypeOK
<1>7. /\ job \in Import /\ job.keys = {k} /\ job.stage = "storing"
      /\ ~ job.stored /\ job.indexed
  BY DEF Import
<1> HIDE DEF job
<1>8. keys[k].encrypted => Safe(k, Len(queue))
  BY <1>0, <1>1 DEF ShownInv
<1>9. ~ keys[k].encrypted => k \in LoginKeys
  BY <1>0, <1>1 DEF LoginInv
<1>10. TypeOK'
  <2>1. import' \in [Imports -> Import]
    BY <1>0, <1>1, <1>7 DEF TypeOK
  <2> QED BY <2>1, <1>0, <1>1, <1>5 DEF TypeOK
<1>11. CountIsOutstanding'
  BY <1>0, <1>1, <1>4, CountOther
<1>12. QueueInv'
  <2>1. WaitingKept
    BY <1>1, <1>6 DEF WaitingKept
  <2>2. IsFiniteSet(tx.puts)
    BY <1>4, FS_Singleton
  <2>3. \A p \in tx.puts : p.pubkey \in LoginKeys \/ Safe(p.pubkey, Len(queue))
    BY <1>3, <1>4, <1>8, <1>9
  <2> QED BY <2>1, <2>2, <2>3, <1>0, <1>1, <1>4, <1>6, <1>7, QueuePush
<1>13. LoginInv'
  BY <1>0, <1>1, <1>3, <1>4, <1>5, <1>9 DEF LoginInv, hasKey
<1>14. ShownInv'
  BY <1>0, <1>1, <1>4, ShownPush DEF ShownInv, hasKey
<1>15. IndexInv'
  <2>1. \A j \in Imports : ~ import[j].indexed =>
            import'[j] = import[j]
    BY <1>1, <1>6
  <2> QED BY <2>1, <1>0, <1>1 DEF IndexInv, IndexedIfRead, hasKey
<1>16. ImportInv'
  <2>1. ASSUME k \notin LoginKeys
        PROVE  \E m \in 1..Len(queue') : queue'[m].by = i /\ Safe(k, m)'
    <3>1. PICK n \in Nat : n = Len(queue) + 1
      BY <1>5
    <3>2. n \in 1..Len(queue') /\ queue'[n].by = i
      BY <3>1, <1>4, <1>5
    <3>3. Safe(k, Len(queue)) /\ Len(queue) \in 0..Len(queue) /\ Len(queue) <= n
      BY <2>1, <3>1, <1>5, <1>8, <1>9
    <3>4. Safe(k, n)'
      BY <3>1, <3>3, <1>0, <1>1, <1>4, SafePush
    <3> QED BY <3>2, <3>4
  <2>2. ASSUME k \notin LoginKeys
        PROVE  IndexedIfRead(k)' \/ Unsure(i, k)'
    <3>1. \/ IndexedIfRead(k)
          \/ keys[k].id = 0
      BY <2>2, <1>0, <1>1, <1>9 DEF IndexInv
    <3>2. CASE IndexedIfRead(k)
      BY <3>2, <1>1 DEF IndexedIfRead
    <3>3. CASE keys[k].id = 0
      <4>1. PICK n \in Nat : n = Len(queue) + 1
        BY <1>5
      <4>2. /\ n \in 1..Len(queue') /\ queue'[n].by = i /\ queue'[n].kind = "update"
            /\ \E p \in queue'[n].puts : p.pubkey = k /\ p.id = 0
        BY <3>3, <4>1, <1>3, <1>4, <1>5
      <4> QED BY <4>2 DEF Unsure
    <3> QED BY <3>1, <3>2, <3>3
  <2>3. JobInv(i)'
    BY <2>1, <2>2, <1>6, <1>7 DEF JobInv
  <2>4. \A j \in Imports : j # i => JobInv(j)'
    BY <1>0, <1>1, <1>4, <1>6, JobPush DEF ImportInv, IndexedIfRead
  <2> QED BY <2>3, <2>4 DEF ImportInv
<1> QED BY <1>10, <1>11, <1>12, <1>13, <1>14, <1>15, <1>16 DEF KeyStoreInv

\* What RAM shows is safe as before, when a transaction ends that does not change RAM.
LEMMA ShownPop ==
    ASSUME TypeOK, QueueInv, LoginInv, ShownInv, keys' = keys,
           Complete \/ (\E told \in BOOLEAN : Abort(told))
    PROVE  ShownInv'
<1>1. queue \in Seq(Transaction) /\ queue # <<>> /\ queue' = Tail(queue)
  BY DEF TypeOK, Complete, Abort
<1>2. Len(queue) \in Nat \ {0} /\ Len(queue') = Len(queue) - 1
  BY <1>1, Pop
<1>3. ASSUME NEW k \in Keys, hasKey(k)', keys'[k].encrypted
      PROVE  Safe(k, Len(queue))'
  <2>1. PICK n \in Nat : n = Len(queue)
    BY <1>2
  <2>2. Safe(k, n)
    BY <1>3, <2>1 DEF ShownInv, hasKey
  <2>3. n \in 0..Len(queue) /\ n - 1 = Len(queue')
    BY <1>2, <2>1
  <2>4. Safe(k, n - 1)'
    BY <2>2, <2>3, SafePop
  <2> QED BY <2>3, <2>4 DEF Safe, Queued
<1> QED BY <1>3 DEF ShownInv

\* The outstanding operations, when a transaction ends that is not a load.
LEMMA CountEnd ==
    ASSUME TypeOK, CountIsOutstanding, queue # <<>>, queue' = Tail(queue),
           queue[1].kind # "load",
           IF queue[1].kind = "add" THEN pendingOperationDone ELSE UNCHANGED <<count, stateCount>>
    PROVE  CountIsOutstanding' /\ count' \in Nat /\ stateCount' \in Nat
<1>0. /\ queue \in Seq(Transaction) /\ queue' \in Seq(Transaction)
      /\ Len(queue) \in Nat \ {0} /\ Len(queue') = Len(queue) - 1
      /\ \A n \in 1..Len(queue') : queue'[n] = queue[n + 1]
  BY Pop DEF TypeOK
<1>1. Cardinality(CountedIn(queue')) =
          Cardinality(CountedIn(queue)) - (IF queue[1].kind \in {"load", "add"} THEN 1 ELSE 0)
  BY <1>0, CountPop
<1>2. Cardinality(CountedIn(queue)) \in Nat /\ Cardinality(CountedIn(queue')) \in Nat
  BY <1>0, CountedFinite
<1>3. count = Cardinality(CountedIn(queue))
  BY DEF CountIsOutstanding, Counted, CountedIn
<1>4. count' = Cardinality(CountedIn(queue'))
  BY <1>1, <1>2, <1>3 DEF pendingOperationDone
<1>5. count' = Cardinality(Counted') /\ count' \in Nat
  BY <1>2, <1>4 DEF Counted, CountedIn
<1>6. CASE queue[1].kind = "add"
  BY <1>5, <1>6 DEF CountIsOutstanding, pendingOperationDone
<1>7. CASE queue[1].kind # "add"
  <2>1. UNCHANGED <<count, stateCount>> /\ stateCount' \in Nat
    BY <1>7 DEF TypeOK
  <2>2. CASE stateCount = count
    BY <1>5, <2>1, <2>2 DEF CountIsOutstanding
  <2>3. CASE stateCount # count
    <3>1. PICK n \in Counted : queue[n].kind = "load" /\ \A m \in Counted : m <= n
      BY <2>3 DEF CountIsOutstanding
    <3>2. stateCount' = 0
      BY <2>1, <2>3 DEF CountIsOutstanding
    <3>3. n \in 2..Len(queue)
      BY <3>1, <1>0 DEF Counted
    <3>4. n - 1 \in 1..Len(queue') /\ queue'[n - 1] = queue[n]
      BY <3>3, <1>0
    <3>5. n - 1 \in Counted' /\ queue'[n - 1].kind = "load"
      BY <3>1, <3>4 DEF Counted
    <3>6. \A m \in Counted' : m + 1 \in Counted /\ m \in Nat
      BY <1>0 DEF Counted
    <3>7. \A m \in Counted' : m <= n - 1
      BY <3>1, <3>3, <3>6
    <3> QED BY <1>5, <3>2, <3>5, <3>7, <2>1 DEF CountIsOutstanding
  <2> QED BY <2>2, <2>3
<1> QED BY <1>6, <1>7

\* A transaction completes.
LEMMA CompleteStep == KeyStoreInv /\ Complete => KeyStoreInv'
<1> SUFFICES ASSUME KeyStoreInv, Complete PROVE KeyStoreInv'
  OBVIOUS
<1>0. /\ TypeOK /\ CountIsOutstanding /\ QueueInv /\ LoginInv /\ ShownInv /\ IndexInv
      /\ ImportInv /\ queue \in Seq(Transaction)
  BY DEF KeyStoreInv, TypeOK
<1>1. queue # <<>> /\ queue' = Tail(queue) /\ Head(queue).kind # "load"
  BY DEF Complete
<1>2. /\ queue' \in Seq(Transaction)
      /\ Len(queue) \in Nat \ {0} /\ Len(queue') = Len(queue) - 1
      /\ Head(queue) = queue[1] /\ queue[1] \in Transaction
      /\ \A n \in 1..Len(queue') : queue'[n] = queue[n + 1]
  BY <1>0, <1>1, Pop
<1> DEFINE tx == queue[1]
<1>3. /\ ~ Conflict(tx.puts)
      /\ IF tx.kind = "add" THEN pendingOperationDone ELSE UNCHANGED <<count, stateCount>>
      /\ import' = Finished(tx, TRUE)
      /\ tx.kind # "load"
      /\ UNCHANGED <<keys, failed, map, awaiting, indexed, saved, saveTimer>>
  BY <1>1, <1>2 DEF Complete, indexVars
<1>4. /\ disk' \subseteq Record /\ nextId' \in Nat \ {0}
      /\ harmed \subseteq harmed' /\ harmed' \subseteq Keys
      /\ \A r \in disk' : \/ r \in disk
                          \/ /\ r.id # 0
                             /\ \E p \in tx.puts : /\ p.pubkey = r.pubkey
                                                   /\ p.encrypted = r.encrypted
      /\ \A k \in Keys : Stored(k) => Stored(k)' \/ k \in harmed'
  BY <1>0, CompleteStores
<1>5. /\ tx.puts \subseteq Record /\ tx.by \in Imports \cup {NoImport} /\ 1 \in 1..Len(queue)
  BY <1>2 DEF Transaction
<1>6. CountIsOutstanding' /\ count' \in Nat /\ stateCount' \in Nat
  BY <1>0, <1>1, <1>3, CountEnd
<1>7. ASSUME NEW i \in Imports, i = tx.by
      PROVE  /\ import[i] \in Import /\ import[i].stage = "storing" /\ ~ import[i].stored
             /\ import'[i] \in Import /\ import'[i].stored
             /\ import'[i].keys = import[i].keys /\ import'[i].indexed = import[i].indexed
             /\ import'[i].stage = IF import[i].indexed THEN "success" ELSE "storing"
  <2>1. import[i] \in Import /\ import[i].stage = "storing" /\ ~ import[i].stored
    BY <1>0, <1>5, <1>7, KeyStoreAssumption DEF TypeOK, QueueInv
  <2> DEFINE job == [import[i] EXCEPT !.stored = TRUE]
  <2>2. import'[i] = Settled(job)
    BY <1>0, <1>3, <1>7, KeyStoreAssumption DEF Finished, TypeOK
  <2>3. /\ job \in Import /\ job.stored /\ job.keys = import[i].keys
        /\ job.indexed = import[i].indexed /\ job.stage = "storing"
    BY <2>1 DEF Import
  <2> HIDE DEF job
  <2> QED BY <2>1, <2>2, <2>3, SettledFacts
<1>8. \A i \in Imports : i # tx.by => import'[i] = import[i]
  BY <1>0, <1>3, <1>5 DEF Finished, TypeOK
<1>9. TypeOK'
  <2>1. import' \in [Imports -> Import]
    <3>1. CASE tx.by = NoImport
      BY <3>1, <1>0, <1>3 DEF Finished, TypeOK
    <3>2. CASE tx.by # NoImport
      <4>1. tx.by \in Imports /\ import'[tx.by] \in Import
        BY <3>2, <1>5, <1>7
      <4>2. import' = [import EXCEPT ![tx.by] = import'[tx.by]]
        BY <3>2, <4>1, <1>0, <1>3 DEF Finished, TypeOK
      <4> QED BY <4>1, <4>2, <1>0 DEF TypeOK
    <3> QED BY <3>1, <3>2
  <2> QED BY <2>1, <1>0, <1>2, <1>3, <1>4, <1>6 DEF TypeOK
<1>10. QueueInv'
  BY <1>0, <1>8, QueuePop
<1>11. LoginInv'
  <2>1. \A r \in disk' : r.id # 0 /\ (~ r.encrypted => r.pubkey \in LoginKeys)
    BY <1>0, <1>4, <1>5 DEF LoginInv
  <2>2. \A n \in 1..Len(queue') : \A p \in queue'[n].puts :
            ~ p.encrypted => p.pubkey \in LoginKeys
    <3> TAKE n \in 1..Len(queue')
    <3>1. n + 1 \in 1..Len(queue) /\ queue'[n] = queue[n + 1]
      BY <1>2
    <3> QED BY <3>1, <1>0 DEF LoginInv
  <2> QED BY <2>1, <2>2, <1>0, <1>3 DEF LoginInv, hasKey
<1>12. ShownInv'
  BY <1>0, <1>3, ShownPop
<1>13. IndexInv'
  <2>1. \A j \in Imports : import'[j].indexed = import[j].indexed
                           /\ import'[j].keys = import[j].keys
    BY <1>7, <1>8
  <2> QED BY <2>1, <1>0, <1>3 DEF IndexInv, IndexedIfRead, hasKey
<1>14. ASSUME NEW i \in Imports, i = tx.by
       PROVE  JobInv(i)'
  <2>1. JobInv(i) /\ import[i].keys \subseteq Keys
    BY <1>0, <1>7, <1>14 DEF ImportInv, Import
  <2>2. \A m \in 1..Len(queue) : queue[m].by = i => m = 1
    BY <1>0, <1>5, <1>14, KeyStoreAssumption DEF QueueInv
  <2>3. ASSUME NEW k \in import[i].keys \ LoginKeys
        PROVE  Stored(k)' \/ k \in harmed'
    <3>1. Safe(k, 1)
      BY <2>1, <2>2, <2>3, <1>7, <1>14 DEF JobInv
    <3>2. 1 \in 0..Len(queue) /\ 1 - 1 = 0
      BY <1>2
    <3>3. Safe(k, 0)'
      BY <3>1, <3>2, <2>1, <1>0, SafePop
    <3> QED BY <3>3 DEF Safe, Queued
  <2>4. ASSUME NEW k \in import[i].keys \ LoginKeys, import[i].indexed
        PROVE  k \in harmed' \/ IndexedIfRead(k)'
    <3>1. k \in harmed \/ IndexedIfRead(k) \/ Unsure(i, k)
      BY <2>1, <2>4, <1>7, <1>14 DEF JobInv
    <3>2. ASSUME Unsure(i, k)
          PROVE  k \in harmed
      <4>1. tx.kind = "update" /\ \E p \in tx.puts : p.pubkey = k /\ p.id = 0
        BY <2>2, <3>2 DEF Unsure
      <4>2. PICK p \in tx.puts : p.pubkey = k /\ p.id = 0
        BY <4>1
      <4>3. Safe(k, 1 - 1)
        BY <4>1, <4>2, <2>4, <1>0, <1>5 DEF QueueInv
      <4>4. Stored(k) \/ k \in harmed
        BY <4>3 DEF Safe, Queued
      <4>5. ~ Stored(k)
        BY <4>2, <1>0, <1>3 DEF Stored, Conflict, LoginInv
      <4> QED BY <4>4, <4>5
    <3> QED BY <3>1, <3>2, <1>3, <1>4 DEF IndexedIfRead
  <2> QED BY <2>3, <2>4, <1>7, <1>14 DEF JobInv
<1>15. ASSUME NEW i \in Imports, i # tx.by
       PROVE  JobInv(i)'
  BY <1>0, <1>3, <1>8, <1>15, JobPop DEF ImportInv, IndexedIfRead
<1>16. ImportInv'
  BY <1>14, <1>15 DEF ImportInv
<1> QED BY <1>6, <1>9, <1>10, <1>11, <1>12, <1>13, <1>16 DEF KeyStoreInv

\* A transaction is aborted.
LEMMA AbortStep == ASSUME KeyStoreInv, NEW told \in BOOLEAN, Abort(told) PROVE KeyStoreInv'
<1>0. /\ TypeOK /\ CountIsOutstanding /\ QueueInv /\ LoginInv /\ ShownInv /\ IndexInv
      /\ ImportInv /\ queue \in Seq(Transaction)
  BY DEF KeyStoreInv, TypeOK
<1>1. queue # <<>> /\ queue' = Tail(queue) /\ Head(queue).kind # "load"
  BY DEF Abort
<1>2. /\ queue' \in Seq(Transaction)
      /\ Len(queue) \in Nat \ {0} /\ Len(queue') = Len(queue) - 1
      /\ Head(queue) = queue[1] /\ queue[1] \in Transaction
      /\ \A n \in 1..Len(queue') : queue'[n] = queue[n + 1]
  BY <1>0, <1>1, Pop
<1> DEFINE tx == queue[1]
<1>3. /\ failed' \in BOOLEAN
      /\ IF tx.kind = "add" THEN pendingOperationDone ELSE UNCHANGED <<count, stateCount>>
      /\ harmed' = harmed \cup Pubkeys(tx.puts)
      /\ import' = Finished(tx, FALSE)
      /\ tx.kind # "load"
      /\ UNCHANGED <<keys, disk, nextId, map, awaiting, indexed, saved, saveTimer>>
  BY <1>1, <1>2 DEF Abort, indexVars
<1>4. tx.puts \subseteq Record /\ tx.by \in Imports \cup {NoImport} /\ 1 \in 1..Len(queue)
  BY <1>2 DEF Transaction
<1>5. harmed' \subseteq Keys
  BY <1>0, <1>3, <1>4 DEF TypeOK, Pubkeys, Record
<1>6. CountIsOutstanding' /\ count' \in Nat /\ stateCount' \in Nat
  BY <1>0, <1>1, <1>3, CountEnd
<1>7. ASSUME NEW i \in Imports, i = tx.by
      PROVE  /\ import'[i] \in Import /\ import'[i].stage = "error"
             /\ import'[i].keys = import[i].keys /\ import'[i].indexed = import[i].indexed
  <2>1. import[i] \in Import
    BY <1>0 DEF TypeOK
  <2>2. import'[i] = [import[i] EXCEPT !.stage = "error"]
    BY <1>0, <1>3, <1>7, KeyStoreAssumption DEF Finished, TypeOK
  <2> QED BY <2>1, <2>2 DEF Import
<1>8. \A i \in Imports : i # tx.by => import'[i] = import[i]
  BY <1>0, <1>3, <1>4 DEF Finished, TypeOK
<1>9. TypeOK'
  <2>1. import' \in [Imports -> Import]
    <3>1. CASE tx.by = NoImport
      BY <3>1, <1>0, <1>3 DEF Finished, TypeOK
    <3>2. CASE tx.by # NoImport
      <4>1. tx.by \in Imports /\ import'[tx.by] \in Import
        BY <3>2, <1>4, <1>7
      <4>2. import' = [import EXCEPT ![tx.by] = import'[tx.by]]
        BY <3>2, <4>1, <1>0, <1>3 DEF Finished, TypeOK
      <4> QED BY <4>1, <4>2, <1>0 DEF TypeOK
    <3> QED BY <3>1, <3>2
  <2> QED BY <2>1, <1>0, <1>2, <1>3, <1>5, <1>6 DEF TypeOK
<1>10. QueueInv'
  BY <1>0, <1>8, QueuePop
<1>11. LoginInv'
  <2>1. \A n \in 1..Len(queue') : \A p \in queue'[n].puts :
            ~ p.encrypted => p.pubkey \in LoginKeys
    <3> TAKE n \in 1..Len(queue')
    <3>1. n + 1 \in 1..Len(queue) /\ queue'[n] = queue[n + 1]
      BY <1>2
    <3> QED BY <3>1, <1>0 DEF LoginInv
  <2> QED BY <2>1, <1>0, <1>3 DEF LoginInv, hasKey
<1>12. ShownInv'
  BY <1>0, <1>3, ShownPop
<1>13. IndexInv'
  <2>1. \A j \in Imports : import'[j].indexed = import[j].indexed
                           /\ import'[j].keys = import[j].keys
    BY <1>7, <1>8
  <2> QED BY <2>1, <1>0, <1>3 DEF IndexInv, IndexedIfRead, hasKey
<1>14. ImportInv'
  <2>1. \A i \in Imports : i = tx.by => JobInv(i)'
    BY <1>7 DEF JobInv
  <2>2. \A i \in Imports : i # tx.by => JobInv(i)'
    BY <1>0, <1>3, <1>8, JobPop DEF ImportInv, IndexedIfRead
  <2> QED BY <2>1, <2>2 DEF ImportInv
<1> QED BY <1>6, <1>9, <1>10, <1>11, <1>12, <1>13, <1>14 DEF KeyStoreInv

\* What RAM shows after a load is what the disk holds.
LEMMA EntriesAreStored ==
    ASSUME disk \subseteq Record, LoginInv
    PROVE  /\ EntriesOf(disk) \in [Keys -> Entry \cup {NoEntry}]
           /\ \A k \in Keys : EntriesOf(disk)[k] # NoEntry =>
                 /\ k \in Pubkeys(disk)
                 /\ EntriesOf(disk)[k].encrypted => Stored(k)
                 /\ ~ EntriesOf(disk)[k].encrypted => k \in LoginKeys
<1> DEFINE found(k) == CHOOSE r \in disk : r.pubkey = k
           entry(k) == [id |-> found(k).id, encrypted |-> found(k).encrypted]
<1>1. ASSUME NEW k \in Keys, k \in Pubkeys(disk)
      PROVE  /\ found(k) \in disk /\ found(k).pubkey = k
             /\ entry(k) \in Entry /\ entry(k).encrypted = found(k).encrypted
  <2>1. \E r \in disk : r.pubkey = k
    BY <1>1 DEF Pubkeys
  <2>2. found(k) \in disk /\ found(k).pubkey = k
    BY <2>1
  <2> HIDE DEF found
  <2> QED BY <2>2 DEF Entry, Record
<1>2. EntriesOf(disk) = [k \in Keys |-> IF k \in Pubkeys(disk) THEN entry(k) ELSE NoEntry]
  BY DEF EntriesOf
<1> HIDE DEF entry, found
<1>3. EntriesOf(disk) \in [Keys -> Entry \cup {NoEntry}]
  BY <1>1, <1>2
<1>4. ASSUME NEW k \in Keys, EntriesOf(disk)[k] # NoEntry
      PROVE  /\ k \in Pubkeys(disk)
             /\ EntriesOf(disk)[k].encrypted => Stored(k)
             /\ ~ EntriesOf(disk)[k].encrypted => k \in LoginKeys
  <2>1. k \in Pubkeys(disk) /\ EntriesOf(disk)[k] = entry(k)
    BY <1>2, <1>4
  <2> QED BY <2>1, <1>1 DEF Stored, LoginInv
<1> QED BY <1>3, <1>4

\* The cursor has read all records, or has failed.
LEMMA LoadStep == KeyStoreInv /\ (Loaded \/ LoadError) => KeyStoreInv'
<1> SUFFICES ASSUME KeyStoreInv, Loaded \/ LoadError PROVE KeyStoreInv'
  OBVIOUS
<1>0. /\ TypeOK /\ CountIsOutstanding /\ QueueInv /\ LoginInv /\ ShownInv /\ IndexInv
      /\ ImportInv /\ queue \in Seq(Transaction) /\ disk \subseteq Record
  BY DEF KeyStoreInv, TypeOK
<1>1. /\ queue # <<>> /\ queue' = Tail(queue) /\ Head(queue).kind = "load"
      /\ count' = count - 1 /\ stateCount' = count'
      /\ UNCHANGED <<disk, nextId, harmed, import>>
  BY DEF Loaded, LoadError, pendingOperationDone
<1>2. /\ queue' \in Seq(Transaction)
      /\ Len(queue) \in Nat \ {0} /\ Len(queue') = Len(queue) - 1
      /\ Head(queue) = queue[1] /\ queue[1] \in Transaction
      /\ \A n \in 1..Len(queue') : queue'[n] = queue[n + 1]
  BY <1>0, <1>1, Pop
<1>3. queue[1].kind = "load" /\ queue[1].by = NoImport
  BY <1>0, <1>1, <1>2 DEF QueueInv
<1>4. /\ keys' \in [Keys -> Entry \cup {NoEntry}] /\ failed' \in BOOLEAN
      /\ \A k \in Keys : keys'[k] # NoEntry =>
            /\ keys'[k].encrypted => Stored(k)
            /\ ~ keys'[k].encrypted => k \in LoginKeys
            /\ IndexedIfRead(k)'
      /\ map' \in {"unread", "reading", "read", "failed"} /\ saved' = saved
      /\ indexed' \subseteq Keys /\ awaiting' \subseteq Keys /\ saveTimer' \in BOOLEAN
      /\ \A k \in Keys : IndexedIfRead(k) => IndexedIfRead(k)'
      /\ map' # "read" => indexed' = {}
  <2>1. CASE Loaded
    <3>1. keys' = EntriesOf(disk) /\ addToIndex(Pubkeys(disk)) /\ failed' = failed
      BY <2>1 DEF Loaded
    <3>2. Pubkeys(disk) \in SUBSET Keys
      BY <1>0 DEF Pubkeys, Record
    <3>3. /\ map' \in {"unread", "reading", "read", "failed"} /\ saved' = saved
          /\ indexed' \subseteq Keys /\ awaiting' \subseteq Keys /\ saveTimer' \in BOOLEAN
          /\ \A k \in Keys : IndexedIfRead(k) \/ k \in Pubkeys(disk) => IndexedIfRead(k)'
          /\ map' # "read" => indexed' = {}
      BY <1>0, <3>1, <3>2, IndexAdded
    <3>4. failed' \in BOOLEAN
      BY <3>1, <1>0 DEF TypeOK
    <3>5. /\ EntriesOf(disk) \in [Keys -> Entry \cup {NoEntry}]
          /\ \A k \in Keys : EntriesOf(disk)[k] # NoEntry =>
                /\ k \in Pubkeys(disk)
                /\ EntriesOf(disk)[k].encrypted => Stored(k)
                /\ ~ EntriesOf(disk)[k].encrypted => k \in LoginKeys
      BY <1>0, EntriesAreStored
    <3> QED BY <3>1, <3>3, <3>4, <3>5
  <2>2. CASE LoadError
    <3>1. /\ keys' = [k \in Keys |-> NoEntry] /\ failed' = TRUE
          /\ UNCHANGED <<map, awaiting, indexed, saved, saveTimer>>
      BY <2>2 DEF LoadError, indexVars
    <3>2. failed' \in BOOLEAN
      BY <3>1
    <3>3. keys' \in [Keys -> Entry \cup {NoEntry}] /\ \A k \in Keys : keys'[k] = NoEntry
      BY <3>1
    <3> QED BY <3>1, <3>2, <3>3, <1>0 DEF TypeOK, IndexInv, IndexedIfRead
  <2> QED BY <2>1, <2>2
<1>5. CountIsOutstanding' /\ count' \in Nat
  <2>1. Cardinality(CountedIn(queue')) = Cardinality(CountedIn(queue)) - 1
    BY <1>0, <1>1, <1>3, CountPop
  <2>2. Cardinality(CountedIn(queue)) \in Nat /\ Cardinality(CountedIn(queue')) \in Nat
    BY <1>0, <1>2, CountedFinite
  <2>3. count = Cardinality(CountedIn(queue))
    BY <1>0 DEF CountIsOutstanding, Counted, CountedIn
  <2>4. count' = Cardinality(CountedIn(queue'))
    BY <1>1, <2>1, <2>2, <2>3
  <2>5. count' = Cardinality(Counted') /\ count' \in Nat
    BY <2>2, <2>4 DEF Counted, CountedIn
  <2> QED BY <2>5, <1>1 DEF CountIsOutstanding
<1>6. TypeOK'
  BY <1>0, <1>1, <1>2, <1>4, <1>5 DEF TypeOK
<1>7. QueueInv'
  BY <1>0, <1>1, QueuePop
<1>8. LoginInv'
  <2>1. \A n \in 1..Len(queue') : \A p \in queue'[n].puts :
            ~ p.encrypted => p.pubkey \in LoginKeys
    <3> TAKE n \in 1..Len(queue')
    <3>1. n + 1 \in 1..Len(queue) /\ queue'[n] = queue[n + 1]
      BY <1>2
    <3> QED BY <3>1, <1>0 DEF LoginInv
  <2> QED BY <2>1, <1>0, <1>1, <1>4 DEF LoginInv, hasKey
<1>9. ShownInv'
  <2>1. \A k \in Keys : Stored(k) => Stored(k)'
    BY <1>1 DEF Stored
  <2> QED BY <2>1, <1>4 DEF ShownInv, Safe, hasKey
<1>10. IndexInv'
  BY <1>4 DEF IndexInv, hasKey
<1>11. ImportInv'
  <2> SUFFICES ASSUME NEW i \in Imports PROVE JobInv(i)'
    BY DEF ImportInv
  <2>1. queue[1].by # i
    BY <1>3, KeyStoreAssumption
  <2> QED BY <2>1, <1>0, <1>1, <1>4, JobPop DEF ImportInv
<1> QED BY <1>5, <1>6, <1>7, <1>8, <1>9, <1>10, <1>11 DEF KeyStoreInv

\* The page is closed.
LEMMA ReloadStep == KeyStoreInv /\ Reload => KeyStoreInv'
<1> SUFFICES ASSUME KeyStoreInv, Reload PROVE KeyStoreInv'
  OBVIOUS
<1>0. TypeOK /\ LoginInv
  BY DEF KeyStoreInv
<1>1. /\ keys' = [k \in Keys |-> NoEntry] /\ queue' = <<>> /\ count' = 0 /\ stateCount' = 0
      /\ map' = "unread" /\ awaiting' = {} /\ indexed' = {}
      /\ import' = [i \in Imports |-> Idle]
      /\ UNCHANGED <<disk, nextId, harmed, saved>>
  BY DEF Reload
<1>2. queue' \in Seq(Transaction) /\ Len(queue') = 0
  BY <1>1, EmptySeq
<1>3. Idle \in Import
  BY DEF Idle, Import
<1>4. TypeOK'
  <2>1. keys' \in [Keys -> Entry \cup {NoEntry}] /\ import' \in [Imports -> Import]
    BY <1>1, <1>3
  <2>2. failed' \in BOOLEAN /\ saveTimer' \in BOOLEAN
    BY Zenon DEF Reload
  <2> QED BY <2>1, <2>2, <1>0, <1>1, <1>2 DEF TypeOK
<1>5. CountIsOutstanding'
  <2>1. Counted' = {}
    BY <1>2 DEF Counted
  <2> QED BY <2>1, <1>1, FS_EmptySet DEF CountIsOutstanding
<1>6. QueueInv' /\ ShownInv' /\ IndexInv' /\ LoginInv'
  BY <1>0, <1>1, <1>2 DEF QueueInv, LoginInv, ShownInv, IndexInv, hasKey
<1>7. ImportInv'
  BY <1>1 DEF ImportInv, JobInv, Idle
<1> QED BY <1>4, <1>5, <1>6, <1>7 DEF KeyStoreInv

\* No step breaks the invariant.
LEMMA KeyStoreStep == KeyStoreInv /\ [Next]_keyStoreVars => KeyStoreInv'
<1> SUFFICES ASSUME KeyStoreInv, [Next]_keyStoreVars PROVE KeyStoreInv'
  OBVIOUS
<1>1. CASE UNCHANGED keyStoreVars
  <2>1. UNCHANGED <<keys, disk, nextId, queue, count, stateCount, failed, harmed, map,
                    awaiting, indexed, saved, saveTimer, import>>
    BY <1>1 DEF keyStoreVars, storeVars, indexVars
  <2>2. TypeOK'
    BY <2>1 DEF KeyStoreInv, TypeOK
  <2>3. CountIsOutstanding' /\ QueueInv' /\ LoginInv' /\ ShownInv'
    BY <2>1, StoreStutter DEF storeVars, WaitingKept
  <2>4. IndexInv'
    BY <2>1 DEF KeyStoreInv, IndexInv, IndexedIfRead, hasKey
  <2>5. ImportInv'
    BY <2>1, JobStutter DEF KeyStoreInv, ImportInv, IndexedIfRead
  <2> QED BY <2>2, <2>3, <2>4, <2>5 DEF KeyStoreInv
<1>2. CASE loadAddyMap \/ loadAddyMapFails \/ saveAddyMap
  BY <1>2, IndexStep
<1>3. CASE onLoadDbData
  BY <1>3, OnLoadStep
<1>4. ASSUME NEW k \in Keys, onAddKey(k) PROVE KeyStoreInv'
  BY <1>4, OnAddStep
<1>5. CASE setPasswordLoginKey
  BY <1>5, LoginStep
<1>6. ASSUME NEW i \in Imports, NEW S \in SUBSET Keys, importKeysWorker(i, S)
      PROVE  KeyStoreInv'
  BY <1>6, WorkerStep
<1>7. ASSUME NEW i \in Imports, Encrypted(i) PROVE KeyStoreInv'
  BY <1>7, EncryptedStep
<1>8. ASSUME NEW i \in Imports, addAll(i) PROVE KeyStoreInv'
  BY <1>8, AddAllStep
<1>9. ASSUME NEW i \in Imports, NEW k \in Keys, updateImportedKeyAccounts(i, k)
      PROVE  KeyStoreInv'
  BY <1>9, UpdateStep
<1>10. CASE Complete
  BY <1>10, CompleteStep
<1>11. ASSUME NEW told \in BOOLEAN, Abort(told) PROVE KeyStoreInv'
  BY <1>11, AbortStep
<1>12. CASE Loaded \/ LoadError
  BY <1>12, LoadStep
<1>13. CASE Reload
  BY <1>13, ReloadStep
<1> QED
  BY <1>1, <1>2, <1>3, <1>4, <1>5, <1>6, <1>7, <1>8, <1>9, <1>10, <1>11, <1>12, <1>13
     DEF Next

-----------------------------------------------------------------------------
(* Keys that RAM shows and nobody will store.                              *)

\* A step that only adds to the queue, or nothing, strands no key that it leaves as
\* it is.
LEMMA UnbackedKept ==
    ASSUME queue \in Seq(Transaction), NEW k \in Keys, disk' = disk, keys'[k] = keys[k],
           queue' = queue \/ (\E tx \in Transaction : queue' = Append(queue, tx)),
           Unbacked(k)'
    PROVE  Unbacked(k)
<1>1. \A n \in 1..Len(queue) : n \in 1..Len(queue') /\ queue'[n] = queue[n]
  <2>1. CASE queue' = queue
    BY <2>1
  <2>2. ASSUME NEW tx \in Transaction, queue' = Append(queue, tx)
        PROVE  \A n \in 1..Len(queue) : n \in 1..Len(queue') /\ queue'[n] = queue[n]
    BY <2>2, Push
  <2> QED BY <2>1, <2>2
<1> QED BY <1>1 DEF Unbacked, Stored, hasKey

\* A key whose new transaction is in the queue is not stranded.
LEMMA QueuedIsBacked ==
    ASSUME queue \in Seq(Transaction), NEW k \in Keys, NEW tx \in Transaction,
           queue' = Append(queue, tx), k \in Pubkeys(tx.puts)
    PROVE  ~ Unbacked(k)'
<1>1. PICK n \in Nat : n = Len(queue) + 1
  BY LenProperties
<1>2. n \in 1..Len(queue') /\ queue'[n] = tx
  BY <1>1, Push
<1> QED BY <1>2 DEF Unbacked

\* No step strands a key but the end of its own transaction or the loss of its record.
LEMMA UnbackedStep ==
    ASSUME KeyStoreInv, [Next]_keyStoreVars
    PROVE  [\A k \in Keys : Unbacked(k)' => Unbacked(k) \/ Dropped(k) \/ Stored(k)]_keyStoreVars
<1> SUFFICES ASSUME Next, NEW k \in Keys, Unbacked(k)', ~ Dropped(k), ~ Stored(k)
             PROVE  Unbacked(k)
  BY DEF keyStoreVars
<1>0. /\ TypeOK /\ LoginInv /\ queue \in Seq(Transaction) /\ disk \subseteq Record
      /\ keys \in [Keys -> Entry \cup {NoEntry}]
  BY DEF KeyStoreInv, TypeOK
<1>1. hasKey(k)' /\ keys'[k].encrypted /\ ~ Stored(k)'
  BY DEF Unbacked
<1>2. CASE loadAddyMap \/ loadAddyMapFails \/ saveAddyMap
           \/ \E i \in Imports : (\E S \in SUBSET Keys : importKeysWorker(i, S)) \/ addAll(i)
  <2>1. UNCHANGED storeVars
    BY <1>2 DEF loadAddyMap, loadAddyMapFails, saveAddyMap, importKeysWorker, addAll
  <2> QED BY <2>1, <1>0, UnbackedKept DEF storeVars
<1>3. CASE onLoadDbData \/ LoadError \/ Reload
  BY <1>1, <1>3 DEF onLoadDbData, LoadError, Reload, hasKey
<1>4. ASSUME NEW j \in Keys, onAddKey(j)
      PROVE  Unbacked(k)
  <2> DEFINE put == [id |-> 0, pubkey |-> j, encrypted |-> TRUE]
             tx  == [kind |-> "add", by |-> NoImport, puts |-> {put}]
  <2>1. /\ queue' = Append(queue, tx) /\ disk' = disk
        /\ keys' = [keys EXCEPT ![j] = [id |-> 0, encrypted |-> TRUE]]
    BY <1>4 DEF onAddKey
  <2>2. tx \in Transaction /\ j \in Pubkeys(tx.puts)
    BY DEF Transaction, Record, Pubkeys
  <2> HIDE DEF tx
  <2>3. k # j
    BY <2>1, <2>2, <1>0, QueuedIsBacked
  <2> QED BY <2>1, <2>2, <2>3, <1>0, UnbackedKept
<1>5. CASE setPasswordLoginKey
  <2>1. /\ UNCHANGED <<disk, queue>>
        /\ k \notin LoginKeys => keys'[k] = keys[k]
        /\ k \in LoginKeys => ~ keys'[k].encrypted
    BY <1>5 DEF setPasswordLoginKey
  <2> QED BY <2>1, <1>0, <1>1, UnbackedKept
<1>6. ASSUME NEW i \in Imports, Encrypted(i)
      PROVE  Unbacked(k)
  <2> DEFINE new  == {j \in import[i].keys : ~ hasKey(j)}
             puts == {[id |-> 0, pubkey |-> j, encrypted |-> TRUE] : j \in new}
             tx   == [kind |-> "import", by |-> i, puts |-> puts]
  <2>1. /\ queue' = Append(queue, tx) /\ disk' = disk
        /\ keys' = [j \in Keys |-> IF j \in new THEN [id |-> 0, encrypted |-> TRUE] ELSE keys[j]]
    BY <1>6 DEF Encrypted
  <2>2. new \in SUBSET Keys
    BY <1>0 DEF TypeOK, Import
  <2>3. puts \in SUBSET Record /\ \A j \in new : j \in Pubkeys(puts)
    BY <2>2, PutsFinite DEF Pubkeys
  <2> HIDE DEF new, puts
  <2>4. tx \in Transaction /\ tx.puts = puts
    BY <2>3 DEF Transaction
  <2> HIDE DEF tx
  <2>5. k \notin new
    BY <2>1, <2>3, <2>4, <1>0, QueuedIsBacked
  <2> QED BY <2>1, <2>4, <2>5, <1>0, UnbackedKept
<1>7. ASSUME NEW i \in Imports, NEW j \in Keys, updateImportedKeyAccounts(i, j)
      PROVE  Unbacked(k)
  <2> DEFINE put == [id |-> keys[j].id, pubkey |-> j, encrypted |-> keys[j].encrypted]
             tx  == [kind |-> "update", by |-> i, puts |-> {put}]
  <2>1. queue' = Append(queue, tx) /\ UNCHANGED <<disk, keys>> /\ hasKey(j)
    BY <1>7 DEF updateImportedKeyAccounts
  <2>2. keys[j] \in Entry
    BY <2>1, <1>0 DEF hasKey
  <2>3. tx \in Transaction
    BY <2>2 DEF Transaction, Record, Entry
  <2> HIDE DEF tx
  <2> QED BY <2>1, <2>3, <1>0, UnbackedKept
<1>8. CASE Complete \/ \E told \in BOOLEAN : Abort(told)
  <2>1. queue # <<>> /\ queue' = Tail(queue) /\ keys' = keys
    BY <1>8 DEF Complete, Abort
  <2>2. /\ Len(queue) \in Nat \ {0} /\ Head(queue) = queue[1]
        /\ Len(queue') = Len(queue) - 1
        /\ \A n \in 2..Len(queue) : queue'[n - 1] = queue[n]
    BY <2>1, <1>0, Pop
  <2>3. k \notin Pubkeys(queue[1].puts)
    BY <2>1, <2>2 DEF Dropped
  <2>4. ASSUME NEW n \in 1..Len(queue)
        PROVE  k \notin Pubkeys(queue[n].puts)
    <3>1. CASE n = 1
      BY <2>3, <3>1
    <3>2. CASE n # 1
      <4>1. n \in 2..Len(queue) /\ n - 1 \in 1..Len(queue')
        BY <3>2, <2>2
      <4> QED BY <4>1, <2>2 DEF Unbacked, Pubkeys
    <3> QED BY <3>1, <3>2
  <2> QED BY <2>1, <2>4, <1>1 DEF Unbacked, hasKey
<1>9. CASE Loaded
  <2>1. keys' = EntriesOf(disk) /\ disk' = disk
    BY <1>9 DEF Loaded
  <2>2. Stored(k)
    BY <2>1, <1>0, <1>1, EntriesAreStored DEF hasKey
  <2> QED BY <2>2
<1> QED BY <1>2, <1>3, <1>4, <1>5, <1>6, <1>7, <1>8, <1>9 DEF Next

-----------------------------------------------------------------------------
(* The theorems.                                                           *)

\* The invariant holds of every behaviour.
LEMMA KeyStoreInvariant == Spec => []KeyStoreInv
BY KeyStoreInit, KeyStoreStep, PTL DEF Spec

\* The state always has its types: no id, count or record out of range.
THEOREM KeyStoreTypes == Spec => []TypeOK
<1>1. KeyStoreInv => TypeOK
  BY DEF KeyStoreInv
<1> QED BY <1>1, KeyStoreInvariant, PTL

\* PrivateKeyStore.js: a key that RAM shows is stored or on its way, until its own
\* transaction fails or its record is replaced.
THEOREM ShownKeysAreStored == Spec => ShownIsStored
<1>1. KeyStoreInv /\ [Next]_keyStoreVars
          => [\A k \in Keys : Unbacked(k)' => Unbacked(k) \/ Dropped(k) \/ Stored(k)]_keyStoreVars
  BY UnbackedStep
<1> QED BY <1>1, KeyStoreInvariant, PTL DEF Spec, ShownIsStored

\* pending_operation_count is the number of additions and loads under way, so that
\* pendingOperationDone never throws; the state's copy is behind only during a load.
THEOREM CountNeverDrifts == Spec => []CountIsOutstanding
<1>1. KeyStoreInv => CountIsOutstanding
  BY DEF KeyStoreInv
<1> QED BY <1>1, KeyStoreInvariant, PTL

\* The addresses of every key of the wallet in RAM are in the address index, or will
\* be, if the saved index can be read.
THEOREM OwnedKeysAreIndexed == Spec => []OwnedIsIndexed
<1>1. KeyStoreInv => OwnedIsIndexed
  BY DEF KeyStoreInv, IndexInv, OwnedIsIndexed
<1> QED BY <1>1, KeyStoreInvariant, PTL

\* "Successfully imported %(count)s keys." is true of each of the keys.
THEOREM ImportedKeysAreStored == Spec => []ImportedIsStored
<1>1. KeyStoreInv => ImportedIsStored
  <2> SUFFICES ASSUME KeyStoreInv, NEW i \in Imports, import[i].stage = "success",
                      NEW k \in import[i].keys \ (LoginKeys \cup harmed)
               PROVE  Stored(k) /\ IndexedIfRead(k)
    BY DEF ImportedIsStored
  <2>1. JobInv(i)
    BY DEF KeyStoreInv, ImportInv
  <2> QED BY <2>1 DEF JobInv
<1> QED BY <1>1, KeyStoreInvariant, PTL
=============================================================================
