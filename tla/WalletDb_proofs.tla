--------------------------- MODULE WalletDb_proofs ---------------------------
(***************************************************************************)
(* Theorems about WalletDb: its type invariant, that the RAM and the disk  *)
(* copy of the wallet converge, and that no key of an account is lost, for *)
(* any passwords, look-ahead limit and bounds.                             *)
(***************************************************************************)
EXTENDS WalletDb, SequenceTheorems, FiniteSetTheorems, WellFoundedInduction, TLAPS

-----------------------------------------------------------------------------
(* The largest element of a set of naturals.                               *)

\* A nonempty finite set of integers has a largest element.  generateNextKey
\* moves the sequence behind the largest used key of its window.
LEMMA LargestExists ==
    ASSUME NEW S, S \subseteq Int, S # {}, IsFiniteSet(S)
    PROVE  \E m \in S : \A j \in S : j <= m
<1> DEFINE Above(m) == {j \in S : j > m}
           T == {Above(m) : m \in S}
           R == StrictSubsetOrdering(S)
<1>1. IsWellFoundedOn(R, SUBSET S)
  BY FS_StrictSubsetOrderingWellFounded, FS_FiniteSubsetsOfFinite
<1>2. T \subseteq SUBSET S /\ T # {}
  OBVIOUS
<1>3. PICK x \in T : \A y \in T : ~ (<<y, x>> \in R)
  <2> HIDE DEF T, R
  <2> QED BY <1>1, <1>2, WFMin
<1>4. PICK m \in S : x = Above(m)
  BY <1>3
<1>5. x = {}
  <2> SUFFICES ASSUME NEW n \in x PROVE FALSE
    OBVIOUS
  <2>1. n \in S /\ n > m /\ Above(n) \in T
    BY <1>4
  <2>2. Above(n) \subseteq x
    <3> SUFFICES ASSUME NEW j \in S, j > n PROVE j > m
      BY <1>4
    <3>1. j \in Int /\ n \in Int /\ m \in Int
      BY <2>1
    <3> QED BY <3>1, <2>1
  <2>3. n \notin Above(n)
    BY <2>1
  <2>4. <<Above(n), x>> \in R
    BY <2>2, <2>3, <1>4 DEF StrictSubsetOrdering
  <2> QED BY <2>1, <2>4, <1>3
<1> QED BY <1>4, <1>5

-----------------------------------------------------------------------------
(* The operations on one synchronous block.                                *)

Block == [wallet : Wallet, queue : Seq(Transaction), lookAhead : Nat, asked : SUBSET Nat,
          ramKeys : SUBSET Nat, unseen : SUBSET Nat, overtaken : SUBSET Nat]

\* w is what the last queued write, if there is one, will leave on disk.
LastWrite(q, w) ==
    \A n \in 1..Len(q) :
        /\ q[n].wallet # NoWallet
        /\ \A m \in 1..Len(q) : n < m => q[m].wallet = NoWallet
        => q[n].wallet = w

HasWrite(q) == \E n \in 1..Len(q) : q[n].wallet # NoWallet

\* A block whose last effect on the wallet is queued.
Written(now) == LastWrite(now.queue, now.wallet) /\ HasWrite(now.queue)

\* What _updateWallet leaves in a block.
LEMMA UpdateIs ==
    ASSUME NEW now \in Block, NEW w \in Wallet
    PROVE  LET next == _updateWallet(now, w)
           IN  /\ next \in Block /\ next.wallet = w
               /\ Write(w) \in Transaction /\ Write(w).wallet = w /\ w # NoWallet
               /\ next.queue = Append(now.queue, Write(w))
               /\ next.ramKeys = now.ramKeys
               /\ next.unseen = now.unseen /\ next.overtaken = now.overtaken
<1> DEFINE q == Append(now.queue, Write(w))
<1>1. Write(w) \in Transaction /\ Write(w).wallet = w /\ w # NoWallet
  BY WalletAssumption DEF Write, Transaction, Wallet
<1>2. q \in Seq(Transaction)
  BY <1>1, AppendProperties DEF Block
<1>3. _updateWallet(now, w) = [now EXCEPT !.wallet = w, !.queue = q]
  BY DEF _updateWallet
<1> HIDE DEF q
<1>4. /\ _updateWallet(now, w) \in Block
      /\ _updateWallet(now, w).wallet = w /\ _updateWallet(now, w).queue = q
      /\ _updateWallet(now, w).ramKeys = now.ramKeys
      /\ _updateWallet(now, w).unseen = now.unseen
      /\ _updateWallet(now, w).overtaken = now.overtaken
  BY <1>2, <1>3 DEF Block
<1> QED BY <1>1, <1>4 DEF q

\* _updateWallet queues exactly the object it leaves in RAM.
LEMMA UpdateWritten ==
    ASSUME NEW now \in Block, NEW w \in Wallet
    PROVE  _updateWallet(now, w) \in Block /\ Written(_updateWallet(now, w))
<1> DEFINE next == _updateWallet(now, w)
           tx   == Write(w)
<1>1. /\ next \in Block /\ next.wallet = w /\ next.queue = Append(now.queue, tx)
      /\ tx \in Transaction /\ tx.wallet = w /\ w # NoWallet
  BY UpdateIs
<1> HIDE DEF next, tx
<1>2. /\ Len(next.queue) = Len(now.queue) + 1 /\ Len(now.queue) \in Nat
      /\ next.queue[Len(now.queue) + 1] = tx
  BY <1>1, AppendProperties DEF Block
<1>3. HasWrite(next.queue)
  BY <1>1, <1>2 DEF HasWrite
<1>4. LastWrite(next.queue, w)
  <2> SUFFICES ASSUME NEW n \in 1..Len(next.queue), next.queue[n].wallet # NoWallet,
                      \A m \in 1..Len(next.queue) : n < m => next.queue[m].wallet = NoWallet
               PROVE  next.queue[n].wallet = w
    BY DEF LastWrite
  <2>1. n = Len(now.queue) + 1
    BY <1>1, <1>2
  <2> QED BY <2>1, <1>1, <1>2
<1> QED BY <1>1, <1>3, <1>4 DEF Written, next

\* What saveKeys leaves in a block.
LEMMA SaveKeysIs ==
    ASSUME NEW now \in Block, NEW S \in SUBSET Nat, NEW kind \in {"each", "all"}
    PROVE  LET saved == saveKeys(now, kind, S)
           IN  /\ saved \in Block /\ saved.wallet = now.wallet
               /\ saved.unseen = now.unseen /\ saved.overtaken = now.overtaken
               /\ saved.ramKeys = now.ramKeys \cup S
               /\ \/ saved.queue = now.queue /\ S \subseteq now.ramKeys
                  \/ \E tx \in Transaction :
                        /\ tx.wallet = NoWallet /\ tx.keys = S \ now.ramKeys
                        /\ saved.queue = Append(now.queue, tx)
<1> DEFINE tx == Put(kind, S \ now.ramKeys)
           q  == Append(now.queue, tx)
           R  == now.ramKeys \cup S
<1>1. tx \in Transaction /\ tx.wallet = NoWallet /\ tx.keys = S \ now.ramKeys
  BY DEF Put, Transaction
<1>2. q \in Seq(Transaction) /\ R \in SUBSET Nat
  <2> HIDE DEF tx
  <2> QED BY <1>1, AppendProperties DEF Block
<1>3. CASE S \subseteq now.ramKeys
  <2>1. saveKeys(now, kind, S) = now /\ now.ramKeys \cup S = now.ramKeys
    BY <1>3 DEF saveKeys
  <2> HIDE DEF tx
  <2> QED BY <1>3, <2>1
<1>4. CASE ~ (S \subseteq now.ramKeys)
  <2>1. saveKeys(now, kind, S) = [now EXCEPT !.queue = q, !.ramKeys = R]
    BY <1>4 DEF saveKeys
  <2> HIDE DEF q, R, tx
  <2>2. /\ saveKeys(now, kind, S) \in Block
        /\ saveKeys(now, kind, S).wallet = now.wallet
        /\ saveKeys(now, kind, S).queue = q /\ saveKeys(now, kind, S).ramKeys = R
        /\ saveKeys(now, kind, S).unseen = now.unseen
        /\ saveKeys(now, kind, S).overtaken = now.overtaken
    BY <1>2, <2>1 DEF Block
  <2> QED BY <1>1, <2>2 DEF q, R, tx
<1> QED BY <1>3, <1>4

\* Incrementing the sequence keeps a block a block and queues a write.
LEMMA IncrementWritten ==
    ASSUME NEW now \in Block
    PROVE  /\ incrementBrainKeySequence(now) \in Block
           /\ Written(incrementBrainKeySequence(now))
<1> DEFINE w == WithSequence(now.wallet, now.wallet.brainkey_sequence + 1)
<1>1. w \in Wallet
  BY DEF WithSequence, Block, Wallet
<1>2. incrementBrainKeySequence(now) = _updateWallet(now, w)
  BY DEF incrementBrainKeySequence
<1> QED
  <2> HIDE DEF w
  <2> QED BY <1>1, <1>2, UpdateWritten

\* Decrementing the sequence, down to zero, queues a write.
LEMMA DecrementWritten ==
    ASSUME NEW now \in Block
    PROVE  decrementBrainKeySequence(now) \in Block
           /\ Written(decrementBrainKeySequence(now))
<1>1. WithSequence(now.wallet, AtLeastZero(now.wallet.brainkey_sequence - 1)) \in Wallet
  BY DEF WithSequence, Block, Wallet, AtLeastZero
<1> QED BY <1>1, UpdateWritten DEF decrementBrainKeySequence

\* The window of the look-ahead is a finite set of sequence numbers.
LEMMA WindowFinite ==
    ASSUME NEW now \in Block
    PROVE  Window(now) \subseteq Nat /\ IsFiniteSet(Window(now))
<1> USE WalletAssumption
<1>1. now.wallet.brainkey_sequence \in Nat /\ now.lookAhead \in Nat
  BY DEF Block, Wallet
<1> DEFINE first == now.wallet.brainkey_sequence
           ahead == Smaller(LookAheadLimit, now.lookAhead + 1)
           last  == IF first = 0 THEN Larger(ahead, LookAheadLimit) ELSE first + ahead
<1>2. ahead \in Nat
  BY <1>1 DEF Smaller
<1>3. last \in Nat
  BY <1>1, <1>2 DEF Larger
<1>4. Window(now) = first .. last - 1
  BY DEF Window
<1>5. first .. last - 1 \subseteq Nat
  BY <1>1, <1>3
<1>6. IsFiniteSet(first .. last - 1)
  <2> HIDE DEF first, last
  <2> QED BY <1>1, <1>3, FS_Interval DEF first
<1> QED BY <1>4, <1>5, <1>6

\* The block of a look-ahead that saves the keys of used, moves to w and passes over
\* the keys of passed.
Jump(looked, used, w, passed) ==
    [_updateWallet(saveKeys(looked, "each", used), w) EXCEPT !.unseen = @ \cup passed]

\* What the look-ahead does: its own bookkeeping, and with a known key in its window
\* the saving of those keys and the write of a sequence behind the last of them.
LEMMA SkipUsedIs ==
    ASSUME NEW now \in Block, known \subseteq Nat, keysDisk \subseteq Nat
    PROVE  \E looked \in Block :
             /\ looked.wallet = now.wallet /\ looked.queue = now.queue
             /\ looked.ramKeys = now.ramKeys
             /\ looked.unseen = now.unseen /\ looked.overtaken = now.overtaken
             /\ \/ SkipUsed(now) = looked
                \/ \E last \in Nat, w \in Wallet, P \in SUBSET Nat :
                     /\ last \in Window(now) \cap known /\ w.brainkey_sequence = last + 1
                     /\ P = {k \in Window(now) \ known : k < last} \ keysDisk
                     /\ SkipUsed(now) = Jump(looked, Window(now) \cap known, w, P)
<1> DEFINE used     == Window(now) \cap known
           looked   == [now EXCEPT !.lookAhead = Smaller(LookAheadLimit, @ + 1),
                                   !.asked = @ \cup Window(now)]
           lastUsed == CHOOSE k \in used : \A j \in used : j <= k
           moved    == WithSequence(now.wallet, lastUsed + 1)
           passed   == {k \in Window(now) \ known : k < lastUsed} \ keysDisk
<1>1. Window(now) \subseteq Nat /\ IsFiniteSet(Window(now))
  BY WindowFinite
<1>2. /\ looked \in Block /\ looked.wallet = now.wallet /\ looked.queue = now.queue
      /\ looked.ramKeys = now.ramKeys
      /\ looked.unseen = now.unseen /\ looked.overtaken = now.overtaken
  <2> DEFINE n == Smaller(LookAheadLimit, now.lookAhead + 1)
             A == now.asked \cup Window(now)
  <2>1. n \in Nat /\ A \in SUBSET Nat
    BY <1>1, WalletAssumption DEF Smaller, Block
  <2>2. looked = [now EXCEPT !.lookAhead = n, !.asked = A]
    OBVIOUS
  <2> HIDE DEF n, A, looked
  <2> QED BY <2>1, <2>2 DEF Block
<1>3. CASE used = {}
  <2>1. SkipUsed(now) = looked
    BY <1>3 DEF SkipUsed
  <2> HIDE DEF looked
  <2> QED BY <2>1, <1>2
<1>4. CASE used # {}
  <2>1. used \subseteq Nat /\ used \subseteq Int /\ IsFiniteSet(used)
    BY <1>1, FS_Subset
  <2>2. \E k \in used : \A j \in used : j <= k
    <3> HIDE DEF used
    <3> QED BY <2>1, <1>4, LargestExists
  <2>3. lastUsed \in used
    <3> HIDE DEF used
    <3> QED BY <2>2
  <2>4. lastUsed \in Nat /\ lastUsed \in Window(now) \cap known
    <3>1. lastUsed \in Window(now) \cap known
      BY <2>3
    <3> HIDE DEF lastUsed
    <3> QED BY <3>1, <1>1
  <2>5. moved \in Wallet /\ moved.brainkey_sequence = lastUsed + 1
    <3> HIDE DEF lastUsed
    <3> QED BY <2>4 DEF WithSequence, Block, Wallet
  <2>6. passed \in SUBSET Nat
    BY <1>1
  <2>7. SkipUsed(now) = Jump(looked, used, moved, passed)
    BY <1>4 DEF SkipUsed, Jump
  <2> HIDE DEF looked, lastUsed, moved
  <2> QED BY <1>2, <2>4, <2>5, <2>6, <2>7
<1> QED BY <1>3, <1>4

\* The look-ahead leaves wallet and queue alone or ends with a queued write.
LEMMA SkipUsedWritten ==
    ASSUME NEW now \in Block, known \subseteq Nat, keysDisk \subseteq Nat
    PROVE  /\ SkipUsed(now) \in Block
           /\ \/ SkipUsed(now).wallet = now.wallet /\ SkipUsed(now).queue = now.queue
              \/ Written(SkipUsed(now))
<1>1. PICK looked \in Block :
        /\ looked.wallet = now.wallet /\ looked.queue = now.queue
        /\ \/ SkipUsed(now) = looked
           \/ \E w \in Wallet, passed \in SUBSET Nat :
                SkipUsed(now) = Jump(looked, Window(now) \cap known, w, passed)
  BY SkipUsedIs
<1>2. CASE SkipUsed(now) = looked
  BY <1>1, <1>2
<1>3. ASSUME NEW w \in Wallet, NEW passed \in SUBSET Nat,
             SkipUsed(now) = Jump(looked, Window(now) \cap known, w, passed)
      PROVE  SkipUsed(now) \in Block /\ Written(SkipUsed(now))
  <2> DEFINE used  == Window(now) \cap known
             saved == saveKeys(looked, "each", used)
             moved == _updateWallet(saved, w)
  <2>1. used \in SUBSET Nat
    OBVIOUS
  <2>2. saved \in Block
    <3> HIDE DEF used
    <3> QED BY <1>1, <2>1, SaveKeysIs
  <2>3. moved \in Block /\ Written(moved)
    <3> HIDE DEF saved
    <3> QED BY <2>2, UpdateWritten
  <2>4. SkipUsed(now) = [moved EXCEPT !.unseen = @ \cup passed]
    BY <1>3 DEF Jump
  <2> HIDE DEF moved
  <2>5. SkipUsed(now) \in Block /\ SkipUsed(now).wallet = moved.wallet
        /\ SkipUsed(now).queue = moved.queue
    BY <2>3, <2>4 DEF Block
  <2> QED BY <2>3, <2>5 DEF Written
<1> QED BY <1>1, <1>2, <1>3

\* Taking a key changes the histories of the block only.
LEMMA TakenIs ==
    ASSUME NEW now \in Block, NEW k \in Nat
    PROVE  /\ Taken(now, k) \in Block
           /\ Taken(now, k).wallet = now.wallet /\ Taken(now, k).queue = now.queue
           /\ Taken(now, k).ramKeys = now.ramKeys
           /\ \/ k \in keysDisk \cup KeysQueued(now.queue) /\ Taken(now, k) = now
              \/ /\ k \notin keysDisk \cup KeysQueued(now.queue)
                 /\ Taken(now, k).unseen = now.unseen \ {k}
                 /\ Taken(now, k).overtaken = now.overtaken \cup
                      {j \in {k} : \E w \in {disk} \cup WritesQueued(now.queue) :
                                      j < w.brainkey_sequence}
<1> DEFINE O == now.overtaken \cup
                  {j \in {k} : \E w \in {disk} \cup WritesQueued(now.queue) :
                                  j < w.brainkey_sequence}
           U == now.unseen \ {k}
<1>1. O \in SUBSET Nat /\ U \in SUBSET Nat
  BY DEF Block
<1>2. CASE k \in keysDisk \cup KeysQueued(now.queue)
  BY <1>2 DEF Taken
<1>3. CASE k \notin keysDisk \cup KeysQueued(now.queue)
  <2>1. Taken(now, k) = [now EXCEPT !.unseen = U, !.overtaken = O]
    BY <1>3 DEF Taken
  <2> HIDE DEF O, U
  <2>2. /\ Taken(now, k) \in Block
        /\ Taken(now, k).wallet = now.wallet /\ Taken(now, k).queue = now.queue
        /\ Taken(now, k).ramKeys = now.ramKeys
        /\ Taken(now, k).unseen = U /\ Taken(now, k).overtaken = O
    BY <2>1, <1>1 DEF Block
  <2> QED BY <1>3, <2>2 DEF O, U
<1> QED BY <1>2, <1>3

\* generateNextKey with save ends with the write of the incremented sequence.
LEMMA GenerateWritten ==
    ASSUME NEW now \in Block, known \subseteq Nat, keysDisk \subseteq Nat
    PROVE  /\ generateNextKey(now, TRUE) \in Block
           /\ NextKey(now) \in Nat
           /\ Written(generateNextKey(now, TRUE))
<1> DEFINE skipped == SkipUsed(now)
           key     == NextKey(now)
           taken   == Taken(skipped, key)
           saved   == saveKeys(taken, "each", {key})
<1>1. skipped \in Block
  BY SkipUsedWritten
<1>2. key \in Nat
  <2> HIDE DEF skipped
  <2> QED BY <1>1 DEF Block, Wallet, NextKey, skipped
<1>3. taken \in Block
  <2> HIDE DEF skipped, key
  <2> QED BY <1>1, <1>2, TakenIs
<1>4. saved \in Block
  <2> HIDE DEF taken, key
  <2> QED BY <1>2, <1>3, SaveKeysIs
<1>5. generateNextKey(now, TRUE) = incrementBrainKeySequence(saved)
  BY DEF generateNextKey, NextKey
<1> QED
  <2> HIDE DEF saved
  <2> QED BY <1>2, <1>4, <1>5, IncrementWritten DEF key

-----------------------------------------------------------------------------
(* The types.                                                              *)

NowBlock == Now \in Block

\* The block a step starts from has the type of a block.
LEMMA NowType == TypeOK => NowBlock
BY DEF TypeOK, NowBlock, Now, Block

RunTypes ==
    /\ wallet \in Wallet /\ intended \in Wallet /\ disk \in Wallet
    /\ queue \in Seq(Transaction)
    /\ lookAhead \in Nat /\ asked \subseteq Nat
    /\ keysDisk \subseteq Nat /\ ramKeys \subseteq Nat /\ aborted \subseteq Nat
    /\ unseen \subseteq Nat /\ overtaken \subseteq Nat
    /\ unsaved \in BOOLEAN /\ faults \in Nat

\* What Run stores is what the block holds.
LEMMA RunType ==
    ASSUME NEW now \in Block, TypeOK, Run(now)
    PROVE  RunTypes'
<1>1. unsaved' \in BOOLEAN
  BY DEF Run
<1>2. intended' \in Wallet
  BY DEF Run, TypeOK, Block
<1> QED BY <1>1, <1>2 DEF Run, TypeOK, Block, RunTypes

\* The head of the queue, and what is left behind it.
LEMMA QueueHead ==
    ASSUME TypeOK, queue # <<>>
    PROVE  /\ Len(queue) \in Nat \ {0} /\ Head(queue) = queue[1]
           /\ queue[1] \in Transaction
           /\ Tail(queue) \in Seq(Transaction)
           /\ Len(Tail(queue)) = Len(queue) - 1
           /\ \A n \in 1..Len(queue) - 1 : Tail(queue)[n] = queue[n + 1]
<1>1. queue \in Seq(Transaction) /\ queue # <<>>
  BY DEF TypeOK
<1> QED BY <1>1, HeadTailProperties, EmptySeq

\* The keys due are keys of the head; a transaction behind it keeps its place, or
\* moves up by one.
LEMMA RestIs ==
    ASSUME TypeOK, NextIs({"each", "all"})
    PROVE  /\ Rest \in Seq(Transaction)
           /\ Due \subseteq queue[1].keys /\ queue[1].keys \subseteq Nat
           /\ queue[1].wallet = NoWallet
           /\ \/ Rest = Tail(queue) /\ queue[1].keys \subseteq Due
              \/ /\ Len(Rest) = Len(queue)
                 /\ \A n \in 1..Len(queue) :
                       Rest[n] = IF n = 1 THEN [queue[1] EXCEPT !.keys = @ \ Due]
                                 ELSE queue[n]
                 /\ Rest[1].wallet = NoWallet /\ Rest[1].keys = queue[1].keys \ Due
<1>1. queue \in Seq(Transaction) /\ queue # <<>> /\ Head(queue).kind \in {"each", "all"}
  BY DEF TypeOK, NextIs
<1>2. /\ Len(queue) \in Nat \ {0} /\ Head(queue) = queue[1] /\ queue[1] \in Transaction
      /\ Tail(queue) \in Seq(Transaction)
  BY <1>1, QueueHead
<1>3. Due \subseteq queue[1].keys
  BY <1>2 DEF Due
<1>4. /\ queue[1] \in [kind : {"each", "all"}, wallet : {NoWallet}, keys : SUBSET Nat]
      /\ queue[1].keys \subseteq Nat /\ queue[1].wallet = NoWallet
  BY <1>1, <1>2 DEF Transaction
<1>5. CASE queue[1].keys \subseteq Due
  <2>1. Rest = Tail(queue)
    BY <1>2, <1>5 DEF Rest
  <2> QED BY <2>1, <1>2, <1>3, <1>4, <1>5
<1>6. CASE ~ (queue[1].keys \subseteq Due)
  <2> DEFINE D  == Due
             tx == [queue[1] EXCEPT !.keys = @ \ D]
  <2>1. Rest = [queue EXCEPT ![1] = tx]
    <3>1. Rest = [queue EXCEPT ![1].keys = @ \ Due]
      BY <1>2, <1>6 DEF Rest
    <3> QED BY <3>1
  <2>2. tx \in Transaction /\ tx.wallet = NoWallet /\ tx.keys = queue[1].keys \ D
    <3> HIDE DEF D
    <3> QED BY <1>4 DEF Transaction
  <2> HIDE DEF tx
  <2>3. /\ Rest \in Seq(Transaction) /\ Len(Rest) = Len(queue)
        /\ \A n \in 1..Len(queue) : Rest[n] = IF n = 1 THEN tx ELSE queue[n]
    BY <2>1, <2>2, <1>1, <1>2, ExceptSeq
  <2>4. Rest[1] = tx
    BY <2>3, <1>2
  <2> QED BY <2>2, <2>3, <2>4, <1>3, <1>4 DEF tx
<1> QED BY <1>5, <1>6

\* Every variable keeps its type in every step.
LEMMA TypeStep == TypeOK /\ [Next]_vars => TypeOK'
<1> SUFFICES ASSUME TypeOK, [Next]_vars PROVE TypeOK'
  OBVIOUS
<1> USE DEF walletVars, keyVars, lookVars, chainVars, sessionVars, creationVars
<1>0. Now \in Block /\ known \subseteq Nat /\ keysDisk \subseteq Nat
  BY NowType DEF TypeOK, NowBlock
<1>1. CASE checkNextGeneratedKey
  <2> DEFINE now == IF generatingKey THEN Now ELSE generateNextKey(Now, FALSE)
  <2>1. now \in Block
    BY <1>0, SkipUsedWritten DEF generateNextKey
  <2>2. Run(now)
    BY <1>1 DEF checkNextGeneratedKey
  <2> HIDE DEF now
  <2>3. RunTypes'
    BY <2>1, <2>2, RunType
  <2> QED BY <2>3, <1>1 DEF checkNextGeneratedKey, TypeOK, RunTypes
<1>2. ASSUME NEW via \in {"faucet", "registrar"}, createAccount(via)
      PROVE  TypeOK'
  <2> DEFINE owner  == generateNextKey(Now, TRUE)
             active == generateNextKey(owner, TRUE)
             memo   == generateNextKey(active, TRUE)
  <2>1. owner \in Block /\ NextKey(Now) \in Nat
    BY <1>0, GenerateWritten
  <2>2. active \in Block /\ NextKey(owner) \in Nat
    <3> HIDE DEF owner
    <3> QED BY <1>0, <2>1, GenerateWritten
  <2>3. memo \in Block /\ NextKey(active) \in Nat
    <3> HIDE DEF active
    <3> QED BY <1>0, <2>2, GenerateWritten
  <2>4. Run(memo) /\ creating' = [keys |-> <<NextKey(Now), NextKey(owner), NextKey(active)>>,
                                  via |-> via, registered |-> FALSE]
    BY <1>2 DEF createAccount
  <2>5. creating' \in Creation
    <3> HIDE DEF owner, active, memo
    <3> QED BY <2>1, <2>2, <2>3, <2>4 DEF Creation
  <2> HIDE DEF owner, active, memo
  <2>6. RunTypes'
    BY <2>3, <2>4, RunType
  <2> QED BY <2>5, <2>6, <1>2 DEF createAccount, TypeOK, RunTypes
<1>3. CASE createAccountThrows
  BY <1>3 DEF createAccountThrows, TypeOK, Fault
<1>4. CASE Register
  <2>1. creating \in Creation
    BY <1>4 DEF Register, TypeOK
  <2>2. creating' \in Creation
    BY <2>1, <1>4 DEF Register, Creation
  <2>3. creating.keys[1] \in Nat /\ creating.keys[2] \in Nat /\ creating.keys[3] \in Nat
    BY <2>1 DEF Creation
  <2>4. inUse' \subseteq Nat /\ registered' \subseteq Nat
    BY <2>3, <1>4 DEF Register, TypeOK
  <2> QED BY <2>2, <2>4, <1>4 DEF Register, TypeOK
<1>5. CASE AccountCreated
  <2> DEFINE S == {creating.keys[n] : n \in 1..3}
             saved == saveKeys(Now, "all", S)
  <2>1. S \in SUBSET Nat
    BY <1>5 DEF AccountCreated, TypeOK, Creation
  <2>2. saved \in Block
    <3> HIDE DEF S
    <3> QED BY <1>0, <2>1, SaveKeysIs
  <2>3. queue' = saved.queue /\ ramKeys' = saved.ramKeys
    BY <1>5 DEF AccountCreated
  <2> HIDE DEF saved
  <2>4. queue' \in Seq(Transaction) /\ ramKeys' \subseteq Nat
    BY <2>2, <2>3 DEF Block
  <2> QED BY <2>4, <1>5 DEF AccountCreated, TypeOK
<1>6. CASE CreationRejected
  <2> DEFINE now == IF creating.via = "faucet"
                    THEN decrementBrainKeySequence(decrementBrainKeySequence(
                             decrementBrainKeySequence(Now)))
                    ELSE Now
  <2>1. now \in Block
    BY <1>0, DecrementWritten
  <2>2. Run(now) /\ creating' = NoCreation
    BY <1>6 DEF CreationRejected
  <2> HIDE DEF now
  <2>3. RunTypes'
    BY <2>1, <2>2, RunType
  <2> QED BY <2>2, <2>3, <1>6 DEF CreationRejected, TypeOK, RunTypes
<1>7. CASE resetBrainKeySequence
  <2> DEFINE now == _updateWallet(Now, WithSequence(wallet, 0))
  <2>1. WithSequence(wallet, 0) \in Wallet
    BY DEF WithSequence, Wallet, TypeOK
  <2>2. now \in Block /\ Run(now)
    BY <2>1, <1>0, <1>7, UpdateWritten DEF resetBrainKeySequence
  <2> HIDE DEF now
  <2>3. RunTypes'
    BY <2>2, RunType
  <2> QED BY <2>3, <1>7 DEF resetBrainKeySequence, TypeOK, RunTypes
<1>8. CASE setBackupDate
  <2> DEFINE now == _updateWallet(Now, wallet)
  <2>1. now \in Block /\ Run(now)
    BY <1>0, <1>8, UpdateWritten DEF setBackupDate, TypeOK
  <2> HIDE DEF now
  <2>2. RunTypes'
    BY <2>1, RunType
  <2> QED BY <2>2, <1>8 DEF setBackupDate, TypeOK, RunTypes
<1>9. ASSUME NEW old \in Passwords, NEW new \in Passwords, NEW unlock \in BOOLEAN,
             changePassword(old, new, unlock)
      PROVE  TypeOK'
  <2> DEFINE w   == [wallet EXCEPT !.password = new]
             now == _updateWallet(Now, w)
  <2>1. w \in Wallet
    BY DEF Wallet, TypeOK
  <2>2. now \in Block /\ Run(now)
    <3> HIDE DEF w
    <3>1. Run(now)
      BY <1>9 DEF changePassword, w
    <3> QED BY <2>1, <3>1, <1>0, UpdateWritten
  <2> HIDE DEF now
  <2>3. RunTypes'
    BY <2>2, RunType
  <2> QED BY <2>3, <1>9 DEF changePassword, TypeOK, RunTypes
<1>10. CASE loadDbData
  <2>1. Put("load", {}) \in Transaction
    BY DEF Put, Transaction
  <2>2. queue' \in Seq(Transaction)
    BY <2>1, <1>10, AppendProperties DEF loadDbData, TypeOK
  <2> QED BY <2>2, <1>10 DEF loadDbData, TypeOK, Fault
<1>11. CASE CommitKeys
  <2>1. queue' \in Seq(Transaction) /\ Due \subseteq Nat
    BY <1>11, RestIs DEF CommitKeys
  <2> QED BY <2>1, <1>11 DEF CommitKeys, TypeOK
<1>12. CASE AbortKeys
  <2>1. queue' \in Seq(Transaction) /\ Due \subseteq Nat
    BY <1>12, RestIs DEF AbortKeys
  <2> QED BY <2>1, <1>12 DEF AbortKeys, TypeOK, Fault
<1>13. CASE CompleteTransaction
  <2>1. Head(queue) \in Transaction /\ Tail(queue) \in Seq(Transaction)
    BY <1>13, QueueHead DEF CompleteTransaction, NextIs
  <2>2. wallet' \in Wallet /\ disk' \in Wallet
    BY <2>1, <1>13 DEF CompleteTransaction, NextIs, Transaction
  <2> QED BY <2>1, <2>2, <1>13 DEF CompleteTransaction, TypeOK
<1>14. CASE AbortTransaction
  <2>1. Tail(queue) \in Seq(Transaction)
    BY <1>14, QueueHead DEF AbortTransaction, NextIs
  <2>2. unsaved' \in BOOLEAN
    BY <1>14 DEF AbortTransaction
  <2> QED BY <2>1, <2>2, <1>14 DEF AbortTransaction, TypeOK, Fault
<1>15. CASE CompleteLoad
  <2>1. Tail(queue) \in Seq(Transaction)
    BY <1>15, QueueHead DEF CompleteLoad, NextIs
  <2> QED BY <2>1, <1>15 DEF CompleteLoad, TypeOK
<1>16. ASSUME NEW k \in inUse, LearnReferences(k)
       PROVE  TypeOK'
  BY <1>16 DEF LearnReferences, TypeOK
<1>17. CASE Unlock
  BY <1>17 DEF Unlock, TypeOK
<1>18. CASE CloudLogin
  BY <1>18 DEF CloudLogin, TypeOK
<1>19. CASE onLock
  BY <1>19 DEF onLock, TypeOK
<1>20. CASE Reload
  <2>1. queue' \in Seq(Transaction)
    BY <1>20, EmptySeq DEF Reload
  <2> QED BY <2>1, <1>20 DEF Reload, TypeOK
<1>21. CASE UNCHANGED vars
  BY <1>21 DEF vars, TypeOK
<1> QED
  BY <1>1, <1>2, <1>3, <1>4, <1>5, <1>6, <1>7, <1>8, <1>9, <1>10, <1>11, <1>12, <1>13,
     <1>14, <1>15, <1>16, <1>17, <1>18, <1>19, <1>20, <1>21 DEF Next

\* The initial states have their types.
LEMMA TypeInit == Init => TypeOK
<1> SUFFICES ASSUME Init PROVE TypeOK
  OBVIOUS
<1>1. NewWallet \in Wallet
  BY WalletAssumption DEF NewWallet, Wallet
<1>2. 0 .. MaxUsed - 1 \subseteq Nat
  OBVIOUS
<1>3. queue \in Seq(Transaction)
  BY EmptySeq DEF Init
<1> QED BY <1>1, <1>2, <1>3 DEF Init, TypeOK

\* The type invariant of the wallet.
THEOREM WalletTypes == Spec => []TypeOK
BY TypeInit, TypeStep, PTL DEF Spec

-----------------------------------------------------------------------------
(* Convergence of the two copies.                                          *)

\* The invariant behind Converges: the last queued write carries what the last
\* operation left in RAM, and with no write queued both copies are equal to it,
\* unless that operation's own write failed.
ConvInv ==
    /\ LastWrite(queue, intended)
    /\ ~ HasWrite(queue) /\ ~ unsaved => wallet = intended /\ disk = intended

\* Running a block keeps ConvInv.
LEMMA RunConv ==
    ASSUME NEW now \in Block, TypeOK, ConvInv, Run(now),
           \/ now.wallet = wallet /\ now.queue = queue
           \/ Written(now)
    PROVE  ConvInv'
<1>1. /\ wallet' = now.wallet /\ queue' = now.queue /\ disk' = disk
      /\ intended' = IF now.queue = queue THEN intended ELSE now.wallet
      /\ unsaved' = (unsaved /\ now.queue = queue)
  BY DEF Run
<1>2. CASE now.queue = queue
  <2>1. intended' = intended /\ queue' = queue
    BY <1>1, <1>2
  <2>2. unsaved' = unsaved
    BY <1>1, <1>2 DEF TypeOK
  <2>3. CASE now.wallet = wallet
    BY <1>1, <2>1, <2>2, <2>3 DEF ConvInv
  <2>4. CASE Written(now)
    BY <1>1, <1>2, <2>1, <2>4 DEF ConvInv, Written
  <2> QED BY <2>3, <2>4
<1>3. CASE now.queue # queue
  <2>1. Written(now) /\ intended' = now.wallet
    BY <1>1, <1>3
  <2> QED BY <1>1, <2>1 DEF ConvInv, Written
<1> QED BY <1>2, <1>3

\* The initial states have converged.
LEMMA ConvInit == Init => ConvInv
BY DEF Init, ConvInv, LastWrite, HasWrite

\* A step that touches neither copy nor the queue.
LEMMA ConvUnchanged ==
    ASSUME ConvInv, UNCHANGED <<wallet, disk, queue, intended, unsaved>>
    PROVE  ConvInv'
BY DEF ConvInv

\* A transaction that writes no wallet is appended.
LEMMA AppendNoWrite ==
    ASSUME NEW q \in Seq(Transaction), NEW tx \in Transaction, tx.wallet = NoWallet, NEW w
    PROVE  /\ LastWrite(q, w) => LastWrite(Append(q, tx), w)
           /\ HasWrite(Append(q, tx)) <=> HasWrite(q)
<1> DEFINE r == Append(q, tx)
<1>1. /\ Len(q) \in Nat /\ Len(r) = Len(q) + 1
      /\ \A i \in 1..Len(q) : r[i] = q[i]
      /\ r[Len(q) + 1] = tx
  BY AppendProperties
<1> HIDE DEF r
<1>2. HasWrite(r) <=> HasWrite(q)
  BY <1>1 DEF HasWrite
<1>3. ASSUME LastWrite(q, w)
      PROVE  LastWrite(r, w)
  <2> SUFFICES ASSUME NEW n \in 1..Len(r), r[n].wallet # NoWallet,
                      \A m \in 1..Len(r) : n < m => r[m].wallet = NoWallet
               PROVE  r[n].wallet = w
    BY DEF LastWrite
  <2>1. n \in 1..Len(q)
    BY <1>1
  <2>2. q[n].wallet # NoWallet
    BY <1>1, <2>1
  <2>3. \A m \in 1..Len(q) : n < m => q[m].wallet = NoWallet
    BY <1>1
  <2>4. q[n].wallet = w
    BY <1>3, <2>1, <2>2, <2>3 DEF LastWrite
  <2> QED BY <1>1, <2>1, <2>4
<1> QED BY <1>2, <1>3 DEF r

\* The head of the queue is gone: what was last is last.
LEMMA TailConv ==
    ASSUME TypeOK, ConvInv, queue # <<>>, queue' = Tail(queue), intended' = intended
    PROVE  /\ LastWrite(queue', intended')
           /\ HasWrite(queue') => HasWrite(queue)
           /\ ~ HasWrite(queue') /\ queue[1].wallet = NoWallet => ~ HasWrite(queue)
           /\ ~ HasWrite(queue') /\ queue[1].wallet # NoWallet => queue[1].wallet = intended
<1>1. /\ Len(queue) \in Nat \ {0} /\ Len(queue') = Len(queue) - 1
      /\ \A n \in 1..Len(queue') : queue'[n] = queue[n + 1]
  BY QueueHead
<1>2. \A m \in 2..Len(queue) : queue'[m - 1] = queue[m] /\ m - 1 \in 1..Len(queue')
  <2> TAKE m \in 2..Len(queue)
  <2>1. m - 1 \in 1..Len(queue') /\ (m - 1) + 1 = m
    BY <1>1
  <2> QED BY <2>1, <1>1
<1>3. LastWrite(queue, intended)
  BY DEF ConvInv
<1>4. LastWrite(queue', intended)
  <2> SUFFICES ASSUME NEW n \in 1..Len(queue'), queue'[n].wallet # NoWallet,
                      \A m \in 1..Len(queue') : n < m => queue'[m].wallet = NoWallet
               PROVE  queue'[n].wallet = intended
    BY DEF LastWrite
  <2>1. n + 1 \in 1..Len(queue) /\ queue[n + 1].wallet # NoWallet
    BY <1>1
  <2>2. ASSUME NEW m \in 1..Len(queue), n + 1 < m
        PROVE  queue[m].wallet = NoWallet
    <3>1. m \in 2..Len(queue) /\ n < m - 1
      BY <2>2, <1>1
    <3> QED BY <3>1, <1>2
  <2>3. queue[n + 1].wallet = intended
    BY <1>3, <2>1, <2>2 DEF LastWrite
  <2> QED BY <1>1, <2>3
<1>5. HasWrite(queue') => HasWrite(queue)
  BY <1>1 DEF HasWrite
<1>6. ASSUME ~ HasWrite(queue')
      PROVE  /\ queue[1].wallet = NoWallet => ~ HasWrite(queue)
             /\ queue[1].wallet # NoWallet => queue[1].wallet = intended
  <2>1. \A m \in 1..Len(queue) : 1 < m => queue[m].wallet = NoWallet
    BY <1>1, <1>2, <1>6 DEF HasWrite
  <2>2. 1 \in 1..Len(queue)
    BY <1>1
  <2>3. queue[1].wallet = NoWallet => ~ HasWrite(queue)
    BY <2>1, <1>1 DEF HasWrite
  <2> QED BY <2>1, <2>2, <2>3, <1>3 DEF LastWrite
<1> QED BY <1>4, <1>5, <1>6

\* Keys are committed or aborted: the writes behind them stay.
LEMMA RestConv ==
    ASSUME TypeOK, ConvInv, NextIs({"each", "all"}), queue' = Rest,
           UNCHANGED <<wallet, disk, intended, unsaved>>
    PROVE  ConvInv'
<1>1. /\ Len(queue) \in Nat \ {0} /\ queue[1].wallet = NoWallet /\ queue # <<>>
      /\ \/ Rest = Tail(queue)
         \/ /\ Len(Rest) = Len(queue)
            /\ \A n \in 1..Len(queue) :
                  Rest[n] = IF n = 1 THEN [queue[1] EXCEPT !.keys = @ \ Due] ELSE queue[n]
            /\ Rest[1].wallet = NoWallet
  BY RestIs, QueueHead DEF NextIs
<1>2. CASE Rest = Tail(queue)
  BY <1>1, <1>2, TailConv DEF ConvInv
<1>3. CASE /\ Len(Rest) = Len(queue)
           /\ \A n \in 1..Len(queue) :
                 Rest[n] = IF n = 1 THEN [queue[1] EXCEPT !.keys = @ \ Due] ELSE queue[n]
           /\ Rest[1].wallet = NoWallet
  <2>1. \A n \in 1..Len(queue) : queue'[n].wallet = queue[n].wallet
    BY <1>1, <1>3
  <2>2. LastWrite(queue, intended) => LastWrite(queue', intended)
    BY <1>3, <2>1 DEF LastWrite
  <2>3. HasWrite(queue) => HasWrite(queue')
    BY <1>3, <2>1 DEF HasWrite
  <2> QED BY <2>2, <2>3 DEF ConvInv
<1> QED BY <1>1, <1>2, <1>3

\* With no wallet on its way no write is queued, and conversely.
LEMMA WritesQueuedIs == \A q : WritesQueued(q) = {} <=> ~ HasWrite(q)
BY DEF WritesQueued, HasWrite

\* Every step of the wallet keeps the two copies converging.
LEMMA ConvStep == TypeOK /\ ConvInv /\ [Next]_vars => ConvInv'
<1> SUFFICES ASSUME TypeOK, ConvInv, [Next]_vars PROVE ConvInv'
  OBVIOUS
<1> USE DEF walletVars, keyVars, chainVars, sessionVars, creationVars
<1>0. /\ Now \in Block /\ known \subseteq Nat /\ keysDisk \subseteq Nat
      /\ Now.wallet = wallet /\ Now.queue = queue /\ queue \in Seq(Transaction)
  BY NowType DEF TypeOK, NowBlock, Now
<1>1. CASE checkNextGeneratedKey
  <2> DEFINE now == IF generatingKey THEN Now ELSE generateNextKey(Now, FALSE)
  <2>1. now \in Block
    BY <1>0, SkipUsedWritten DEF generateNextKey
  <2>2. Run(now)
    BY <1>1 DEF checkNextGeneratedKey
  <2>3. \/ now.wallet = wallet /\ now.queue = queue
        \/ Written(now)
    BY <1>0, SkipUsedWritten DEF generateNextKey
  <2> HIDE DEF now
  <2> QED BY <2>1, <2>2, <2>3, RunConv
<1>2. ASSUME NEW via \in {"faucet", "registrar"}, createAccount(via)
      PROVE  ConvInv'
  <2> DEFINE owner  == generateNextKey(Now, TRUE)
             active == generateNextKey(owner, TRUE)
             memo   == generateNextKey(active, TRUE)
  <2>1. owner \in Block
    BY <1>0, GenerateWritten
  <2>2. active \in Block
    <3> HIDE DEF owner
    <3> QED BY <1>0, <2>1, GenerateWritten
  <2>3. memo \in Block /\ Written(memo)
    <3> HIDE DEF active
    <3> QED BY <1>0, <2>2, GenerateWritten
  <2>4. Run(memo)
    BY <1>2 DEF createAccount
  <2> HIDE DEF memo
  <2> QED BY <2>3, <2>4, RunConv
<1>3. CASE createAccountThrows
  BY <1>3, ConvUnchanged DEF createAccountThrows
<1>4. CASE Register
  BY <1>4, ConvUnchanged DEF Register
<1>5. CASE AccountCreated
  <2> DEFINE S == {creating.keys[n] : n \in 1..3}
             saved == saveKeys(Now, "all", S)
  <2>1. S \in SUBSET Nat
    BY <1>5 DEF AccountCreated, TypeOK, Creation
  <2>2. queue' = saved.queue /\ UNCHANGED <<wallet, disk, intended, unsaved>>
    BY <1>5 DEF AccountCreated
  <2>3. \/ queue' = queue
        \/ \E tx \in Transaction : tx.wallet = NoWallet /\ queue' = Append(queue, tx)
    <3> HIDE DEF S
    <3>1. \/ saved.queue = Now.queue
          \/ \E tx \in Transaction :
                tx.wallet = NoWallet /\ saved.queue = Append(Now.queue, tx)
      BY <2>1, <1>0, SaveKeysIs
    <3> HIDE DEF saved
    <3> QED BY <3>1, <2>2, <1>0
  <2>4. CASE queue' = queue
    BY <2>2, <2>4, ConvUnchanged
  <2>5. ASSUME NEW tx \in Transaction, tx.wallet = NoWallet, queue' = Append(queue, tx)
        PROVE  ConvInv'
    <3>1. LastWrite(queue, intended) => LastWrite(queue', intended)
      BY <2>5, <1>0, AppendNoWrite
    <3>2. HasWrite(queue') <=> HasWrite(queue)
      BY <2>5, <1>0, AppendNoWrite
    <3> QED BY <3>1, <3>2, <2>2 DEF ConvInv
  <2> QED BY <2>3, <2>4, <2>5
<1>6. CASE CreationRejected
  <2> DEFINE now == IF creating.via = "faucet"
                    THEN decrementBrainKeySequence(decrementBrainKeySequence(
                             decrementBrainKeySequence(Now)))
                    ELSE Now
  <2>1. now \in Block
    BY <1>0, DecrementWritten
  <2>2. Run(now)
    BY <1>6 DEF CreationRejected
  <2>3. \/ now.wallet = wallet /\ now.queue = queue
        \/ Written(now)
    BY <1>0, DecrementWritten
  <2> HIDE DEF now
  <2> QED BY <2>1, <2>2, <2>3, RunConv
<1>7. CASE resetBrainKeySequence
  <2> DEFINE now == _updateWallet(Now, WithSequence(wallet, 0))
  <2>1. WithSequence(wallet, 0) \in Wallet
    BY DEF WithSequence, Wallet, TypeOK
  <2>2. now \in Block /\ Written(now) /\ Run(now)
    BY <2>1, <1>0, <1>7, UpdateWritten DEF resetBrainKeySequence
  <2> HIDE DEF now
  <2> QED BY <2>2, RunConv
<1>8. CASE setBackupDate
  <2> DEFINE now == _updateWallet(Now, wallet)
  <2>1. now \in Block /\ Written(now) /\ Run(now)
    BY <1>0, <1>8, UpdateWritten DEF setBackupDate, TypeOK
  <2> HIDE DEF now
  <2> QED BY <2>1, RunConv
<1>9. ASSUME NEW old \in Passwords, NEW new \in Passwords, NEW unlock \in BOOLEAN,
             changePassword(old, new, unlock)
      PROVE  ConvInv'
  <2> DEFINE w   == [wallet EXCEPT !.password = new]
             now == _updateWallet(Now, w)
  <2>1. w \in Wallet
    BY DEF Wallet, TypeOK
  <2>2. Run(now)
    BY <1>9 DEF changePassword
  <2>3. now \in Block /\ Written(now)
    <3> HIDE DEF w
    <3> QED BY <2>1, <1>0, UpdateWritten
  <2> HIDE DEF now
  <2> QED BY <2>2, <2>3, RunConv
<1>10. CASE loadDbData
  <2>1. Put("load", {}) \in Transaction /\ Put("load", {}).wallet = NoWallet
    BY DEF Put, Transaction
  <2>2. queue' = Append(queue, Put("load", {})) /\ UNCHANGED <<wallet, disk, intended, unsaved>>
    BY <1>10 DEF loadDbData
  <2> QED BY <2>1, <2>2, <1>0, AppendNoWrite DEF ConvInv
<1>11. CASE CommitKeys
  BY <1>11, RestConv DEF CommitKeys
<1>12. CASE AbortKeys
  BY <1>12, RestConv DEF AbortKeys
<1>13. CASE CompleteTransaction
  <2>1. /\ queue # <<>> /\ queue[1] \in Transaction /\ queue[1].kind = "write"
        /\ queue' = Tail(queue) /\ UNCHANGED <<intended, unsaved>>
        /\ wallet' = queue[1].wallet /\ disk' = queue[1].wallet
    BY <1>13, QueueHead DEF CompleteTransaction, NextIs
  <2>2. queue[1].wallet # NoWallet
    BY <2>1, WalletAssumption DEF Transaction, Wallet
  <2> QED BY <2>1, <2>2, TailConv DEF ConvInv
<1>14. CASE AbortTransaction
  <2>1. /\ queue # <<>> /\ queue' = Tail(queue) /\ UNCHANGED <<wallet, disk, intended>>
        /\ unsaved' = (WritesQueued(queue') = {})
    BY <1>14 DEF AbortTransaction, NextIs
  <2> QED BY <2>1, TailConv, WritesQueuedIs DEF ConvInv
<1>15. CASE CompleteLoad
  <2>1. /\ queue # <<>> /\ queue[1] \in Transaction /\ queue[1].kind = "load"
        /\ queue' = Tail(queue) /\ UNCHANGED <<disk, intended, unsaved>>
        /\ wallet' \in {wallet, disk}
    BY <1>15, QueueHead DEF CompleteLoad, NextIs
  <2>2. queue[1].wallet = NoWallet
    BY <2>1 DEF Transaction
  <2> QED BY <2>1, <2>2, TailConv DEF ConvInv
<1>16. ASSUME NEW k \in inUse, LearnReferences(k)
       PROVE  ConvInv'
  BY <1>16, ConvUnchanged DEF LearnReferences
<1>17. CASE Unlock
  BY <1>17, ConvUnchanged DEF Unlock
<1>18. CASE CloudLogin
  BY <1>18, ConvUnchanged DEF CloudLogin
<1>19. CASE onLock
  BY <1>19, ConvUnchanged DEF onLock
<1>20. CASE Reload
  BY <1>20 DEF Reload, ConvInv, LastWrite, HasWrite
<1>21. CASE UNCHANGED vars
  BY <1>21, ConvUnchanged DEF vars
<1> QED
  BY <1>1, <1>2, <1>3, <1>4, <1>5, <1>6, <1>7, <1>8, <1>9, <1>10, <1>11, <1>12, <1>13,
     <1>14, <1>15, <1>16, <1>17, <1>18, <1>19, <1>20, <1>21 DEF Next

\* Both copies of the wallet hold the object of the last operation once no write is
\* queued, also after writes that aborted, unless the last operation's own write did.
THEOREM WalletConverges == Spec => []Converges
<1>1. ConvInv => Converges
  BY WritesQueuedIs DEF ConvInv, Converges
<1> QED BY <1>1, TypeInit, TypeStep, ConvInit, ConvStep, PTL DEF Spec

-----------------------------------------------------------------------------
(* The keys.                                                               *)

\* The key k is stored, or one of the transactions of q up to last stores it.
Kept(k, q, last) == k \in keysDisk \/ \E n \in 1..last : k \in q[n].keys
KeptIn(now, k) == Kept(k, now.queue, Len(now.queue))

\* Or the transaction that should have stored it failed.
Secured(now, k) == KeptIn(now, k) \/ k \in aborted

Excepted(now) == aborted \cup now.unseen \cup now.overtaken

\* Neither the disk nor a write of the block nor its wallet is ahead of k without k
\* being stored before, or excepted; and a key that RAM holds is secured.
SafeIn(now, k) ==
    /\ k < disk.brainkey_sequence => k \in keysDisk \cup Excepted(now)
    /\ \A n \in 1..Len(now.queue) :
          /\ now.queue[n].wallet # NoWallet
          /\ k < now.queue[n].wallet.brainkey_sequence
          => Kept(k, now.queue, n) \/ k \in Excepted(now)
    /\ k < now.wallet.brainkey_sequence => KeptIn(now, k) \/ k \in Excepted(now)
    /\ k \in now.ramKeys => Secured(now, k)

BlockSafe(now) == \A k \in Nat : SafeIn(now, k)

\* What is secured in one block is secured in the next.
Secures(now, next) == \A k \in Nat : Secured(now, k) => Secured(next, k)

\* A transaction is appended.
LEMMA AppendSafe ==
    ASSUME NEW now \in Block, NEW next \in Block, NEW tx \in Transaction,
           next.queue = Append(now.queue, tx),
           next.unseen = now.unseen, next.overtaken = now.overtaken
    PROVE  /\ \A k \in Nat : KeptIn(now, k) \/ k \in tx.keys => KeptIn(next, k)
           /\ \A k \in Nat :
                 /\ SafeIn(now, k)
                 /\ tx.wallet # NoWallet /\ k < tx.wallet.brainkey_sequence
                       => KeptIn(now, k) \/ k \in Excepted(now)
                 /\ k < next.wallet.brainkey_sequence => KeptIn(now, k) \/ k \in Excepted(now)
                 /\ k \in next.ramKeys => Secured(now, k) \/ k \in tx.keys
                 => SafeIn(next, k)
<1>1. now.queue \in Seq(Transaction)
  BY DEF Block
<1>2. /\ Len(now.queue) \in Nat /\ Len(next.queue) = Len(now.queue) + 1
      /\ \A n \in 1..Len(now.queue) : next.queue[n] = now.queue[n]
      /\ next.queue[Len(now.queue) + 1] = tx
  BY <1>1, AppendProperties
<1>3. \A k \in Nat : KeptIn(now, k) \/ k \in tx.keys => KeptIn(next, k)
  BY <1>2 DEF KeptIn, Kept
<1>4. Excepted(next) = Excepted(now)
  BY DEF Excepted
<1>5. ASSUME NEW k \in Nat, SafeIn(now, k),
             tx.wallet # NoWallet /\ k < tx.wallet.brainkey_sequence
                 => KeptIn(now, k) \/ k \in Excepted(now),
             k < next.wallet.brainkey_sequence => KeptIn(now, k) \/ k \in Excepted(now),
             k \in next.ramKeys => Secured(now, k) \/ k \in tx.keys
      PROVE  SafeIn(next, k)
  <2>1. ASSUME NEW n \in 1..Len(next.queue), next.queue[n].wallet # NoWallet,
               k < next.queue[n].wallet.brainkey_sequence, k \notin Excepted(now)
        PROVE  Kept(k, next.queue, n)
    <3>1. CASE n \in 1..Len(now.queue)
      <4>1. next.queue[n] = now.queue[n]
        BY <1>2, <3>1
      <4>2. Kept(k, now.queue, n)
        BY <4>1, <3>1, <2>1, <1>5 DEF SafeIn
      <4>3. \A m \in 1..n : next.queue[m] = now.queue[m]
        BY <1>2, <3>1
      <4> QED BY <4>2, <4>3 DEF Kept
    <3>2. CASE n = Len(now.queue) + 1
      <4>1. KeptIn(next, k)
        BY <3>2, <2>1, <1>2, <1>3, <1>5
      <4> QED BY <4>1, <3>2, <1>2 DEF KeptIn
    <3> QED BY <3>1, <3>2, <1>2
  <2>2. k < disk.brainkey_sequence => k \in keysDisk \cup Excepted(next)
    BY <1>4, <1>5 DEF SafeIn
  <2>3. k < next.wallet.brainkey_sequence => KeptIn(next, k) \/ k \in Excepted(next)
    BY <1>3, <1>4, <1>5
  <2>4. k \in next.ramKeys => Secured(next, k)
    BY <1>3, <1>5 DEF Secured
  <2> QED BY <2>1, <2>2, <2>3, <2>4, <1>4 DEF SafeIn
<1> QED BY <1>3, <1>5

\* A wallet is written that is ahead of keys kept or excepted only.
LEMMA UpdateSafe ==
    ASSUME NEW now \in Block, NEW w \in Wallet, BlockSafe(now),
           \A k \in Nat : k < w.brainkey_sequence => KeptIn(now, k) \/ k \in Excepted(now)
    PROVE  BlockSafe(_updateWallet(now, w)) /\ Secures(now, _updateWallet(now, w))
<1> DEFINE next == _updateWallet(now, w)
           tx   == Write(w)
<1>1. /\ next \in Block /\ next.wallet = w /\ next.ramKeys = now.ramKeys
      /\ tx \in Transaction /\ tx.wallet = w /\ next.queue = Append(now.queue, tx)
      /\ next.unseen = now.unseen /\ next.overtaken = now.overtaken
  BY UpdateIs
<1> HIDE DEF next, tx
<1>2. \A k \in Nat : k \in next.ramKeys => Secured(now, k)
  BY <1>1 DEF BlockSafe, SafeIn
<1>3. \A k \in Nat : KeptIn(now, k) => KeptIn(next, k)
  BY <1>1, AppendSafe
<1>4. \A k \in Nat : SafeIn(next, k)
  BY <1>1, <1>2, AppendSafe DEF BlockSafe
<1> QED BY <1>3, <1>4 DEF BlockSafe, Secures, Secured, next

\* A write that does not move the sequence forward.
LEMMA BackSafe ==
    ASSUME NEW now \in Block, NEW w \in Wallet, BlockSafe(now),
           w.brainkey_sequence <= now.wallet.brainkey_sequence
    PROVE  BlockSafe(_updateWallet(now, w)) /\ Secures(now, _updateWallet(now, w))
<1>1. w.brainkey_sequence \in Nat /\ now.wallet.brainkey_sequence \in Nat
  BY DEF Wallet, Block
<1>2. \A k \in Nat : k < w.brainkey_sequence => KeptIn(now, k) \/ k \in Excepted(now)
  BY <1>1 DEF BlockSafe, SafeIn
<1> QED BY <1>2, UpdateSafe

\* decrementBrainKeySequence moves the sequence back.
LEMMA DecrementSafe ==
    ASSUME NEW now \in Block, BlockSafe(now)
    PROVE  LET next == decrementBrainKeySequence(now)
           IN  next \in Block /\ BlockSafe(next) /\ Secures(now, next)
<1> DEFINE w == WithSequence(now.wallet, AtLeastZero(now.wallet.brainkey_sequence - 1))
<1>1. w \in Wallet /\ w.brainkey_sequence <= now.wallet.brainkey_sequence
  BY DEF WithSequence, Block, Wallet, AtLeastZero
<1>2. decrementBrainKeySequence(now) = _updateWallet(now, w)
  BY DEF decrementBrainKeySequence
<1> HIDE DEF w
<1> QED BY <1>1, <1>2, BackSafe, UpdateWritten

\* Keys are saved: those that RAM held already are secured, the others are queued.
LEMMA SaveSafe ==
    ASSUME NEW now \in Block, NEW S \in SUBSET Nat, NEW kind \in {"each", "all"},
           BlockSafe(now)
    PROVE  LET saved == saveKeys(now, kind, S)
           IN  /\ saved \in Block /\ saved.wallet = now.wallet
               /\ BlockSafe(saved) /\ Secures(now, saved)
               /\ Excepted(saved) = Excepted(now)
               /\ \A k \in S : Secured(saved, k)
               /\ \A k \in Nat : KeptIn(now, k) => KeptIn(saved, k)
<1> DEFINE saved == saveKeys(now, kind, S)
<1>1. /\ saved \in Block /\ saved.wallet = now.wallet
      /\ saved.unseen = now.unseen /\ saved.overtaken = now.overtaken
      /\ saved.ramKeys = now.ramKeys \cup S
      /\ \/ saved.queue = now.queue /\ S \subseteq now.ramKeys
         \/ \E tx \in Transaction :
               /\ tx.wallet = NoWallet /\ tx.keys = S \ now.ramKeys
               /\ saved.queue = Append(now.queue, tx)
  <2>1. /\ saved \in Block /\ saved.wallet = now.wallet
        /\ saved.unseen = now.unseen /\ saved.overtaken = now.overtaken
        /\ saved.ramKeys = now.ramKeys \cup S
    BY SaveKeysIs
  <2>2. \/ saved.queue = now.queue /\ S \subseteq now.ramKeys
        \/ \E tx \in Transaction :
              /\ tx.wallet = NoWallet /\ tx.keys = S \ now.ramKeys
              /\ saved.queue = Append(now.queue, tx)
    BY SaveKeysIs
  <2> QED BY <2>1, <2>2
<1> HIDE DEF saved
<1>2. Excepted(saved) = Excepted(now)
  BY <1>1 DEF Excepted
<1>3. \A k \in Nat : k \in now.ramKeys => Secured(now, k)
  BY DEF BlockSafe, SafeIn
<1>4. ASSUME NEW tx \in Transaction, tx.wallet = NoWallet, tx.keys = S \ now.ramKeys,
             saved.queue = Append(now.queue, tx)
      PROVE  /\ BlockSafe(saved) /\ Secures(now, saved)
             /\ \A k \in S : Secured(saved, k)
             /\ \A k \in Nat : KeptIn(now, k) => KeptIn(saved, k)
  <2>1. \A k \in Nat : KeptIn(now, k) \/ k \in tx.keys => KeptIn(saved, k)
    BY <1>1, <1>4, AppendSafe
  <2>2. ASSUME NEW k \in Nat PROVE SafeIn(saved, k)
    <3>1. SafeIn(now, k)
      BY DEF BlockSafe
    <3>2. k < saved.wallet.brainkey_sequence => KeptIn(now, k) \/ k \in Excepted(now)
      BY <3>1, <1>1 DEF SafeIn
    <3>3. k \in saved.ramKeys => Secured(now, k) \/ k \in tx.keys
      BY <1>1, <1>3, <1>4
    <3> QED BY <3>1, <3>2, <3>3, <1>1, <1>4, AppendSafe
  <2>3. \A k \in S : Secured(saved, k)
    BY <2>1, <1>1, <1>3, <1>4 DEF Secured
  <2> QED BY <2>1, <2>2, <2>3, <1>1 DEF BlockSafe, Secures, Secured
<1>5. ASSUME saved.queue = now.queue, S \subseteq now.ramKeys
      PROVE  /\ BlockSafe(saved) /\ Secures(now, saved)
             /\ \A k \in S : Secured(saved, k)
             /\ \A k \in Nat : KeptIn(now, k) => KeptIn(saved, k)
  <2>1. \A k \in Nat : KeptIn(now, k) <=> KeptIn(saved, k)
    BY <1>5 DEF KeptIn
  <2>2. ASSUME NEW k \in Nat PROVE SafeIn(saved, k)
    <3>1. SafeIn(now, k)
      BY DEF BlockSafe
    <3>2. k \in saved.ramKeys => Secured(saved, k)
      BY <1>1, <1>3, <1>5, <2>1 DEF Secured
    <3> QED BY <3>1, <3>2, <2>1, <1>1, <1>2, <1>5 DEF SafeIn
  <2>3. \A k \in S : Secured(saved, k)
    BY <2>1, <1>3, <1>5 DEF Secured
  <2> QED BY <2>1, <2>2, <2>3, <1>1 DEF BlockSafe, Secures, Secured
<1> QED BY <1>1, <1>2, <1>4, <1>5 DEF saved

\* A block in which only the exceptions have grown, or which forgets one that is
\* not needed.
LEMMA ExceptSafe ==
    ASSUME NEW now \in Block, NEW next \in Block, BlockSafe(now),
           next.wallet = now.wallet, next.queue = now.queue, next.ramKeys = now.ramKeys,
           NEW k \in Nat, k \in Excepted(now) => k \in Excepted(next)
    PROVE  SafeIn(next, k)
<1>1. SafeIn(now, k)
  BY DEF BlockSafe
<1>2. KeptIn(now, k) <=> KeptIn(next, k)
  BY DEF KeptIn
<1> QED BY <1>1, <1>2 DEF SafeIn, Secured

\* The look-ahead moves the sequence forward, over keys that it saves or excepts.
LEMMA SkipSafe ==
    ASSUME NEW now \in Block, known \subseteq Nat, keysDisk \subseteq Nat, BlockSafe(now)
    PROVE  LET skipped == SkipUsed(now)
           IN  /\ skipped \in Block
               /\ now.wallet.brainkey_sequence <= skipped.wallet.brainkey_sequence
               /\ BlockSafe(skipped) /\ Secures(now, skipped)
<1>0. now.wallet \in Wallet /\ now.wallet.brainkey_sequence \in Nat
  BY DEF Block, Wallet
<1>1. PICK looked \in Block :
        /\ looked.wallet = now.wallet /\ looked.queue = now.queue
        /\ looked.ramKeys = now.ramKeys
        /\ looked.unseen = now.unseen /\ looked.overtaken = now.overtaken
        /\ \/ SkipUsed(now) = looked
           \/ \E last \in Nat, w \in Wallet, P \in SUBSET Nat :
                /\ last \in Window(now) \cap known /\ w.brainkey_sequence = last + 1
                /\ P = {k \in Window(now) \ known : k < last} \ keysDisk
                /\ SkipUsed(now) = Jump(looked, Window(now) \cap known, w, P)
  BY SkipUsedIs
<1>2. BlockSafe(looked) /\ Secures(now, looked)
  BY <1>1, ExceptSafe DEF BlockSafe, Secures, Secured, KeptIn, Excepted
<1>3. CASE SkipUsed(now) = looked
  BY <1>0, <1>1, <1>2, <1>3
<1>4. ASSUME NEW last \in Nat, NEW w \in Wallet, NEW P \in SUBSET Nat,
             last \in Window(now) \cap known, w.brainkey_sequence = last + 1,
             P = {k \in Window(now) \ known : k < last} \ keysDisk,
             SkipUsed(now) = Jump(looked, Window(now) \cap known, w, P)
      PROVE  LET skipped == SkipUsed(now)
             IN  /\ skipped \in Block
                 /\ now.wallet.brainkey_sequence <= skipped.wallet.brainkey_sequence
                 /\ BlockSafe(skipped) /\ Secures(now, skipped)
  <2> DEFINE used   == Window(now) \cap known
             saved  == saveKeys(looked, "each", used)
             passes == [saved EXCEPT !.unseen = @ \cup P]
             moved  == _updateWallet(passes, w)
             skipped == SkipUsed(now)
  <2>1. /\ saved \in Block /\ saved.wallet = now.wallet
        /\ BlockSafe(saved) /\ Secures(looked, saved)
        /\ \A k \in used : Secured(saved, k)
    <3>1. used \in SUBSET Nat
      OBVIOUS
    <3> HIDE DEF used
    <3> QED BY <3>1, <1>1, <1>2, SaveSafe
  <2> HIDE DEF saved
  <2>2. /\ passes \in Block /\ passes.wallet = now.wallet /\ passes.queue = saved.queue
        /\ passes.ramKeys = saved.ramKeys /\ passes.overtaken = saved.overtaken
        /\ passes.unseen = saved.unseen \cup P
    BY <2>1 DEF Block
  <2> HIDE DEF passes
  <2>3. BlockSafe(passes) /\ Secures(saved, passes)
    BY <2>1, <2>2, ExceptSafe DEF BlockSafe, Secures, Secured, KeptIn, Excepted
  <2>4. ASSUME NEW k \in Nat, k < w.brainkey_sequence
        PROVE  KeptIn(passes, k) \/ k \in Excepted(passes)
    <3>1. CASE k < now.wallet.brainkey_sequence
      BY <3>1, <2>2, <2>3 DEF BlockSafe, SafeIn
    <3>2. CASE now.wallet.brainkey_sequence <= k
      <4>1. k \in Window(now)
        <5> DEFINE ahead == Smaller(LookAheadLimit, now.lookAhead + 1)
                   end   == IF now.wallet.brainkey_sequence = 0
                            THEN Larger(ahead, LookAheadLimit)
                            ELSE now.wallet.brainkey_sequence + ahead
        <5>1. Window(now) = now.wallet.brainkey_sequence .. end - 1
          BY DEF Window
        <5>2. end \in Nat
          BY <1>0, WalletAssumption DEF Smaller, Larger, Block
        <5> HIDE DEF end
        <5> QED BY <5>1, <5>2, <3>2, <2>4, <1>0, <1>4
      <4>2. CASE k \in known
        <5>1. Secured(saved, k)
          BY <4>1, <4>2, <2>1
        <5> QED BY <5>1, <2>3 DEF Secures, Secured, Excepted
      <4>3. CASE k \notin known
        <5>1. k < last \/ k = last
          BY <2>4, <1>4
        <5>2. CASE k < last
          BY <5>2, <4>1, <4>3, <2>2, <1>4 DEF Excepted, KeptIn, Kept
        <5>3. CASE k = last
          BY <5>3, <4>3, <1>4
        <5> QED BY <5>1, <5>2, <5>3
      <4> QED BY <4>2, <4>3
    <3> QED BY <3>1, <3>2, <1>0
  <2>5. /\ moved \in Block /\ BlockSafe(moved) /\ Secures(passes, moved)
        /\ moved.wallet = w /\ moved.queue = Append(saved.queue, Write(w))
        /\ moved.ramKeys = saved.ramKeys /\ moved.overtaken = saved.overtaken
        /\ moved.unseen = saved.unseen \cup P
    <3>1. BlockSafe(moved) /\ Secures(passes, moved)
      BY <2>2, <2>3, <2>4, UpdateSafe
    <3>2. /\ moved \in Block /\ moved.wallet = w
          /\ moved.queue = Append(passes.queue, Write(w))
          /\ moved.ramKeys = passes.ramKeys
          /\ moved.unseen = passes.unseen /\ moved.overtaken = passes.overtaken
      BY <2>2, UpdateIs
    <3> HIDE DEF moved
    <3> QED BY <3>1, <3>2, <2>2
  <2>6. /\ skipped \in Block
        /\ skipped.wallet = w /\ skipped.queue = Append(saved.queue, Write(w))
        /\ skipped.ramKeys = saved.ramKeys /\ skipped.overtaken = saved.overtaken
        /\ skipped.unseen = saved.unseen \cup P
    <3> DEFINE u == _updateWallet(saved, w)
    <3>1. /\ u \in Block /\ u.wallet = w /\ u.queue = Append(saved.queue, Write(w))
          /\ u.ramKeys = saved.ramKeys /\ u.overtaken = saved.overtaken
          /\ u.unseen = saved.unseen
      BY <2>1, UpdateIs
    <3>2. skipped = [u EXCEPT !.unseen = @ \cup P]
      BY <1>4 DEF Jump, saved
    <3> HIDE DEF u, skipped
    <3> QED BY <3>1, <3>2 DEF Block
  <2> HIDE DEF moved, skipped
  <2>7. BlockSafe(skipped) /\ Secures(moved, skipped)
    BY <2>5, <2>6, ExceptSafe DEF BlockSafe, Secures, Secured, KeptIn, Excepted
  <2>8. Secures(now, skipped)
    BY <1>2, <2>1, <2>3, <2>5, <2>7 DEF Secures
  <2>9. now.wallet.brainkey_sequence <= skipped.wallet.brainkey_sequence
    <3>1. now.wallet.brainkey_sequence <= last
      BY <1>0, <1>4 DEF Window
    <3> QED BY <3>1, <2>6, <1>0, <1>4
  <2> QED BY <2>6, <2>7, <2>8, <2>9 DEF skipped
<1> QED BY <1>1, <1>3, <1>4

\* A key that is taken is passed over no more, and excepted if it has to be.
LEMMA TakenSafe ==
    ASSUME NEW now \in Block, NEW k \in Nat, BlockSafe(now),
           now.wallet.brainkey_sequence <= k
    PROVE  LET taken == Taken(now, k)
           IN  /\ taken \in Block /\ taken.wallet = now.wallet
               /\ BlockSafe(taken) /\ Secures(now, taken)
<1> DEFINE taken == Taken(now, k)
           Ahead == {j \in {k} : \E w \in {disk} \cup WritesQueued(now.queue) :
                                    j < w.brainkey_sequence}
<1>1. /\ taken \in Block /\ taken.wallet = now.wallet /\ taken.queue = now.queue
      /\ taken.ramKeys = now.ramKeys
      /\ \/ k \in keysDisk \cup KeysQueued(now.queue) /\ taken = now
         \/ /\ k \notin keysDisk \cup KeysQueued(now.queue)
            /\ taken.unseen = now.unseen \ {k}
            /\ taken.overtaken = now.overtaken \cup Ahead
  BY TakenIs
<1> HIDE DEF taken
<1>2. CASE taken = now
  BY <1>1, <1>2 DEF Secures, taken
<1>3. CASE /\ k \notin keysDisk \cup KeysQueued(now.queue)
           /\ taken.unseen = now.unseen \ {k}
           /\ taken.overtaken = now.overtaken \cup Ahead
  <2>1. \A j \in Nat : KeptIn(now, j) <=> KeptIn(taken, j)
    BY <1>1 DEF KeptIn
  <2>2. ~ KeptIn(now, k)
    BY <1>3 DEF KeptIn, Kept, KeysQueued
  <2>3. ASSUME NEW j \in Nat, j # k PROVE SafeIn(taken, j)
    <3>1. j \in Excepted(now) => j \in Excepted(taken)
      BY <2>3, <1>3 DEF Excepted
    <3> QED BY <3>1, <1>1, ExceptSafe
  <2>4. SafeIn(taken, k)
    <3>1. SafeIn(now, k)
      BY DEF BlockSafe
    <3>2. k \in taken.ramKeys => Secured(taken, k)
      BY <3>1, <1>1, <2>1 DEF SafeIn, Secured
    <3>3. k < disk.brainkey_sequence => k \in Excepted(taken)
      BY <1>3 DEF Excepted
    <3>4. ASSUME NEW n \in 1..Len(taken.queue), taken.queue[n].wallet # NoWallet,
                 k < taken.queue[n].wallet.brainkey_sequence
          PROVE  k \in Excepted(taken)
      <4>1. taken.queue[n].wallet \in WritesQueued(now.queue)
        BY <3>4, <1>1 DEF WritesQueued
      <4>2. k \in Ahead
        BY <4>1, <3>4
      <4> HIDE DEF Ahead
      <4> QED BY <4>2, <1>3 DEF Excepted
    <3>5. ~ (k < taken.wallet.brainkey_sequence)
      BY <1>1 DEF Block, Wallet
    <3> QED BY <3>2, <3>3, <3>4, <3>5 DEF SafeIn
  <2> QED BY <2>1, <2>3, <2>4, <1>1 DEF BlockSafe, Secures, Secured, taken
<1> QED BY <1>1, <1>2, <1>3

\* generateNextKey secures the key it returns, and moves the sequence behind it.
LEMMA GenerateSafe ==
    ASSUME NEW now \in Block, known \subseteq Nat, keysDisk \subseteq Nat, BlockSafe(now)
    PROVE  LET next == generateNextKey(now, TRUE)
           IN  /\ NextKey(now) \in Nat /\ now.wallet.brainkey_sequence <= NextKey(now)
               /\ next \in Block /\ next.wallet.brainkey_sequence = NextKey(now) + 1
               /\ BlockSafe(next) /\ Secures(now, next) /\ Secured(next, NextKey(now))
<1> DEFINE skipped == SkipUsed(now)
           key     == NextKey(now)
           taken   == Taken(skipped, key)
           saved   == saveKeys(taken, "each", {key})
           w       == WithSequence(saved.wallet, key + 1)
           next    == generateNextKey(now, TRUE)
<1>1. /\ skipped \in Block /\ key = skipped.wallet.brainkey_sequence
      /\ now.wallet.brainkey_sequence <= key
      /\ BlockSafe(skipped) /\ Secures(now, skipped)
  BY SkipSafe DEF NextKey
<1>2. key \in Nat /\ {key} \in SUBSET Nat
  <2> HIDE DEF key, skipped
  <2> QED BY <1>1 DEF Block, Wallet
<1> HIDE DEF skipped, key
<1>3. /\ taken \in Block /\ taken.wallet = skipped.wallet
      /\ BlockSafe(taken) /\ Secures(skipped, taken)
  <2>1. skipped.wallet.brainkey_sequence <= key
    BY <1>1, <1>2
  <2> QED BY <2>1, <1>1, <1>2, TakenSafe
<1> HIDE DEF taken
<1>4. /\ saved \in Block /\ saved.wallet = skipped.wallet
      /\ BlockSafe(saved) /\ Secures(taken, saved) /\ Secured(saved, key)
  BY <1>2, <1>3, SaveSafe
<1>5. next = _updateWallet(saved, w)
  <2>1. next = incrementBrainKeySequence(saved)
    BY <1>1 DEF generateNextKey, skipped, taken
  <2> HIDE DEF next, saved
  <2> QED BY <2>1, <1>1, <1>4 DEF incrementBrainKeySequence
<1> HIDE DEF saved
<1>6. w \in Wallet /\ w.brainkey_sequence = key + 1
  <2>1. saved.wallet \in Wallet /\ key + 1 \in Nat
    BY <1>2, <1>4 DEF Block
  <2> QED BY <2>1 DEF WithSequence, Wallet
<1> HIDE DEF w, next
<1>7. \A k \in Nat : k < w.brainkey_sequence => KeptIn(saved, k) \/ k \in Excepted(saved)
  <2> SUFFICES ASSUME NEW k \in Nat, k < w.brainkey_sequence
               PROVE  KeptIn(saved, k) \/ k \in Excepted(saved)
    OBVIOUS
  <2>1. CASE k = key
    BY <2>1, <1>4 DEF Secured, Excepted
  <2>2. CASE k < key
    BY <2>2, <1>1, <1>4 DEF BlockSafe, SafeIn
  <2> QED BY <2>1, <2>2, <1>2, <1>6
<1>8. /\ next \in Block /\ next.wallet = w
      /\ BlockSafe(next) /\ Secures(saved, next)
  BY <1>4, <1>5, <1>6, <1>7, UpdateSafe, UpdateIs
<1>9. Secures(now, next) /\ Secured(next, key)
  BY <1>1, <1>2, <1>3, <1>4, <1>8 DEF Secures
<1> QED BY <1>1, <1>2, <1>6, <1>8, <1>9 DEF key, next

\* What holds in a block holds in the state that stores it.
LEMMA StoreSafe ==
    ASSUME NEW now \in Block, BlockSafe(now),
           wallet' = now.wallet, queue' = now.queue, ramKeys' = now.ramKeys,
           unseen' = now.unseen, overtaken' = now.overtaken,
           UNCHANGED <<disk, keysDisk, aborted>>
    PROVE  /\ BlockSafe(Now)'
           /\ \A k \in Nat : Secured(now, k) => Secured(Now, k)'
<1>1. \A k \in Nat : KeptIn(now, k) <=> KeptIn(Now, k)'
  BY DEF KeptIn, Kept, Now
<1>2. \A k \in Nat : Secured(now, k) => Secured(Now, k)'
  BY <1>1 DEF Secured
<1>3. ASSUME NEW k \in Nat PROVE SafeIn(Now, k)'
  <2>1. SafeIn(now, k)
    BY DEF BlockSafe
  <2>2. Excepted(now) = Excepted(Now)'
    BY DEF Excepted, Now
  <2>3. \A n : Kept(k, now.queue, n) => Kept(k, Now.queue, n)'
    BY DEF Kept, Now
  <2>4. /\ Now.wallet' = now.wallet /\ Now.queue' = now.queue /\ Now.ramKeys' = now.ramKeys
    BY DEF Now
  <2> QED BY <2>1, <2>2, <2>3, <2>4, <1>1, <1>2 DEF SafeIn
<1> QED BY <1>2, <1>3 DEF BlockSafe

CreationKeys == IF creating = NoCreation THEN {} ELSE {creating.keys[n] : n \in 1..3}

\* The keys of the accounts of this page are secured, and those of one account are
\* in their order.
OwnKeysInv ==
    /\ \A k \in CreationKeys \cup registered : Secured(Now, k)
    /\ registered \cap keysDisk = {}
    /\ creating # NoCreation =>
          creating.keys[1] < creating.keys[2] /\ creating.keys[2] < creating.keys[3]

KeysInv == BlockSafe(Now) /\ OwnKeysInv

\* A new wallet.
LEMMA KeysInit == Init => KeysInv
BY DEF Init, KeysInv, BlockSafe, OwnKeysInv, CreationKeys, SafeIn, Secured, KeptIn, Kept,
       Now, NewWallet

\* The keys that the invariant is about.
LEMMA OwnKeysType ==
    ASSUME TypeOK
    PROVE  /\ CreationKeys \subseteq Nat /\ registered \subseteq Nat
           /\ known \subseteq Nat /\ keysDisk \subseteq Nat /\ wallet \in Wallet
           /\ Now \in Block /\ Now.wallet = wallet /\ Now.queue = queue
           /\ Now.ramKeys = ramKeys /\ Now.unseen = unseen /\ Now.overtaken = overtaken
BY NowType DEF TypeOK, CreationKeys, Creation, NowBlock, Now

\* A step that leaves the wallet and the keys alone.
LEMMA KeysUnchanged ==
    ASSUME TypeOK, KeysInv,
           UNCHANGED <<wallet, disk, queue, keysDisk, ramKeys, aborted, unseen, overtaken,
                       creating, registered>>
    PROVE  KeysInv'
<1>1. BlockSafe(Now)' /\ \A k \in Nat : Secured(Now, k) => Secured(Now, k)'
  BY StoreSafe, OwnKeysType DEF KeysInv
<1>2. CreationKeys' = CreationKeys
  BY DEF CreationKeys
<1> QED BY <1>1, <1>2, OwnKeysType DEF KeysInv, OwnKeysInv

\* A step in which what is secured remains so, and no creation begins.
LEMMA KeysKept ==
    ASSUME TypeOK, KeysInv, BlockSafe(Now)',
           \A k \in Nat : Secured(Now, k) => Secured(Now, k)',
           creating' = NoCreation \/ (creating # NoCreation /\ creating'.keys = creating.keys)
               \/ creating' = creating,
           registered' \subseteq registered \cup CreationKeys,
           registered' \cap keysDisk' = {}
    PROVE  KeysInv'
<1>1. CreationKeys' \subseteq CreationKeys
  BY DEF CreationKeys
<1> QED BY <1>1, OwnKeysType DEF KeysInv, OwnKeysInv

\* A block is run that secures what was secured.
LEMMA KeysRun ==
    ASSUME TypeOK, KeysInv, NEW now \in Block, Run(now), BlockSafe(now), Secures(Now, now),
           creating' = creating \/ creating' = NoCreation, registered' = registered
    PROVE  KeysInv'
<1>1. /\ BlockSafe(Now)' /\ \A k \in Nat : Secured(now, k) => Secured(Now, k)'
      /\ keysDisk' = keysDisk
  BY StoreSafe DEF Run
<1>2. registered' \cap keysDisk' = {}
  BY <1>1 DEF KeysInv, OwnKeysInv
<1> QED BY <1>1, <1>2, KeysKept DEF Secures

\* createAccount secures its three keys.
LEMMA KeysCreate ==
    ASSUME TypeOK, KeysInv, NEW via \in {"faucet", "registrar"}, createAccount(via)
    PROVE  KeysInv'
<1> DEFINE owner  == generateNextKey(Now, TRUE)
           active == generateNextKey(owner, TRUE)
           memo   == generateNextKey(active, TRUE)
           first  == NextKey(Now)
           second == NextKey(owner)
           third  == NextKey(active)
<1>0. known \subseteq Nat /\ keysDisk \subseteq Nat /\ Now \in Block /\ BlockSafe(Now)
  BY OwnKeysType DEF KeysInv
<1>1. /\ owner \in Block /\ BlockSafe(owner) /\ Secures(Now, owner)
      /\ first \in Nat /\ owner.wallet.brainkey_sequence = first + 1 /\ Secured(owner, first)
  BY <1>0, GenerateSafe
<1>2. /\ active \in Block /\ BlockSafe(active) /\ Secures(owner, active)
      /\ owner.wallet.brainkey_sequence <= second
      /\ second \in Nat /\ active.wallet.brainkey_sequence = second + 1
      /\ Secured(active, second)
  <2> HIDE DEF owner
  <2> QED BY <1>0, <1>1, GenerateSafe
<1>3. /\ memo \in Block /\ BlockSafe(memo) /\ Secures(active, memo)
      /\ active.wallet.brainkey_sequence <= third
      /\ third \in Nat /\ Secured(memo, third)
  <2> HIDE DEF active
  <2> QED BY <1>0, <1>2, GenerateSafe
<1>4. /\ Run(memo) /\ registered' = registered /\ creating'.keys = <<first, second, third>>
  BY <1>2 DEF createAccount
<1> HIDE DEF owner, active, memo, first, second, third
<1>5. /\ BlockSafe(Now)' /\ \A k \in Nat : Secured(memo, k) => Secured(Now, k)'
      /\ keysDisk' = keysDisk
  BY <1>3, <1>4, StoreSafe DEF Run
<1>6. /\ Secured(memo, first) /\ Secured(memo, second) /\ Secured(memo, third)
      /\ \A k \in Nat : Secured(Now, k) => Secured(memo, k)
  BY <1>1, <1>2, <1>3 DEF Secures
<1>7. first < second /\ second < third
  BY <1>1, <1>2, <1>3
<1>8. creating'.keys[1] = first /\ creating'.keys[2] = second /\ creating'.keys[3] = third
  BY <1>4
<1>9. CreationKeys' \subseteq {first, second, third}
  <2>1. \A n \in 1..3 : n = 1 \/ n = 2 \/ n = 3
    OBVIOUS
  <2> QED BY <2>1, <1>8 DEF CreationKeys
<1>10. \A k \in CreationKeys' \cup registered' : Secured(Now, k)'
  BY <1>1, <1>2, <1>3, <1>4, <1>5, <1>6, <1>9, OwnKeysType DEF KeysInv, OwnKeysInv
<1>11. registered' \cap keysDisk' = {}
  BY <1>4, <1>5 DEF KeysInv, OwnKeysInv
<1> QED BY <1>5, <1>7, <1>8, <1>10, <1>11 DEF KeysInv, OwnKeysInv

\* The step at the head of the queue: what was behind it moves up by d places, and
\* keys that leave it are stored or excepted.
Advance(d) ==
    /\ d \in {0, 1}
    /\ Len(queue') = Len(queue) - d
    /\ \A n \in 1..Len(queue) :
          n - d >= 1 => /\ queue'[n - d].wallet = queue[n].wallet
                        /\ queue[n].keys \subseteq queue'[n - d].keys \cup keysDisk' \cup aborted'
    /\ d = 1 => queue[1].keys \subseteq keysDisk' \cup aborted'
    /\ keysDisk \subseteq keysDisk' /\ aborted \subseteq aborted' \cup keysDisk'
    /\ unseen \subseteq unseen' \cup keysDisk' /\ overtaken \subseteq overtaken' \cup keysDisk'
    /\ \/ disk' = disk
       \/ d = 1 /\ queue[1].wallet # NoWallet /\ disk' = queue[1].wallet
    /\ wallet' = wallet \/ wallet' = disk'
    /\ ramKeys' \subseteq ramKeys \cup keysDisk'

\* Such a step keeps the block safe.
LEMMA AdvanceSafe ==
    ASSUME TypeOK, BlockSafe(Now), queue # <<>>, NEW d, Advance(d)
    PROVE  /\ BlockSafe(Now)'
           /\ \A k \in Nat : Secured(Now, k) => Secured(Now, k)'
<1>0. d \in {0, 1} /\ Len(queue) \in Nat \ {0} /\ Len(queue') = Len(queue) - d
  BY QueueHead DEF Advance
<1>1. /\ keysDisk \subseteq keysDisk' /\ aborted \subseteq aborted' \cup keysDisk'
      /\ unseen \subseteq unseen' \cup keysDisk' /\ overtaken \subseteq overtaken' \cup keysDisk'
  BY DEF Advance
<1>2. /\ Now.queue = queue /\ Now.wallet = wallet /\ Now.ramKeys = ramKeys
      /\ Excepted(Now) = aborted \cup unseen \cup overtaken
      /\ Now.queue' = queue' /\ Now.wallet' = wallet' /\ Now.ramKeys' = ramKeys'
      /\ Excepted(Now)' = aborted' \cup unseen' \cup overtaken'
  BY DEF Now, Excepted
<1>3. ASSUME NEW k \in Nat, NEW n \in 1..Len(queue), Kept(k, queue, n)
      PROVE  Kept(k, queue, n - d)' \/ k \in aborted'
  <2>1. CASE k \in keysDisk
    BY <2>1, <1>1 DEF Kept
  <2>2. ASSUME NEW m \in 1..n, k \in queue[m].keys
        PROVE  Kept(k, queue, n - d)' \/ k \in aborted'
    <3>1. CASE m - d >= 1
      <4>1. m \in 1..Len(queue) /\ m - d \in 1..(n - d)
        BY <3>1, <1>0
      <4>2. k \in queue'[m - d].keys \cup keysDisk' \cup aborted'
        BY <4>1, <3>1, <2>2 DEF Advance
      <4>3. PICK p \in 1..(n - d) : p = m - d
        BY <4>1
      <4> QED BY <4>2, <4>3 DEF Kept
    <3>2. CASE ~ (m - d >= 1)
      <4>1. m = 1 /\ d = 1
        BY <3>2, <1>0
      <4> QED BY <4>1, <2>2 DEF Advance, Kept
    <3> QED BY <3>1, <3>2
  <2> QED BY <2>1, <2>2, <1>3 DEF Kept
<1>4. ASSUME NEW k \in Nat, KeptIn(Now, k)
      PROVE  Secured(Now, k)'
  <2>1. PICK last \in Nat : last = Len(queue)
    BY <1>0
  <2>2. last \in 1..Len(queue) /\ last - d = Len(queue')
    BY <2>1, <1>0
  <2>3. Kept(k, queue, last)
    BY <2>1, <1>2, <1>4 DEF KeptIn
  <2>4. Kept(k, queue, last - d)' \/ k \in aborted'
    BY <2>2, <2>3, <1>3
  <2>5. k \in keysDisk' \/ (\E n \in 1..Len(queue') : k \in queue'[n].keys) \/ k \in aborted'
    BY <2>2, <2>4 DEF Kept
  <2> QED BY <2>5, <1>2 DEF Secured, KeptIn, Kept
<1>5. ASSUME NEW k \in Nat, k \in aborted
      PROVE  Secured(Now, k)'
  BY <1>5, <1>1 DEF Secured, KeptIn, Kept
<1>6. \A k \in Nat : Secured(Now, k) => Secured(Now, k)'
  BY <1>4, <1>5 DEF Secured
<1>7. \A k \in Excepted(Now) : k \in keysDisk' \/ k \in Excepted(Now)'
  BY <1>1, <1>2
<1>8. ASSUME NEW k \in Nat PROVE SafeIn(Now, k)'
  <2>0. SafeIn(Now, k)
    BY DEF BlockSafe
  <2>1. k < disk'.brainkey_sequence => k \in keysDisk' \/ k \in Excepted(Now)'
    <3>1. CASE disk' = disk
      BY <3>1, <2>0, <1>1, <1>7 DEF SafeIn
    <3>2. ASSUME d = 1, queue[1].wallet # NoWallet, disk' = queue[1].wallet,
                 k < disk'.brainkey_sequence
          PROVE  k \in keysDisk' \/ k \in Excepted(Now)'
      <4>1. Kept(k, queue, 1) \/ k \in Excepted(Now)
        BY <3>2, <2>0, <1>0, <1>2 DEF SafeIn
      <4>2. queue[1].keys \subseteq keysDisk' \cup aborted'
        BY <3>2 DEF Advance
      <4> QED BY <4>1, <4>2, <1>1, <1>2, <1>7 DEF Kept
    <3> QED BY <3>1, <3>2 DEF Advance
  <2>2. ASSUME NEW n \in 1..Len(queue'), queue'[n].wallet # NoWallet,
               k < queue'[n].wallet.brainkey_sequence
        PROVE  Kept(k, queue, n)' \/ k \in Excepted(Now)'
    <3>1. PICK m \in 1..Len(queue) : m = n + d
      BY <1>0
    <3>2. m - d = n /\ n >= 1
      BY <3>1, <1>0
    <3>3. queue'[n].wallet = queue[m].wallet
      BY <3>2 DEF Advance
    <3>4. Kept(k, queue, m) \/ k \in Excepted(Now)
      BY <3>3, <2>0, <2>2, <1>2 DEF SafeIn
    <3>5. Kept(k, queue, m) => Kept(k, queue, n)' \/ k \in aborted'
      BY <3>2, <1>3
    <3> QED BY <3>4, <3>5, <1>2, <1>7 DEF Kept
  <2>3. k < wallet'.brainkey_sequence => KeptIn(Now, k)' \/ k \in Excepted(Now)'
    <3>1. CASE wallet' = wallet
      <4>1. k < wallet.brainkey_sequence => KeptIn(Now, k) \/ k \in Excepted(Now)
        BY <2>0, <1>2 DEF SafeIn
      <4> QED BY <4>1, <3>1, <1>2, <1>4, <1>7 DEF Secured, KeptIn, Kept
    <3>2. CASE wallet' = disk'
      BY <3>2, <2>1 DEF KeptIn, Kept
    <3> QED BY <3>1, <3>2 DEF Advance
  <2>4. k \in ramKeys' => Secured(Now, k)'
    <3>1. k \in ramKeys => Secured(Now, k)'
      BY <2>0, <1>2, <1>6 DEF SafeIn
    <3>2. k \in keysDisk' => Secured(Now, k)'
      BY DEF Secured, KeptIn, Kept
    <3> QED BY <3>1, <3>2 DEF Advance
  <2> QED BY <2>1, <2>2, <2>3, <2>4, <1>2 DEF SafeIn
<1> QED BY <1>6, <1>8 DEF BlockSafe

\* The tail of the queue: everything behind the head moves up.
LEMMA TailAdvance ==
    ASSUME TypeOK, queue # <<>>, queue' = Tail(queue)
    PROVE  /\ Len(queue') = Len(queue) - 1
           /\ \A n \in 1..Len(queue) : n - 1 >= 1 => queue'[n - 1] = queue[n]
<1>1. /\ Len(queue) \in Nat \ {0} /\ Len(queue') = Len(queue) - 1
      /\ \A n \in 1..Len(queue) - 1 : queue'[n] = queue[n + 1]
  BY QueueHead
<1>2. ASSUME NEW n \in 1..Len(queue), n - 1 >= 1
      PROVE  queue'[n - 1] = queue[n]
  <2>1. n - 1 \in 1..Len(queue) - 1 /\ (n - 1) + 1 = n
    BY <1>1, <1>2
  <2> QED BY <2>1, <1>1
<1> QED BY <1>1, <1>2

\* The keys due are committed or aborted.
LEMMA KeysAdvance ==
    ASSUME TypeOK, NextIs({"each", "all"}), queue' = Rest,
           Due \subseteq keysDisk' \cup aborted',
           keysDisk \subseteq keysDisk', aborted \subseteq aborted' \cup keysDisk',
           unseen \subseteq unseen' \cup keysDisk', overtaken \subseteq overtaken' \cup keysDisk',
           UNCHANGED <<wallet, disk, ramKeys>>
    PROVE  \E d \in {0, 1} : Advance(d)
<1>1. /\ queue # <<>> /\ Len(queue) \in Nat \ {0}
      /\ Due \subseteq queue[1].keys
      /\ \/ Rest = Tail(queue) /\ queue[1].keys \subseteq Due
         \/ /\ Len(Rest) = Len(queue)
            /\ \A n \in 1..Len(queue) :
                  Rest[n] = IF n = 1 THEN [queue[1] EXCEPT !.keys = @ \ Due] ELSE queue[n]
            /\ Rest[1].wallet = NoWallet /\ Rest[1].keys = queue[1].keys \ Due
      /\ queue[1].wallet = NoWallet
  BY RestIs, QueueHead DEF NextIs
<1>2. CASE Rest = Tail(queue) /\ queue[1].keys \subseteq Due
  <2>1. /\ Len(queue') = Len(queue) - 1
        /\ \A n \in 1..Len(queue) : n - 1 >= 1 => queue'[n - 1] = queue[n]
    BY <1>1, <1>2, TailAdvance
  <2>2. queue[1].keys \subseteq keysDisk' \cup aborted'
    BY <1>2
  <2>3. Advance(1)
    BY <2>1, <2>2 DEF Advance
  <2> QED BY <2>3
<1>3. CASE /\ Len(Rest) = Len(queue)
           /\ \A n \in 1..Len(queue) :
                 Rest[n] = IF n = 1 THEN [queue[1] EXCEPT !.keys = @ \ Due] ELSE queue[n]
           /\ Rest[1].wallet = NoWallet /\ Rest[1].keys = queue[1].keys \ Due
  <2>1. ASSUME NEW n \in 1..Len(queue)
        PROVE  /\ queue'[n].wallet = queue[n].wallet
               /\ queue[n].keys \subseteq queue'[n].keys \cup keysDisk' \cup aborted'
    <3>1. CASE n = 1
      BY <3>1, <1>1, <1>3
    <3>2. CASE n # 1
      BY <3>2, <1>3
    <3> QED BY <3>1, <3>2
  <2>2. \A n \in 1..Len(queue) : n - 0 = n
    OBVIOUS
  <2>3. Advance(0)
    BY <2>1, <2>2, <1>1, <1>3 DEF Advance
  <2> QED BY <2>3
<1> QED BY <1>1, <1>2, <1>3

\* No step loses a key.
LEMMA KeysStep == TypeOK /\ KeysInv /\ [Next]_vars => KeysInv'
<1> SUFFICES ASSUME TypeOK, KeysInv, [Next]_vars PROVE KeysInv'
  OBVIOUS
<1> USE DEF walletVars, keyVars, chainVars, sessionVars, creationVars
<1>0. /\ Now \in Block /\ known \subseteq Nat /\ keysDisk \subseteq Nat /\ wallet \in Wallet
      /\ Now.wallet = wallet /\ Now.queue = queue /\ Now.ramKeys = ramKeys
      /\ Now.unseen = unseen /\ Now.overtaken = overtaken
      /\ BlockSafe(Now) /\ registered \cap keysDisk = {}
  BY OwnKeysType DEF KeysInv, OwnKeysInv
<1>1. CASE checkNextGeneratedKey
  <2> DEFINE now == IF generatingKey THEN Now ELSE generateNextKey(Now, FALSE)
  <2>1. now \in Block /\ BlockSafe(now) /\ Secures(Now, now)
    BY <1>0, SkipSafe DEF generateNextKey, Secures
  <2>2. Run(now) /\ UNCHANGED <<creating, registered>>
    BY <1>1 DEF checkNextGeneratedKey
  <2> HIDE DEF now
  <2> QED BY <2>1, <2>2, KeysRun
<1>2. ASSUME NEW via \in {"faucet", "registrar"}, createAccount(via)
      PROVE  KeysInv'
  BY <1>2, KeysCreate
<1>3. CASE createAccountThrows
  BY <1>3, KeysUnchanged DEF createAccountThrows
<1>4. CASE Register
  <2>1. /\ UNCHANGED <<wallet, disk, queue, keysDisk, ramKeys, aborted, unseen, overtaken>>
        /\ creating # NoCreation /\ creating' = [creating EXCEPT !.registered = TRUE]
        /\ registered' \subseteq registered \cup ({creating.keys[n] : n \in 1..3} \ keysDisk)
    BY <1>4 DEF Register
  <2>2. creating'.keys = creating.keys
    BY <2>1 DEF TypeOK, Creation
  <2>3. /\ registered' \subseteq registered \cup CreationKeys
        /\ registered' \cap keysDisk' = {}
    BY <2>1, <1>0 DEF CreationKeys
  <2>4. BlockSafe(Now)' /\ \A k \in Nat : Secured(Now, k) => Secured(Now, k)'
    BY <2>1, <1>0, StoreSafe
  <2> QED BY <2>1, <2>2, <2>3, <2>4, KeysKept
<1>5. CASE AccountCreated
  <2> DEFINE S   == {creating.keys[n] : n \in 1..3}
             now == saveKeys(Now, "all", S)
  <2>1. S \in SUBSET Nat
    BY <1>5 DEF AccountCreated, TypeOK, Creation
  <2>2. /\ queue' = now.queue /\ ramKeys' = now.ramKeys /\ creating' = NoCreation
        /\ UNCHANGED <<wallet, disk, keysDisk, aborted, unseen, overtaken, registered>>
    BY <1>5 DEF AccountCreated
  <2> HIDE DEF S
  <2>3. now \in Block /\ now.wallet = wallet /\ BlockSafe(now) /\ Secures(Now, now)
    BY <2>1, <1>0, SaveSafe, SMTT(60)
  <2>4. now.unseen = unseen /\ now.overtaken = overtaken
    BY <2>1, <1>0, SaveKeysIs, SMTT(60)
  <2> HIDE DEF now
  <2>5. BlockSafe(Now)' /\ \A k \in Nat : Secured(now, k) => Secured(Now, k)'
    BY <2>2, <2>3, <2>4, StoreSafe
  <2> QED BY <2>2, <2>3, <2>5, <1>0, KeysKept DEF Secures
<1>6. CASE CreationRejected
  <2> DEFINE now == IF creating.via = "faucet"
                    THEN decrementBrainKeySequence(decrementBrainKeySequence(
                             decrementBrainKeySequence(Now)))
                    ELSE Now
  <2>1. now \in Block /\ BlockSafe(now) /\ Secures(Now, now)
    BY <1>0, DecrementSafe DEF Secures
  <2>2. Run(now) /\ creating' = NoCreation /\ registered' = registered
    BY <1>6 DEF CreationRejected
  <2> HIDE DEF now
  <2> QED BY <2>1, <2>2, KeysRun
<1>7. CASE resetBrainKeySequence
  <2> DEFINE w == WithSequence(wallet, 0)
  <2>1. w \in Wallet /\ w.brainkey_sequence <= wallet.brainkey_sequence
    BY <1>0 DEF WithSequence, Wallet
  <2>2. Run(_updateWallet(Now, w)) /\ UNCHANGED <<creating, registered>>
    BY <1>7 DEF resetBrainKeySequence
  <2> HIDE DEF w
  <2> QED BY <2>1, <2>2, <1>0, BackSafe, UpdateWritten, KeysRun
<1>8. CASE setBackupDate
  <2>1. Run(_updateWallet(Now, wallet)) /\ UNCHANGED <<creating, registered>>
    BY <1>8 DEF setBackupDate
  <2>2. wallet.brainkey_sequence <= wallet.brainkey_sequence
    BY <1>0 DEF Wallet
  <2> QED BY <2>1, <2>2, <1>0, BackSafe, UpdateWritten, KeysRun
<1>9. ASSUME NEW old \in Passwords, NEW new \in Passwords, NEW unlock \in BOOLEAN,
             changePassword(old, new, unlock)
      PROVE  KeysInv'
  <2> DEFINE w == [wallet EXCEPT !.password = new]
  <2>1. w \in Wallet /\ w.brainkey_sequence <= wallet.brainkey_sequence
    BY <1>0 DEF Wallet
  <2>2. Run(_updateWallet(Now, w)) /\ UNCHANGED <<creating, registered>>
    BY <1>9 DEF changePassword
  <2> HIDE DEF w
  <2> QED BY <2>1, <2>2, <1>0, BackSafe, UpdateWritten, KeysRun
<1>10. CASE loadDbData
  <2> DEFINE tx  == Put("load", {})
             q   == Append(queue, tx)
             now == [Now EXCEPT !.queue = q, !.ramKeys = {}]
  <2>1. tx \in Transaction /\ tx.wallet = NoWallet
    BY DEF Put, Transaction
  <2>2. q \in Seq(Transaction)
    BY <2>1, AppendProperties DEF TypeOK
  <2> HIDE DEF tx
  <2>3. /\ now \in Block /\ now.wallet = wallet /\ now.queue = q /\ now.ramKeys = {}
        /\ now.unseen = unseen /\ now.overtaken = overtaken
    <3> HIDE DEF q
    <3> QED BY <2>2, <1>0 DEF Block
  <2>4. /\ wallet' = wallet /\ queue' = q /\ ramKeys' = {}
        /\ UNCHANGED <<disk, keysDisk, aborted, unseen, overtaken, creating, registered>>
    BY <1>10 DEF loadDbData, tx
  <2> HIDE DEF now
  <2>5. /\ \A k \in Nat : KeptIn(Now, k) => KeptIn(now, k)
        /\ \A k \in Nat : SafeIn(Now, k) /\ (k < wallet.brainkey_sequence =>
                                               KeptIn(Now, k) \/ k \in Excepted(Now))
                          => SafeIn(now, k)
    BY <2>1, <2>3, <1>0, AppendSafe
  <2>6. BlockSafe(now)
    BY <2>5, <1>0 DEF BlockSafe, SafeIn
  <2>7. BlockSafe(Now)' /\ \A k \in Nat : Secured(now, k) => Secured(Now, k)'
    BY <2>3, <2>4, <2>6, StoreSafe
  <2> QED BY <2>4, <2>5, <2>7, <1>0, KeysKept DEF Secured
<1>11. CASE CommitKeys
  <2>1. /\ NextIs({"each", "all"}) /\ queue' = Rest /\ queue # <<>>
        /\ keysDisk' = keysDisk \cup Due /\ aborted' = aborted \ Due
        /\ unseen' = unseen \ Due /\ overtaken' = overtaken \ Due
        /\ registered' = registered \ Due
        /\ UNCHANGED <<wallet, disk, ramKeys, creating>>
    BY <1>11 DEF CommitKeys, NextIs
  <2>2. \E d \in {0, 1} : Advance(d)
    <3>1. /\ Due \subseteq keysDisk' \cup aborted'
          /\ keysDisk \subseteq keysDisk' /\ aborted \subseteq aborted' \cup keysDisk'
          /\ unseen \subseteq unseen' \cup keysDisk'
          /\ overtaken \subseteq overtaken' \cup keysDisk'
      BY <2>1
    <3> QED BY <2>1, <3>1, KeysAdvance
  <2>3. BlockSafe(Now)' /\ \A k \in Nat : Secured(Now, k) => Secured(Now, k)'
    BY <2>1, <2>2, <1>0, AdvanceSafe
  <2>4. registered' \subseteq registered /\ registered' \cap keysDisk' = {}
    BY <2>1, <1>0
  <2> QED BY <2>1, <2>3, <2>4, KeysKept
<1>12. CASE AbortKeys
  <2>1. /\ NextIs({"each", "all"}) /\ queue' = Rest /\ queue # <<>>
        /\ aborted' = aborted \cup (Due \ keysDisk)
        /\ UNCHANGED <<wallet, disk, keysDisk, ramKeys, unseen, overtaken, creating, registered>>
    BY <1>12 DEF AbortKeys, NextIs
  <2>2. \E d \in {0, 1} : Advance(d)
    <3>1. /\ Due \subseteq keysDisk' \cup aborted' /\ aborted \subseteq aborted' \cup keysDisk'
          /\ keysDisk \subseteq keysDisk' /\ unseen \subseteq unseen' \cup keysDisk'
          /\ overtaken \subseteq overtaken' \cup keysDisk'
      BY <2>1
    <3> QED BY <2>1, <3>1, KeysAdvance
  <2>3. BlockSafe(Now)' /\ \A k \in Nat : Secured(Now, k) => Secured(Now, k)'
    BY <2>1, <2>2, <1>0, AdvanceSafe
  <2>4. registered' \cap keysDisk' = {}
    BY <2>1, <1>0
  <2> QED BY <2>1, <2>3, <2>4, KeysKept
<1>13. CASE CompleteTransaction \/ AbortTransaction \/ CompleteLoad
  <2>1. /\ queue # <<>> /\ queue' = Tail(queue)
        /\ queue[1] \in Transaction /\ queue[1].kind \in {"write", "load"}
        /\ UNCHANGED <<keysDisk, aborted, unseen, overtaken, creating, registered>>
    BY <1>13, QueueHead DEF CompleteTransaction, AbortTransaction, CompleteLoad, NextIs
  <2>2. queue[1].keys = {}
    BY <2>1 DEF Transaction
  <2>3. /\ \/ disk' = disk
           \/ queue[1].wallet # NoWallet /\ disk' = queue[1].wallet
        /\ wallet' = wallet \/ wallet' = disk'
        /\ ramKeys' \subseteq ramKeys \cup keysDisk'
    <3>1. CASE CompleteTransaction
      <4>1. queue[1].wallet \in Wallet
        BY <3>1, <2>1, QueueHead DEF CompleteTransaction, NextIs, Transaction
      <4>2. queue[1].wallet # NoWallet
        BY <4>1, WalletAssumption DEF Wallet
      <4>3. /\ disk' = queue[1].wallet /\ wallet' = disk' /\ ramKeys' = ramKeys
        BY <3>1, <2>1, QueueHead DEF CompleteTransaction
      <4> QED BY <4>2, <4>3
    <3>2. CASE AbortTransaction
      BY <3>2 DEF AbortTransaction
    <3>3. CASE CompleteLoad
      BY <3>3 DEF CompleteLoad
    <3> QED BY <3>1, <3>2, <3>3, <1>13
  <2>4. Advance(1)
    BY <2>1, <2>2, <2>3, TailAdvance DEF Advance
  <2>5. BlockSafe(Now)' /\ \A k \in Nat : Secured(Now, k) => Secured(Now, k)'
    BY <2>1, <2>4, <1>0, AdvanceSafe
  <2> QED BY <2>1, <2>5, <1>0, KeysKept
<1>14. ASSUME NEW j \in inUse, LearnReferences(j)
       PROVE  KeysInv'
  BY <1>14, KeysUnchanged DEF LearnReferences
<1>15. CASE Unlock
  BY <1>15, KeysUnchanged DEF Unlock
<1>16. CASE CloudLogin
  BY <1>16, KeysUnchanged DEF CloudLogin
<1>17. CASE onLock
  BY <1>17, KeysUnchanged DEF onLock
<1>18. CASE Reload
  <2>1. /\ wallet' = disk /\ queue' = <<>> /\ ramKeys' = keysDisk
        /\ creating' = NoCreation /\ registered' = {}
        /\ UNCHANGED <<disk, keysDisk, aborted, unseen, overtaken>>
    BY <1>18 DEF Reload
  <2>2. \A k \in Nat : k < disk.brainkey_sequence => k \in keysDisk \cup Excepted(Now)
    BY <1>0 DEF BlockSafe, SafeIn
  <2>3. ASSUME NEW k \in Nat PROVE SafeIn(Now, k)'
    BY <2>1, <2>2 DEF SafeIn, Secured, KeptIn, Kept, Excepted, Now
  <2> QED BY <2>1, <2>3 DEF KeysInv, OwnKeysInv, BlockSafe, CreationKeys
<1>19. CASE UNCHANGED vars
  BY <1>19, KeysUnchanged DEF vars
<1> QED
  BY <1>1, <1>2, <1>3, <1>4, <1>5, <1>6, <1>7, <1>8, <1>9, <1>10, <1>11, <1>12, <1>13,
     <1>14, <1>15, <1>16, <1>17, <1>18, <1>19 DEF Next

\* The invariant holds of every behaviour.
LEMMA KeysInvariant == Spec => [](TypeOK /\ KeysInv)
BY TypeInit, TypeStep, KeysInit, KeysStep, PTL DEF Spec

\* createAccount: the three keys of an account differ, whatever is queued.
THEOREM KeysOfAccountDiffer == Spec => []AccountKeysDistinct
<1>1. TypeOK /\ KeysInv => AccountKeysDistinct
  <2> SUFFICES ASSUME TypeOK, KeysInv, creating # NoCreation
               PROVE  \A m, n \in 1..3 : m # n => creating.keys[m] # creating.keys[n]
    BY DEF AccountKeysDistinct
  <2>1. creating.keys[1] < creating.keys[2] /\ creating.keys[2] < creating.keys[3]
    BY DEF KeysInv, OwnKeysInv
  <2>2. \A n \in 1..3 : creating.keys[n] \in Nat
    BY DEF TypeOK, Creation
  <2>3. /\ creating.keys[1] \in Nat /\ creating.keys[2] \in Nat /\ creating.keys[3] \in Nat
    BY <2>2
  <2>4. /\ creating.keys[1] # creating.keys[2] /\ creating.keys[2] # creating.keys[3]
        /\ creating.keys[1] # creating.keys[3]
    BY <2>1, <2>3
  <2>5. 1..3 = {1, 2, 3}
    OBVIOUS
  <2> QED BY <2>4, <2>5
<1> QED BY <1>1, KeysInvariant, PTL

\* The keys of the accounts registered from this page are stored, or queued, or the
\* transaction that should have stored them failed, whatever became of the creation.
THEOREM RegisteredKeysAreKept == Spec => []RegisteredKeysKept
<1>1. TypeOK /\ KeysInv => RegisteredKeysKept
  BY DEF KeysInv, OwnKeysInv, RegisteredKeysKept, Secured, KeptIn, Kept, Now, KeysQueued
<1> QED BY <1>1, KeysInvariant, PTL

\* No key that controls an account falls behind the stored sequence without being
\* stored, in whatever order the lookups of generateNextKey are answered, except one
\* whose own transaction failed, one passed over before an answer named it, and one
\* taken again behind a sequence already on its way to the disk.
THEOREM KeysAreNotLost == Spec => []NoKeyLost
<1>1. TypeOK /\ KeysInv => NoKeyLost
  BY DEF KeysInv, BlockSafe, SafeIn, Excepted, Now, NoKeyLost, TypeOK
<1> QED BY <1>1, KeysInvariant, PTL
=============================================================================
