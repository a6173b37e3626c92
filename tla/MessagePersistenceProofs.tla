---------------------- MODULE MessagePersistenceProofs ----------------------
(***************************************************************************)
(* Proofs about MessagePersistence, for every number of messages, capacity *)
(* of the queue, limit of the RAM store and number of restarts.            *)
(***************************************************************************)
EXTENDS MessagePersistence, FiniteSetTheorems, TLAPS

\* The messages the total of the pendingStore counts.
PendingSet(p) == {m \in Ids : p[m] # "none"}

LEMMA IdsFinite == IsFiniteSet(Ids)
  BY MessagesAssumption, FS_Interval DEF Ids

LEMMA PendingSetFinite == ASSUME NEW p PROVE IsFiniteSet(PendingSet(p))
  <1>1. PendingSet(p) \in SUBSET Ids
    BY DEF PendingSet
  <1> QED BY <1>1, IdsFinite, FS_Subset

\* Adding a message to the RAM store raises the number of pending ones by one.
LEMMA CountAdd ==
  ASSUME NEW p, NEW D, p \in [Ids -> D], NEW m \in Ids, NEW v, v # "none",
         p[m] = "none"
  PROVE  Cardinality(PendingSet([p EXCEPT ![m] = v])) = Cardinality(PendingSet(p)) + 1
  <1>1. PendingSet([p EXCEPT ![m] = v]) = PendingSet(p) \cup {m}
    BY DEF PendingSet
  <1>2. m \notin PendingSet(p)
    BY DEF PendingSet
  <1> QED BY <1>1, <1>2, PendingSetFinite, FS_AddElement

\* Removing one lowers it by one if it was there, and otherwise not at all.
LEMMA CountRemove ==
  ASSUME NEW p, NEW D, p \in [Ids -> D], NEW m \in Ids
  PROVE  Cardinality(PendingSet([p EXCEPT ![m] = "none"])) =
           IF p[m] = "none" THEN Cardinality(PendingSet(p))
                            ELSE Cardinality(PendingSet(p)) - 1
  <1>1. PendingSet([p EXCEPT ![m] = "none"]) = PendingSet(p) \ {m}
    BY DEF PendingSet
  <1>2. m \in PendingSet(p) <=> p[m] # "none"
    BY DEF PendingSet
  <1> QED BY <1>1, <1>2, PendingSetFinite, FS_RemoveElement

\* Changing what a pending message shows does not change it.
LEMMA CountKeep ==
  ASSUME NEW p, NEW D, p \in [Ids -> D], NEW m \in Ids, NEW v,
         v = "none" <=> p[m] = "none"
  PROVE  Cardinality(PendingSet([p EXCEPT ![m] = v])) = Cardinality(PendingSet(p))
  <1>1. PendingSet([p EXCEPT ![m] = v]) = PendingSet(p)
    BY DEF PendingSet
  <1> QED BY <1>1

LEMMA CountNat == ASSUME NEW p PROVE Cardinality(PendingSet(p)) \in Nat
  BY PendingSetFinite, FS_CardinalityType

LEMMA CountPositive ==
  ASSUME NEW p, NEW m \in Ids, p[m] # "none"
  PROVE  Cardinality(PendingSet(p)) >= 1
  <1>1. PendingSet(p) # {}
    BY DEF PendingSet
  <1>2. Cardinality(PendingSet(p)) # 0
    BY <1>1, PendingSetFinite, FS_EmptySet
  <1> QED BY <1>2, CountNat

LEMMA TotalReading == TotalIsExact <=> total = Cardinality(PendingSet(pending))
  BY DEF TotalIsExact, PendingSet

-----------------------------------------------------------------------------
(* Where the write slots are, given the shape of the queue.                *)

LEMMA QueueHolds ==
  ASSUME NEW q \in Seq(Ids), NEW a \in Nat, NEW m \in Ids,
         \A i \in 1 .. Len(q) : q[i] = a - Len(q) + i
  PROVE  (\E i \in 1 .. Len(q) : q[i] = m) <=> (a - Len(q) < m /\ m <= a)
  <1>1. Len(q) \in Nat /\ m \in Nat
    BY MessagesAssumption DEF Ids
  <1>2. ASSUME NEW i \in 1 .. Len(q), q[i] = m
        PROVE  a - Len(q) < m /\ m <= a
    <2>1. m = a - Len(q) + i
      BY <1>2
    <2>2. i \in Nat /\ 1 <= i /\ i <= Len(q)
      BY <1>1
    <2> QED BY <1>1, <2>1, <2>2
  <1>3. ASSUME a - Len(q) < m, m <= a
        PROVE  \E i \in 1 .. Len(q) : q[i] = m
    <2> DEFINE i == m - (a - Len(q))
    <2>1. i \in 1 .. Len(q) /\ a - Len(q) + i = m
      BY <1>1, <1>3
    <2>2. q[i] = m
      BY <1>1, <2>1
    <2> QED BY <2>1, <2>2
  <1> QED BY <1>2, <1>3

LEMMA SlotsOfQueue ==
  ASSUME TypeOK, QueueShape, NEW m \in Ids
  PROVE  HasSlot(m) <=> m = writing \/ (accepted - Len(queue) < m /\ m <= accepted)
  BY QueueHolds, MessagesAssumption DEF TypeOK, QueueShape, HasSlot

LEMMA SlotsOfQueuePrime ==
  ASSUME TypeOK', QueueShape', NEW m \in Ids
  PROVE  HasSlot(m)' <=> m = writing' \/ (accepted' - Len(queue') < m /\ m <= accepted')
  <1>1. /\ queue' \in Seq(Ids) /\ accepted' \in Nat
        /\ \A i \in 1 .. Len(queue') : queue'[i] = accepted' - Len(queue') + i
    BY MessagesAssumption DEF TypeOK, QueueShape
  <1>2. HasSlot(m)' <=> m = writing' \/ \E i \in 1 .. Len(queue') : queue'[i] = m
    BY DEF HasSlot
  <1> QED BY <1>1, <1>2, QueueHolds

-----------------------------------------------------------------------------
(* The invariant holds initially.                                          *)

LEMMA InitInd == Init => IndInv
  <1> SUFFICES ASSUME Init PROVE IndInv
    OBVIOUS
  <1>1. TypeOK
    <2>1. /\ queue \in Seq(Ids) /\ marking \in Marks
      BY DEF Init, Marks
    <2>2. 0 \in 0 .. MaxMessages /\ 0 \in 0 .. MaxCrashes
      BY MessagesAssumption, BoundsAssumption
    <2> QED BY <2>1, <2>2 DEF Init, TypeOK
  <1>2. QueueShape /\ OnlyAccepted /\ TombstonesRule /\ Chronological
    BY MessagesAssumption
    DEF Init, QueueShape, OnlyAccepted, TombstonesRule, Chronological, Ids, NoId, Modes
  <1>3. NoResurrection /\ AcceptedIsKept /\ LastMessageIsNewest
    BY MessagesAssumption
    DEF Init, NoResurrection, AcceptedIsKept, LastMessageIsNewest, Stored, Modes, Ids, NoId
  <1>4. TotalIsExact
    <2>1. PendingSet(pending) = {}
      BY DEF Init, PendingSet
    <2> QED BY <2>1, FS_EmptySet, TotalReading DEF Init
  <1> QED BY <1>1, <1>2, <1>3, <1>4 DEF IndInv

-----------------------------------------------------------------------------
(* It is preserved by every action.                                        *)

LEMMA AcceptStep == IndInv /\ Accept => IndInv'
  <1> SUFFICES ASSUME IndInv, Accept PROVE IndInv'
    OBVIOUS
  <1> DEFINE m == accepted + 1
  <1>1. /\ TypeOK /\ QueueShape /\ OnlyAccepted /\ TombstonesRule /\ Chronological
        /\ NoResurrection /\ AcceptedIsKept /\ TotalIsExact /\ LastMessageIsNewest
    BY DEF IndInv
  <1>2. m \in Ids /\ accepted \in Nat /\ pending[m] = "none"
    BY <1>1, MessagesAssumption DEF Accept, TypeOK, OnlyAccepted, Ids
  <1>3. Stamp \in Nat /\ Stamp > lastCreatedAt /\ Stamp >= clock
    BY <1>1 DEF TypeOK, Stamp
  <1>4. TypeOK'
    BY <1>1, <1>2, <1>3, MessagesAssumption
    DEF Accept, TypeOK, dbVars, Ids, Marks, Modes
  <1>5. QueueShape'
    <2>1. Len(queue') = Len(queue) + 1 /\ Len(queue) \in Nat
          /\ \A i \in 1 .. Len(queue') :
               queue'[i] = IF i = Len(queue) + 1 THEN m ELSE queue[i]
      BY <1>1, <1>2 DEF Accept, TypeOK
    <2>2. \A i \in 1 .. Len(queue') : queue'[i] = accepted' - Len(queue') + i
      BY <1>1, <1>2, <2>1 DEF Accept, QueueShape
    <2>3. accepted' - Len(queue') = accepted - Len(queue)
      BY <1>2, <2>1 DEF Accept
    <2>4. Len(queue') <= accepted' - boot'
      BY <1>1, <1>2, <2>1 DEF Accept, QueueShape, TypeOK
    <2> QED BY <1>1, <2>2, <2>3, <2>4 DEF Accept, QueueShape, dbVars
  <1>6. OnlyAccepted'
    BY <1>1, <1>2 DEF Accept, OnlyAccepted, dbVars, TypeOK, Ids, Marks, NoMark, NoId
  <1>7. TombstonesRule'
    BY <1>1, <1>2 DEF Accept, TombstonesRule, dbVars, TypeOK, Stored
  <1>8. Chronological'
    <2>1. \A n \in Ids : n <= accepted => createdAt[n] < Stamp
      <3> SUFFICES ASSUME NEW n \in Ids, n <= accepted PROVE createdAt[n] < Stamp
        OBVIOUS
      <3>1. createdAt[n] \in Nat /\ lastCreatedAt \in Nat /\ clock \in Nat
        BY <1>1 DEF TypeOK
      <3>2. createdAt[n] <= lastCreatedAt \/ createdAt[n] < clock
        BY <1>1 DEF Chronological
      <3> QED BY <1>3, <3>1, <3>2
    <2>2. \A n \in Ids : n # m => createdAt'[n] = createdAt[n]
      BY <1>1, <1>2 DEF Accept, TypeOK
    <2>3. createdAt'[m] = Stamp /\ lastCreatedAt' = Stamp /\ clock' = clock
      BY <1>1, <1>2 DEF Accept, TypeOK
    <2>4. \A n \in Ids : n <= accepted' <=> n <= accepted \/ n = m
      BY <1>2, MessagesAssumption DEF Accept, Ids
    <2>5. ASSUME NEW k \in Ids, NEW n \in Ids, k < n, n <= accepted'
          PROVE  createdAt'[k] < createdAt'[n]
      <3>1. CASE n = m
        <4>1. k <= accepted /\ k # m
          BY <1>2, <2>5, <3>1, MessagesAssumption DEF Ids
        <4> QED BY <2>1, <2>2, <2>3, <3>1, <4>1
      <3>2. CASE n # m
        <4>1. n <= accepted /\ k # m
          BY <1>2, <2>4, <2>5, <3>2, MessagesAssumption DEF Ids
        <4> QED BY <1>1, <2>2, <2>5, <3>2, <4>1 DEF Chronological
      <3> QED BY <3>1, <3>2
    <2>6. ASSUME NEW n \in Ids, n <= accepted' PROVE createdAt'[n] <= lastCreatedAt'
      <3>1. CASE n = m
        BY <1>3, <2>3, <3>1
      <3>2. CASE n # m
        <4>1. createdAt'[n] < Stamp
          BY <2>1, <2>2, <2>4, <2>6, <3>2
        <4>2. createdAt'[n] \in Nat
          BY <1>1, <2>2, <3>2 DEF TypeOK
        <4> QED BY <1>3, <2>3, <4>1, <4>2
      <3> QED BY <3>1, <3>2
    <2> QED BY <2>5, <2>6 DEF Chronological
  <1>9. NoResurrection'
    BY <1>1, <1>2 DEF Accept, NoResurrection, OnlyAccepted, dbVars, TypeOK, Ids
  <1>10. AcceptedIsKept'
    <2>1. \A n \in Ids : HasSlot(n)' <=> HasSlot(n) \/ n = m
      <3>1. \A n \in Ids : HasSlot(n) <=>
               n = writing \/ (accepted - Len(queue) < n /\ n <= accepted)
        BY <1>1, SlotsOfQueue
      <3>2. \A n \in Ids : HasSlot(n)' <=>
               n = writing' \/ (accepted' - Len(queue') < n /\ n <= accepted')
        BY <1>4, <1>5, SlotsOfQueuePrime
      <3>3. Len(queue') = Len(queue) + 1 /\ Len(queue) \in Nat
        BY <1>1, <1>2 DEF Accept, TypeOK
      <3> QED BY <1>2, <3>1, <3>2, <3>3, MessagesAssumption DEF Accept, Ids
    <2>2. \A n \in Ids : n <= accepted' <=> n <= accepted \/ n = m
      BY <1>2, MessagesAssumption DEF Accept, Ids
    <2>3. \A n \in Ids : pending'[n] = IF n = m THEN "text" ELSE pending[n]
      BY <1>1, <1>2 DEF Accept, TypeOK
    <2> QED BY <1>1, <2>1, <2>2, <2>3 DEF Accept, AcceptedIsKept, Stored, dbVars
  <1>11. TotalIsExact'
    <2>1. Cardinality(PendingSet(pending')) = Cardinality(PendingSet(pending)) + 1
      BY <1>1, <1>2, CountAdd DEF Accept, TypeOK
    <2> QED BY <1>1, <2>1 DEF Accept, TotalIsExact, PendingSet
  <1>12. LastMessageIsNewest'
    BY <1>1 DEF Accept, LastMessageIsNewest, Stored, dbVars
  <1> QED BY <1>4, <1>5, <1>6, <1>7, <1>8, <1>9, <1>10, <1>11, <1>12 DEF IndInv

LEMMA TakeStep == IndInv /\ Take => IndInv'
  <1> SUFFICES ASSUME IndInv, Take PROVE IndInv'
    OBVIOUS
  <1>1. /\ TypeOK /\ QueueShape /\ OnlyAccepted /\ TombstonesRule /\ Chronological
        /\ NoResurrection /\ AcceptedIsKept /\ TotalIsExact /\ LastMessageIsNewest
    BY DEF IndInv
  <1>2. /\ accepted \in Nat /\ boot \in Nat /\ Len(queue) \in Nat /\ Len(queue) >= 1
        /\ Len(queue') = Len(queue) - 1
        /\ \A i \in 1 .. Len(queue') : queue'[i] = queue[i + 1]
        /\ writing' = queue[1] /\ writing' \in Ids /\ queue' \in Seq(Ids)
    BY <1>1 DEF Take, TypeOK
  <1>3. writing' = accepted - Len(queue')
    BY <1>1, <1>2 DEF QueueShape
  <1>4. ~committed /\ accepted' = accepted /\ boot' = boot
    BY <1>1 DEF Take, QueueShape, ghostVars
  <1>5. TypeOK'
    BY <1>1, <1>2 DEF Take, TypeOK, dbVars, ghostVars
  <1>6. QueueShape'
    <2>1. \A i \in 1 .. Len(queue') : queue'[i] = accepted' - Len(queue') + i
      BY <1>1, <1>2, <1>4 DEF QueueShape
    <2>2. Len(queue') <= accepted' - boot' /\ writing' > boot'
      BY <1>1, <1>2, <1>3, <1>4 DEF QueueShape
    <2>3. \A m \in Ids : accepted' - Len(queue') < m => row'[m] = "none"
      BY <1>1, <1>2, <1>4, MessagesAssumption DEF Take, QueueShape, dbVars, Ids
    <2> QED BY <1>3, <1>4, <2>1, <2>2, <2>3 DEF Take, QueueShape
  <1>7. OnlyAccepted' /\ TombstonesRule' /\ Chronological' /\ NoResurrection'
    BY <1>1, <1>4
    DEF Take, OnlyAccepted, TombstonesRule, Chronological, NoResurrection, Stored,
        dbVars, ghostVars
  <1>8. AcceptedIsKept'
    <2>1. \A n \in Ids : HasSlot(n) <=>
             n = writing \/ (accepted - Len(queue) < n /\ n <= accepted)
      BY <1>1, SlotsOfQueue
    <2>2. \A n \in Ids : HasSlot(n)' <=>
             n = writing' \/ (accepted' - Len(queue') < n /\ n <= accepted')
      BY <1>5, <1>6, SlotsOfQueuePrime
    <2>3. \A n \in Ids : HasSlot(n) => HasSlot(n)'
      BY <1>2, <1>3, <1>4, <2>1, <2>2, MessagesAssumption DEF Take, Ids, NoId
    <2> QED BY <1>1, <1>4, <2>3 DEF Take, AcceptedIsKept, Stored, dbVars
  <1>9. TotalIsExact' /\ LastMessageIsNewest'
    BY <1>1 DEF Take, TotalIsExact, LastMessageIsNewest, Stored, dbVars
  <1> QED BY <1>5, <1>6, <1>7, <1>8, <1>9 DEF IndInv

LEMMA PersistCommitStep == IndInv /\ PersistCommit => IndInv'
  <1> SUFFICES ASSUME IndInv, PersistCommit PROVE IndInv'
    OBVIOUS
  <1>1. /\ TypeOK /\ QueueShape /\ OnlyAccepted /\ TombstonesRule /\ Chronological
        /\ NoResurrection /\ AcceptedIsKept /\ TotalIsExact /\ LastMessageIsNewest
    BY DEF IndInv
  <1>2. writing \in Ids /\ writing = accepted - Len(queue) /\ marking = NoMark
        /\ accepted \in Nat /\ Len(queue) \in Nat /\ writing <= accepted
    <2>1. writing \in Ids /\ accepted \in Nat /\ Len(queue) \in Nat
      BY <1>1, MessagesAssumption DEF PersistCommit, TypeOK
    <2>2. writing = accepted - Len(queue) /\ marking = NoMark
      BY <1>1 DEF PersistCommit, QueueShape, MutexFree
    <2> QED BY <2>1, <2>2
  <1>3. \A n \in Ids : row'[n] = IF n = writing THEN RowAfterPersist(n) ELSE row[n]
    BY <1>1, <1>2 DEF PersistCommit, TypeOK
  <1>4. TypeOK'
    BY <1>1, <1>2
    DEF PersistCommit, TypeOK, RowAfterPersist, LastMessageAfterPersist, ghostVars, Modes
  <1>5. QueueShape'
    BY <1>1, <1>2, <1>3, MessagesAssumption DEF PersistCommit, QueueShape, ghostVars, Ids
  <1>6. OnlyAccepted'
    BY <1>1, <1>2, <1>3 DEF PersistCommit, OnlyAccepted, ghostVars
  <1>7. TombstonesRule'
    BY <1>1, <1>2, <1>3
    DEF PersistCommit, TombstonesRule, RowAfterPersist, Stored, Modes, TypeOK
  <1>8. Chronological'
    BY <1>1 DEF PersistCommit, Chronological, ghostVars
  <1>9. NoResurrection'
    BY <1>1, <1>3, <1>7
    DEF PersistCommit, NoResurrection, RowAfterPersist, TombstonesRule, Modes, ghostVars
  <1>10. \A n \in Ids : Stored(n) => Stored(n)'
    BY <1>1, <1>3 DEF Stored, RowAfterPersist
  <1>11. AcceptedIsKept'
    <2>1. \A n \in Ids : HasSlot(n)' <=> HasSlot(n)
      BY DEF PersistCommit, HasSlot
    <2> QED BY <1>1, <1>10, <2>1 DEF PersistCommit, AcceptedIsKept, ghostVars
  <1>12. TotalIsExact'
    BY <1>1 DEF PersistCommit, TotalIsExact
  <1>13. LastMessageIsNewest'
    <2>1. \A n \in Ids : row'[n] # "none" => n <= writing
      <3> SUFFICES ASSUME NEW n \in Ids, ~(n <= writing) PROVE row'[n] = "none"
        OBVIOUS
      <3>1. n # writing /\ accepted - Len(queue) < n
        BY <1>2, MessagesAssumption DEF Ids
      <3>2. row[n] = "none"
        BY <1>1, <3>1 DEF QueueShape
      <3> QED BY <1>3, <3>1, <3>2
    <2>2. CASE tombstone[writing] # "everyone" /\ row[writing] = "none"
      <3>1. lastMessage' = writing
        BY <2>2 DEF PersistCommit, LastMessageAfterPersist
      <3>2. row'[writing] # "none"
        BY <1>2, <1>3, <2>2 DEF RowAfterPersist
      <3> QED BY <2>1, <3>1, <3>2 DEF LastMessageIsNewest, Stored
    <2>3. CASE ~(tombstone[writing] # "everyone" /\ row[writing] = "none")
      <3>1. lastMessage' = lastMessage
        BY <2>3 DEF PersistCommit, LastMessageAfterPersist
      <3>2. \A n \in Ids : row'[n] = row[n]
        BY <1>3, <2>3 DEF RowAfterPersist
      <3>3. lastMessage \in Ids \cup {NoId}
        BY <1>1 DEF TypeOK
      <3> QED BY <1>1, <3>1, <3>2, <3>3 DEF LastMessageIsNewest, Stored, NoId
    <2> QED BY <2>2, <2>3
  <1> QED BY <1>4, <1>5, <1>6, <1>7, <1>8, <1>9, <1>11, <1>12, <1>13 DEF IndInv

LEMMA TotalWithoutIsCount ==
  ASSUME TypeOK, TotalIsExact, NEW m \in Ids
  PROVE  /\ TotalWithout(m) \in Nat
         /\ TotalWithout(m) = Cardinality(PendingSet([pending EXCEPT ![m] = "none"]))
  <1>1. total = Cardinality(PendingSet(pending)) /\ total \in Nat
    BY TotalReading DEF TypeOK
  <1>2. pending[m] # "none" => total >= 1
    BY <1>1, CountPositive
  <1>3. Cardinality(PendingSet([pending EXCEPT ![m] = "none"])) =
          IF pending[m] = "none" THEN total ELSE total - 1
    BY <1>1, CountRemove DEF TypeOK
  <1> QED BY <1>1, <1>2, <1>3 DEF TotalWithout

LEMMA PersistDoneStep == IndInv /\ PersistDone => IndInv'
  <1> SUFFICES ASSUME IndInv, PersistDone PROVE IndInv'
    OBVIOUS
  <1>1. /\ TypeOK /\ QueueShape /\ OnlyAccepted /\ TombstonesRule /\ Chronological
        /\ NoResurrection /\ AcceptedIsKept /\ TotalIsExact /\ LastMessageIsNewest
    BY DEF IndInv
  <1>2. /\ writing \in Ids /\ marking = NoMark
        /\ Stored(writing) \/ tombstone[writing] = "everyone"
    BY <1>1 DEF PersistDone, TypeOK, QueueShape, TombstonesRule
  <1>3. \A n \in Ids : pending'[n] = IF n = writing THEN "none" ELSE pending[n]
    BY <1>1, <1>2 DEF PersistDone, TypeOK
  <1>4. TypeOK'
    BY <1>1, <1>2, TotalWithoutIsCount DEF PersistDone, TypeOK, dbVars, ghostVars
  <1>5. QueueShape'
    BY <1>1 DEF PersistDone, QueueShape, dbVars, ghostVars
  <1>6. OnlyAccepted' /\ TombstonesRule' /\ Chronological' /\ NoResurrection'
    BY <1>1, <1>3
    DEF PersistDone, OnlyAccepted, TombstonesRule, Chronological, NoResurrection, Stored,
        dbVars, ghostVars
  <1>7. AcceptedIsKept'
    <2>1. \A n \in Ids : n # writing /\ HasSlot(n) => HasSlot(n)'
      BY DEF PersistDone, HasSlot
    <2> QED BY <1>1, <1>2, <1>3, <2>1
            DEF PersistDone, AcceptedIsKept, Stored, dbVars, ghostVars
  <1>8. TotalIsExact'
    BY <1>1, <1>2, TotalWithoutIsCount DEF PersistDone, TotalIsExact, PendingSet
  <1>9. LastMessageIsNewest'
    BY <1>1 DEF PersistDone, LastMessageIsNewest, Stored, dbVars
  <1> QED BY <1>4, <1>5, <1>6, <1>7, <1>8, <1>9 DEF IndInv

LEMMA PersistLostStep == IndInv /\ PersistLost => IndInv'
  <1> SUFFICES ASSUME IndInv, PersistLost PROVE IndInv'
    OBVIOUS
  <1>1. /\ TypeOK /\ QueueShape /\ OnlyAccepted /\ TombstonesRule /\ Chronological
        /\ NoResurrection /\ AcceptedIsKept /\ TotalIsExact /\ LastMessageIsNewest
    BY DEF IndInv
  <1>2. TypeOK' /\ QueueShape'
    BY <1>1 DEF PersistLost, RetrySame, TypeOK, QueueShape, dbVars, ghostVars
  <1>3. OnlyAccepted' /\ TombstonesRule' /\ Chronological' /\ NoResurrection'
    BY <1>1
    DEF PersistLost, OnlyAccepted, TombstonesRule, Chronological, NoResurrection, Stored,
        dbVars, ghostVars
  <1>4. AcceptedIsKept' /\ TotalIsExact' /\ LastMessageIsNewest'
    BY <1>1
    DEF PersistLost, RetrySame, AcceptedIsKept, HasSlot, TotalIsExact,
        LastMessageIsNewest, Stored, dbVars, ghostVars
  <1> QED BY <1>2, <1>3, <1>4 DEF IndInv

LEMMA MarkCommitStep ==
  ASSUME NEW m \in Ids, NEW mode \in Modes, IndInv, MarkCommit(m, mode)
  PROVE  IndInv'
  <1>1. /\ TypeOK /\ QueueShape /\ OnlyAccepted /\ TombstonesRule /\ Chronological
        /\ NoResurrection /\ AcceptedIsKept /\ TotalIsExact /\ LastMessageIsNewest
    BY DEF IndInv
  <1>2. /\ m <= accepted /\ ~committed
        /\ marking' = [id |-> m, mode |-> mode]
        /\ marking' \in Marks /\ marking'.id = m /\ marking'.mode = mode
    BY DEF MarkCommit, MutexFree, Marks
  <1>3. /\ \A n \in Ids : tombstone'[n] = IF n = m THEN TombstoneAfterMark(m, mode)
                                                   ELSE tombstone[n]
        /\ \A n \in Ids : row'[n] = IF n = m THEN RowAfterMark(m, mode) ELSE row[n]
    BY <1>1 DEF MarkCommit, TypeOK
  <1>4. /\ TombstoneAfterMark(m, mode) \in Modes
        /\ RowAfterMark(m, mode) \in {"none", "text"} \cup Modes
        /\ RowAfterMark(m, mode) = "none" <=> row[m] = "none"
    BY <1>1 DEF TypeOK, TombstoneAfterMark, RowAfterMark, Modes
  <1>5. TypeOK'
    BY <1>1, <1>2, <1>4 DEF MarkCommit, TypeOK, ghostVars
  <1>6. QueueShape'
    BY <1>1, <1>2, <1>3, <1>4 DEF MarkCommit, QueueShape, ghostVars
  <1>7. OnlyAccepted'
    <2>1. \A n \in Ids : accepted < n => n # m
      BY <1>1, <1>2, MessagesAssumption DEF TypeOK, Ids
    <2> QED BY <1>1, <1>2, <1>3, <2>1 DEF MarkCommit, OnlyAccepted, ghostVars
  <1>8. TombstonesRule'
    <2>1. ASSUME NEW n \in Ids
          PROVE  /\ tombstone'[n] = "none" => row'[n] \in {"none", "text"}
                 /\ tombstone'[n] \in Modes => row'[n] \in {"none", tombstone'[n]}
                 /\ pending'[n] = "retracted" => tombstone'[n] # "none"
      BY <1>1, <1>3, <1>4
      DEF MarkCommit, TombstonesRule, TombstoneAfterMark, RowAfterMark, TypeOK, Modes
    <2>2. tombstone'[m] \in {mode, "everyone"}
      BY <1>1, <1>3 DEF TombstoneAfterMark, TypeOK, Modes
    <2>3. ~committed'
      BY <1>2 DEF MarkCommit
    <2> QED BY <1>2, <2>1, <2>2, <2>3 DEF TombstonesRule
  <1>9. Chronological'
    BY <1>1 DEF MarkCommit, Chronological, ghostVars
  <1>10. NoResurrection'
    BY <1>1, <1>3, <1>4
    DEF MarkCommit, NoResurrection, TombstonesRule, TombstoneAfterMark, RowAfterMark, Modes,
        ghostVars
  <1>11. \A n \in Ids : Stored(n)' <=> Stored(n)
    BY <1>3, <1>4 DEF Stored
  <1>12. AcceptedIsKept'
    <2>1. \A n \in Ids : HasSlot(n)' <=> HasSlot(n)
      BY DEF MarkCommit, HasSlot
    <2>2. \A n \in Ids : tombstone[n] = "everyone" => tombstone'[n] = "everyone"
      BY <1>3 DEF TombstoneAfterMark
    <2> QED BY <1>1, <1>11, <2>1, <2>2 DEF MarkCommit, AcceptedIsKept, ghostVars
  <1>13. TotalIsExact'
    BY <1>1 DEF MarkCommit, TotalIsExact
  <1>14. LastMessageIsNewest'
    <2>1. lastMessage' = lastMessage /\ lastMessage \in Ids \cup {NoId}
      BY <1>1 DEF MarkCommit, TypeOK
    <2>2. \A n \in Ids : row'[n] # "none" <=> row[n] # "none"
      BY <1>3, <1>4
    <2> QED BY <1>1, <2>1, <2>2 DEF LastMessageIsNewest, Stored
  <1> QED BY <1>5, <1>6, <1>7, <1>8, <1>9, <1>10, <1>12, <1>13, <1>14 DEF IndInv

LEMMA MarkDoneStep == IndInv /\ MarkDone => IndInv'
  <1> SUFFICES ASSUME IndInv, MarkDone PROVE IndInv'
    OBVIOUS
  <1> DEFINE m == marking.id
             mode == marking.mode
  <1>1. /\ TypeOK /\ QueueShape /\ OnlyAccepted /\ TombstonesRule /\ Chronological
        /\ NoResurrection /\ AcceptedIsKept /\ TotalIsExact /\ LastMessageIsNewest
    BY DEF IndInv
  <1>2. m \in Ids /\ mode \in Modes /\ m <= accepted
    BY <1>1 DEF MarkDone, TypeOK, Marks, OnlyAccepted
  <1>3. tombstone[m] \in {mode, "everyone"} /\ tombstone[m] \in Modes
    BY <1>1, <1>2 DEF MarkDone, TombstonesRule, Modes
  <1>4. /\ pending' = [pending EXCEPT ![m] = PendingAfterMark(m, mode)]
        /\ total' = TotalAfterMark(m, mode)
        /\ erased' = [erased EXCEPT ![m] = IF erased[m] = "everyone"
                                           THEN erased[m] ELSE mode]
    BY DEF MarkDone
  <1>5. /\ \A n \in Ids : pending'[n] = IF n = m THEN PendingAfterMark(m, mode)
                                               ELSE pending[n]
        /\ \A n \in Ids : n # m => erased'[n] = erased[n]
        /\ erased'[m] = IF erased[m] = "everyone" THEN "everyone" ELSE mode
    BY <1>1, <1>2, <1>4 DEF TypeOK
  <1> HIDE DEF m, mode
  <1>6. /\ mode = "everyone" => PendingAfterMark(m, mode) = "none"
        /\ mode # "everyone" => PendingAfterMark(m, mode) \in {"none", "retracted"}
        /\ mode # "everyone" => (PendingAfterMark(m, mode) = "none" <=> pending[m] = "none")
    BY DEF PendingAfterMark
  <1>7. total' \in Nat /\ total' = Cardinality(PendingSet(pending'))
    <2>1. CASE mode = "everyone"
      BY <1>1, <1>2, <1>4, <1>6, <2>1, TotalWithoutIsCount DEF TotalAfterMark
    <2>2. CASE mode # "everyone"
      <3>1. total' = total
        BY <1>4, <2>2 DEF TotalAfterMark
      <3>2. Cardinality(PendingSet(pending')) = Cardinality(PendingSet(pending))
        BY <1>1, <1>2, <1>4, <1>6, <2>2, CountKeep DEF TypeOK
      <3> QED BY <1>1, <3>1, <3>2, TotalReading DEF TypeOK
    <2> QED BY <2>1, <2>2
  <1>8. TypeOK'
    <2>1. marking' \in Marks
      BY DEF MarkDone, Marks
    <2>2. pending' \in [Ids -> {"none", "text", "retracted"}]
      BY <1>1, <1>2, <1>4, <1>6 DEF TypeOK
    <2>3. erased' \in [Ids -> {"none"} \cup Modes]
      BY <1>1, <1>2, <1>4 DEF TypeOK
    <2> QED BY <1>1, <1>7, <2>1, <2>2, <2>3 DEF MarkDone, TypeOK, dbVars
  <1>9. QueueShape'
    BY <1>1 DEF MarkDone, QueueShape, dbVars
  <1>10. OnlyAccepted'
    BY <1>1, <1>2, <1>5, <1>8, MessagesAssumption
    DEF MarkDone, OnlyAccepted, dbVars, TypeOK, Ids
  <1>11. TombstonesRule'
    <2>1. \A n \in Ids : pending'[n] = "retracted" => tombstone[n] # "none"
      BY <1>1, <1>3, <1>5 DEF TombstonesRule, Modes
    <2> QED BY <1>1, <2>1 DEF MarkDone, TombstonesRule, Stored, dbVars
  <1>12. Chronological'
    BY <1>1 DEF MarkDone, Chronological
  <1>13. NoResurrection'
    <2>1. ASSUME NEW n \in Ids, n # m
          PROVE  /\ erased'[n] = "everyone" => /\ tombstone'[n] = "everyone"
                                               /\ row'[n] \in {"none", "everyone"}
                                               /\ pending'[n] = "none"
                 /\ erased'[n] = "retracted" => /\ tombstone'[n] \in Modes
                                                /\ row'[n] # "text"
                                                /\ pending'[n] # "text"
      BY <1>1, <1>5, <2>1 DEF MarkDone, NoResurrection, dbVars
    <2>2. /\ erased'[m] = "everyone" => /\ tombstone[m] = "everyone"
                                        /\ row[m] \in {"none", "everyone"}
                                        /\ pending'[m] = "none"
          /\ erased'[m] = "retracted" => /\ tombstone[m] \in Modes
                                         /\ row[m] # "text"
                                         /\ pending'[m] # "text"
      BY <1>1, <1>2, <1>3, <1>5, <1>6 DEF NoResurrection, TombstonesRule, Modes
    <2>3. tombstone' = tombstone /\ row' = row
      BY DEF MarkDone, dbVars
    <2> QED BY <1>2, <2>1, <2>2, <2>3 DEF NoResurrection
  <1>14. AcceptedIsKept'
    <2>1. \A n \in Ids : HasSlot(n)' <=> HasSlot(n)
      BY DEF MarkDone, HasSlot
    <2>2. \A n \in Ids : pending'[n] # "none" => pending[n] # "none"
      BY <1>5, <1>6
    <2>3. \A n \in Ids : pending[n] # "none" /\ pending'[n] = "none"
                           => tombstone[n] = "everyone"
      BY <1>3, <1>5, <1>6 DEF Modes
    <2> QED BY <1>1, <2>1, <2>2, <2>3 DEF MarkDone, AcceptedIsKept, Stored, dbVars
  <1>15. TotalIsExact'
    BY <1>7 DEF TotalIsExact, PendingSet
  <1>16. LastMessageIsNewest'
    BY <1>1 DEF MarkDone, LastMessageIsNewest, Stored, dbVars
  <1> QED BY <1>8, <1>9, <1>10, <1>11, <1>12, <1>13, <1>14, <1>15, <1>16 DEF IndInv

LEMMA MarkLostStep == IndInv /\ MarkLost => IndInv'
  <1> SUFFICES ASSUME IndInv, MarkLost PROVE IndInv'
    OBVIOUS
  <1>1. /\ TypeOK /\ QueueShape /\ OnlyAccepted /\ TombstonesRule /\ Chronological
        /\ NoResurrection /\ AcceptedIsKept /\ TotalIsExact /\ LastMessageIsNewest
    BY DEF IndInv
  <1>2. TypeOK' /\ QueueShape'
    BY <1>1 DEF MarkLost, TypeOK, QueueShape, Marks, dbVars, ghostVars
  <1>3. OnlyAccepted' /\ TombstonesRule' /\ Chronological' /\ NoResurrection'
    BY <1>1
    DEF MarkLost, OnlyAccepted, TombstonesRule, Chronological, NoResurrection, Stored,
        dbVars, ghostVars
  <1>4. AcceptedIsKept' /\ TotalIsExact' /\ LastMessageIsNewest'
    BY <1>1
    DEF MarkLost, AcceptedIsKept, HasSlot, TotalIsExact, LastMessageIsNewest, Stored,
        dbVars, ghostVars
  <1> QED BY <1>2, <1>3, <1>4 DEF IndInv

LEMMA TickStep == IndInv /\ Tick => IndInv'
  <1> SUFFICES ASSUME IndInv, Tick PROVE IndInv'
    OBVIOUS
  <1>1. /\ TypeOK /\ QueueShape /\ OnlyAccepted /\ TombstonesRule /\ Chronological
        /\ NoResurrection /\ AcceptedIsKept /\ TotalIsExact /\ LastMessageIsNewest
    BY DEF IndInv
  <1>2. TypeOK' /\ QueueShape'
    BY <1>1 DEF Tick, TypeOK, QueueShape, dbVars, ramVars
  <1>3. Chronological'
    BY <1>1 DEF Tick, Chronological, TypeOK, ramVars
  <1>4. OnlyAccepted' /\ TombstonesRule' /\ NoResurrection'
    BY <1>1
    DEF Tick, OnlyAccepted, TombstonesRule, NoResurrection, Stored, dbVars, ramVars
  <1>5. AcceptedIsKept' /\ TotalIsExact' /\ LastMessageIsNewest'
    BY <1>1
    DEF Tick, AcceptedIsKept, HasSlot, TotalIsExact, LastMessageIsNewest, Stored,
        dbVars, ramVars
  <1> QED BY <1>2, <1>3, <1>4, <1>5 DEF IndInv

LEMMA CrashStep == IndInv /\ Crash => IndInv'
  <1> SUFFICES ASSUME IndInv, Crash PROVE IndInv'
    OBVIOUS
  <1>1. /\ TypeOK /\ QueueShape /\ OnlyAccepted /\ TombstonesRule /\ Chronological
        /\ NoResurrection /\ AcceptedIsKept /\ TotalIsExact /\ LastMessageIsNewest
    BY DEF IndInv
  <1>2. /\ queue' = <<>> /\ Len(queue') = 0 /\ writing' = NoId /\ marking' = NoMark
        /\ committed' = FALSE /\ boot' = accepted /\ accepted' = accepted
        /\ \A n \in Ids : pending'[n] = "none"
        /\ row' = row /\ tombstone' = tombstone /\ lastMessage' = lastMessage
        /\ erased' = erased /\ createdAt' = createdAt
    BY DEF Crash, dbVars
  <1>3. TypeOK'
    <2>1. crashes' \in 0 .. MaxCrashes /\ clock' \in Nat
      BY <1>1, BoundsAssumption DEF Crash, TypeOK
    <2>2. pending' \in [Ids -> {"none", "text", "retracted"}]
      BY DEF Crash
    <2>3. total' = 0 /\ lastCreatedAt' = 0 /\ queue' \in Seq(Ids) /\ marking' \in Marks
      BY <1>2 DEF Crash, Marks
    <2> QED BY <1>1, <1>2, <2>1, <2>2, <2>3 DEF TypeOK
  <1>4. QueueShape'
    <2>1. accepted \in Nat
      BY <1>1, MessagesAssumption DEF TypeOK
    <2>2. \A n \in Ids : accepted' - Len(queue') < n => row'[n] = "none"
      BY <1>1, <1>2, <2>1 DEF OnlyAccepted
    <2> QED BY <1>2, <2>1, <2>2 DEF QueueShape
  <1>5. OnlyAccepted' /\ TombstonesRule' /\ NoResurrection'
    BY <1>1, <1>2 DEF OnlyAccepted, TombstonesRule, NoResurrection
  <1>6. Chronological'
    <2>1. clock' >= clock /\ clock' > lastCreatedAt /\ clock' \in Nat
      BY <1>1 DEF Crash, TypeOK
    <2>2. ASSUME NEW n \in Ids, n <= accepted PROVE createdAt[n] < clock'
      <3>1. createdAt[n] \in Nat /\ lastCreatedAt \in Nat /\ clock \in Nat
        BY <1>1 DEF TypeOK
      <3>2. createdAt[n] <= lastCreatedAt \/ createdAt[n] < clock
        BY <1>1, <2>2 DEF Chronological
      <3> QED BY <2>1, <3>1, <3>2
    <2> QED BY <1>1, <1>2, <2>2 DEF Chronological
  <1>7. AcceptedIsKept'
    BY <1>1, <1>2, MessagesAssumption DEF AcceptedIsKept, TypeOK, Ids
  <1>8. TotalIsExact'
    <2>1. PendingSet(pending') = {}
      BY <1>2 DEF PendingSet
    <2>2. total' = 0
      BY DEF Crash
    <2> QED BY <2>1, <2>2, FS_EmptySet DEF TotalIsExact, PendingSet
  <1>9. LastMessageIsNewest'
    BY <1>1, <1>2 DEF LastMessageIsNewest, Stored
  <1> QED BY <1>3, <1>4, <1>5, <1>6, <1>7, <1>8, <1>9 DEF IndInv

LEMMA StutterStep == IndInv /\ UNCHANGED persistVars => IndInv'
  <1> SUFFICES ASSUME IndInv, UNCHANGED persistVars PROVE IndInv'
    OBVIOUS
  <1> USE DEF persistVars, dbVars, ramVars, ghostVars
  <1>1. TypeOK' /\ QueueShape'
    BY DEF IndInv, TypeOK, QueueShape
  <1>2. OnlyAccepted' /\ TombstonesRule' /\ Chronological' /\ NoResurrection'
    BY DEF IndInv, OnlyAccepted, TombstonesRule, Chronological, NoResurrection, Stored
  <1>3. AcceptedIsKept' /\ TotalIsExact' /\ LastMessageIsNewest'
    BY DEF IndInv, AcceptedIsKept, HasSlot, TotalIsExact, LastMessageIsNewest, Stored
  <1> QED BY <1>1, <1>2, <1>3 DEF IndInv

LEMMA NextStep == IndInv /\ [Next]_persistVars => IndInv'
  <1> SUFFICES ASSUME IndInv, [Next]_persistVars PROVE IndInv'
    OBVIOUS
  <1>1. ASSUME NEW m \in Ids, NEW mode \in Modes, MarkCommit(m, mode) PROVE IndInv'
    BY <1>1, MarkCommitStep
  <1> QED BY <1>1, AcceptStep, TakeStep, PersistCommitStep, PersistDoneStep,
             PersistLostStep, MarkDoneStep, MarkLostStep, TickStep, CrashStep,
             StutterStep DEF Next

\* The inductive invariant holds in every reachable state: the queue is the last
\* accepted messages in order, records obey their tombstones, stamps increase.
THEOREM Invariance == SafetySpec => []IndInv
  BY InitInd, NextStep, PTL DEF SafetySpec

\* The variables of the RAM store, the writer and the database keep their types;
\* in particular the counter of the pendingStore never goes below zero.
THEOREM TypeCorrect == SafetySpec => []TypeOK
  <1>1. IndInv => TypeOK
    BY DEF IndInv
  <1> QED BY <1>1, Invariance, PTL

\* What a successful deletion erased is in no store and is never written again.
THEOREM DeletionIsFinal == SafetySpec => []NoResurrection
  <1>1. IndInv => NoResurrection
    BY DEF IndInv
  <1> QED BY <1>1, Invariance, PTL

\* No accepted message is dropped while the process runs.
THEOREM NothingDropped == SafetySpec => []AcceptedIsKept
  <1>1. IndInv => AcceptedIsKept
    BY DEF IndInv
  <1> QED BY <1>1, Invariance, PTL

\* The counter that bounds the pendingStore is exact.
THEOREM CounterExact == SafetySpec => []TotalIsExact
  <1>1. IndInv => TotalIsExact
    BY DEF IndInv
  <1> QED BY <1>1, Invariance, PTL

\* conversation.last_message is the newest record.
THEOREM LastMessageCorrect == SafetySpec => []LastMessageIsNewest
  <1>1. IndInv => LastMessageIsNewest
    BY DEF IndInv
  <1> QED BY <1>1, Invariance, PTL

\* Records enter the database in the order of their strictly increasing timestamps.
THEOREM CreationOrder == SafetySpec => []StoredInCreationOrder
  <1>1. IndInv => StoredInCreationOrder
    <2> SUFFICES ASSUME IndInv, NEW m \in Ids, NEW n \in Ids, m < n, n <= accepted
                 PROVE  /\ createdAt[m] < createdAt[n]
                        /\ ~(Stored(n) /\ HasSlot(m))
      BY DEF StoredInCreationOrder
    <2>1. createdAt[m] < createdAt[n]
      BY DEF IndInv, Chronological
    <2>2. ASSUME HasSlot(m) PROVE row[n] = "none"
      <3>1. m = writing \/ accepted - Len(queue) < m
        BY <2>2, SlotsOfQueue DEF IndInv
      <3>2. accepted \in Nat /\ Len(queue) \in Nat /\ m \in Nat /\ n \in Nat /\ m > 0
        BY MessagesAssumption DEF IndInv, TypeOK, Ids
      <3>3. accepted - Len(queue) < n
        BY <3>1, <3>2 DEF IndInv, QueueShape, NoId
      <3> QED BY <3>3 DEF IndInv, QueueShape
    <2> QED BY <2>1, <2>2 DEF Stored
  <1> QED BY <1>1, Invariance, PTL

-----------------------------------------------------------------------------
(* The refinement of MessageBoard.                                         *)

\* The content of one message as a function of what the stores hold of it.
ContentOf(n) == IF accepted < n THEN "unsent"
                ELSE IF tombstone[n] = "everyone" THEN "gone"
                ELSE IF row[n] # "none" THEN row[n]
                ELSE IF pending[n] = "none" THEN "gone"
                ELSE IF tombstone[n] = "retracted" THEN "retracted" ELSE "text"

LEMMA ContentIs == Content = [n \in Ids |-> ContentOf(n)]
  BY DEF Content, ContentOf, Stored

LEMMA ContentIsPrime == Content' = [n \in Ids |-> ContentOf(n)']
  BY DEF Content, ContentOf, Stored

\* A step that changes the content of no message and the set of durable ones.
LEMMA BoardStutter ==
  ASSUME \A n \in Ids : ContentOf(n)' = ContentOf(n),
         \A n \in Ids : n \in Durable' <=> n \in Durable
  PROVE  UNCHANGED Board!boardVars
  <1>1. Content' = Content
    BY ContentIs, ContentIsPrime
  <1>2. Durable' = Durable
    BY DEF Durable
  <1> QED BY <1>1, <1>2 DEF Board!boardVars

LEMMA BoardInit == Init => Board!Init
  <1> SUFFICES ASSUME Init PROVE Board!Init
    OBVIOUS
  <1>1. \A n \in Ids : ContentOf(n) = "unsent"
    BY MessagesAssumption DEF Init, ContentOf, Ids
  <1>2. Durable = {}
    BY DEF Init, Durable
  <1> QED BY <1>1, <1>2, ContentIs DEF Board!Init

LEMMA BoardAccept ==
  ASSUME IndInv, Accept
  PROVE  Board!Next
  <1> DEFINE m == accepted + 1
  <1>1. TypeOK /\ OnlyAccepted
    BY DEF IndInv
  <1>2. m \in Ids /\ accepted \in Nat /\ accepted' = m
    BY <1>1, MessagesAssumption DEF Accept, TypeOK, Ids
  <1>3. /\ \A n \in Ids : pending'[n] = IF n = m THEN "text" ELSE pending[n]
        /\ row' = row /\ tombstone' = tombstone
        /\ row[m] = "none" /\ tombstone[m] = "none"
    BY <1>1, <1>2 DEF Accept, TypeOK, OnlyAccepted, dbVars
  <1>4. \A n \in Ids : accepted' < n <=> accepted < n /\ n # m
    BY <1>2, MessagesAssumption DEF Ids
  <1>5. ContentOf(m) = "unsent"
    BY <1>2 DEF ContentOf
  <1>6. \A n \in Ids : ContentOf(n)' = IF n = m THEN "text" ELSE ContentOf(n)
    BY <1>2, <1>3, <1>4 DEF ContentOf
  <1>7. \A n \in Ids : n < m => ContentOf(n) # "unsent"
    <2> SUFFICES ASSUME NEW n \in Ids, n < m PROVE ContentOf(n) # "unsent"
      OBVIOUS
    <2>1. ~(accepted < n)
      BY <1>2, MessagesAssumption DEF Ids
    <2>2. row[n] # "unsent"
      BY <1>1 DEF TypeOK, Modes
    <2> QED BY <2>1, <2>2 DEF ContentOf
  <1>8. Content' = [Content EXCEPT ![m] = "text"]
    BY <1>6, ContentIs, ContentIsPrime
  <1>9. Durable' = Durable
    BY <1>3 DEF Durable
  <1>10. Board!Post(m)
    BY <1>2, <1>5, <1>7, <1>8, <1>9, ContentIs DEF Board!Post
  <1> QED BY <1>2, <1>10 DEF Board!Next

\* The writer's commit makes the head of the queue durable: everything before it is
\* durable, deleted, or was lost in a restart.
LEMMA BoardPersist ==
  ASSUME IndInv, PersistCommit
  PROVE  Board!Next \/ UNCHANGED Board!boardVars
  <1> DEFINE m == writing
  <1>1. TypeOK /\ QueueShape /\ OnlyAccepted /\ TombstonesRule /\ AcceptedIsKept
    BY DEF IndInv
  <1>2. /\ m \in Ids /\ m = accepted - Len(queue) /\ m > boot
        /\ accepted \in Nat /\ boot \in Nat /\ Len(queue) \in Nat /\ m <= accepted
    <2>1. m \in Ids /\ accepted \in Nat /\ boot \in Nat /\ Len(queue) \in Nat
      BY <1>1, MessagesAssumption DEF PersistCommit, TypeOK
    <2>2. m = accepted - Len(queue) /\ m > boot
      BY <1>1 DEF PersistCommit, QueueShape
    <2> QED BY <2>1, <2>2
  <1>3. /\ \A n \in Ids : row'[n] = IF n = m THEN RowAfterPersist(n) ELSE row[n]
        /\ tombstone' = tombstone /\ pending' = pending /\ accepted' = accepted
    BY <1>1, <1>2 DEF PersistCommit, TypeOK, ghostVars
  <1>4. CASE tombstone[m] = "everyone" \/ row[m] # "none"
    <2>1. \A n \in Ids : row'[n] = row[n]
      BY <1>3, <1>4 DEF RowAfterPersist
    <2>2. \A n \in Ids : ContentOf(n)' = ContentOf(n)
      BY <1>3, <2>1 DEF ContentOf
    <2> QED BY <2>1, <2>2, BoardStutter DEF Durable
  <1>5. CASE tombstone[m] # "everyone" /\ row[m] = "none"
    <2>1. row'[m] = IF tombstone[m] = "retracted" THEN "retracted" ELSE "text"
      BY <1>2, <1>3, <1>5 DEF RowAfterPersist
    <2>2. ~(accepted < m) /\ pending[m] # "none"
      BY <1>1, <1>2, <1>5 DEF AcceptedIsKept, Stored
    <2>3. ContentOf(m) = row'[m] /\ ContentOf(m) \in {"text", "retracted"}
      BY <1>5, <2>1, <2>2 DEF ContentOf
    <2>4. ContentOf(m)' = row'[m]
      BY <1>3, <1>5, <2>1, <2>2 DEF ContentOf, PersistCommit
    <2>5. \A n \in Ids : ContentOf(n)' = ContentOf(n)
      <3> SUFFICES ASSUME NEW n \in Ids, n # m PROVE ContentOf(n)' = ContentOf(n)
        BY <2>3, <2>4 DEF PersistCommit
      <3> QED BY <1>3 DEF ContentOf
    <2>6. Content' = Content
      BY <2>5, ContentIs, ContentIsPrime
    <2>7. Durable' = Durable \cup {m}
      BY <1>2, <1>3, <2>1 DEF Durable
    <2>8. \A n \in Ids : n < m => ContentOf(n) = "gone" \/ n \in Durable
      <3> SUFFICES ASSUME NEW n \in Ids, n < m
                   PROVE  ContentOf(n) = "gone" \/ n \in Durable
        OBVIOUS
      <3>1. n \in Nat /\ n <= accepted /\ ~(accepted < n) /\ n # m
        BY <1>2, MessagesAssumption DEF Ids
      <3>2. ~HasSlot(n)
        BY <1>1, <1>2, <3>1, SlotsOfQueue
      <3>3. pending[n] = "none"
        BY <1>1, <3>2 DEF AcceptedIsKept
      <3>4. CASE tombstone[n] = "everyone"
        BY <3>1, <3>4 DEF ContentOf
      <3>5. CASE tombstone[n] # "everyone" /\ row[n] = "none"
        BY <3>1, <3>3, <3>5 DEF ContentOf
      <3>6. CASE tombstone[n] # "everyone" /\ row[n] # "none"
        BY <1>1, <3>6 DEF TombstonesRule, TypeOK, Durable, Modes
      <3> QED BY <3>4, <3>5, <3>6
    <2>9. Board!Persist(m)
      BY <1>2, <2>3, <2>6, <2>7, <2>8, ContentIs DEF Board!Persist, Board!Live
    <2> QED BY <1>2, <2>9 DEF Board!Next
  <1> QED BY <1>4, <1>5

\* A deletion acts on the board when its transaction commits.
LEMMA BoardMark ==
  ASSUME IndInv, NEW m \in Ids, NEW mode \in Modes, MarkCommit(m, mode)
  PROVE  Board!Next \/ UNCHANGED Board!boardVars
  <1>1. TypeOK /\ TombstonesRule
    BY DEF IndInv
  <1>2. /\ \A n \in Ids : tombstone'[n] = IF n = m THEN TombstoneAfterMark(m, mode)
                                                   ELSE tombstone[n]
        /\ \A n \in Ids : row'[n] = IF n = m THEN RowAfterMark(m, mode) ELSE row[n]
        /\ pending' = pending /\ accepted' = accepted /\ ~(accepted < m)
    BY <1>1, MessagesAssumption DEF MarkCommit, TypeOK, ghostVars, Ids
  <1>3. \A n \in Ids : n # m => ContentOf(n)' = ContentOf(n)
    BY <1>2 DEF ContentOf
  <1>4. \A n \in Ids : n # m => (n \in Durable' <=> n \in Durable)
    BY <1>2 DEF Durable
  <1>5. CASE ContentOf(m)' = ContentOf(m) /\ (m \in Durable' <=> m \in Durable)
    BY <1>3, <1>4, <1>5, BoardStutter
  <1>6. CASE mode = "everyone" /\ ContentOf(m) # "gone"
    <2>1. tombstone'[m] = "everyone" /\ ContentOf(m)' = "gone"
      BY <1>2, <1>6 DEF TombstoneAfterMark, ContentOf
    <2>2. ContentOf(m) \in {"text", "retracted"}
      BY <1>1, <1>2, <1>6 DEF ContentOf, TombstonesRule, TypeOK, Modes
    <2>3. m \notin Durable'
      BY <1>1, <1>2, <1>6 DEF Durable, RowAfterMark, TypeOK, Modes
    <2>4. Content' = [Content EXCEPT ![m] = "gone"]
      BY <1>3, <2>1, ContentIs, ContentIsPrime
    <2>5. Durable' = Durable \ {m}
      BY <1>4, <2>3 DEF Durable
    <2>6. Board!Remove(m)
      BY <2>2, <2>4, <2>5, ContentIs DEF Board!Remove, Board!Live
    <2> QED BY <2>6 DEF Board!Next
  <1>7. CASE mode = "everyone" /\ ContentOf(m) = "gone"
    <2>1. ContentOf(m)' = "gone" /\ m \notin Durable'
      BY <1>1, <1>2, <1>7
      DEF TombstoneAfterMark, RowAfterMark, ContentOf, Durable, TypeOK, Modes
    <2>2. m \notin Durable
      BY <1>1, <1>2, <1>7 DEF ContentOf, Durable, TombstonesRule, Modes
    <2> QED BY <1>5, <1>7, <2>1, <2>2
  <1>8. CASE mode = "retracted" /\ ContentOf(m) = "text"
    <2>1. tombstone[m] = "none"
      BY <1>1, <1>2, <1>8 DEF ContentOf, TombstonesRule, TypeOK, Modes
    <2>2. tombstone'[m] = "retracted"
          /\ row'[m] = IF row[m] = "none" THEN "none" ELSE "retracted"
      BY <1>2, <1>8, <2>1 DEF TombstoneAfterMark, RowAfterMark
    <2>3. ContentOf(m)' = "retracted"
      BY <1>2, <1>8, <2>1, <2>2 DEF ContentOf
    <2>4. m \in Durable' <=> m \in Durable
      BY <1>1, <2>1, <2>2 DEF Durable, TombstonesRule
    <2>5. Content' = [Content EXCEPT ![m] = "retracted"]
      BY <1>3, <2>3, ContentIs, ContentIsPrime
    <2>6. Durable' = Durable
      BY <1>4, <2>4 DEF Durable
    <2>7. Board!Retract(m)
      BY <1>8, <2>5, <2>6, ContentIs DEF Board!Retract
    <2> QED BY <2>7 DEF Board!Next
  <1>9. CASE mode = "retracted" /\ ContentOf(m) # "text"
    <2>1. CASE tombstone[m] = "everyone"
      BY <1>2, <1>5, <1>9, <2>1 DEF TombstoneAfterMark, RowAfterMark, ContentOf, Durable
    <2>2. CASE tombstone[m] = "retracted"
      <3>1. row[m] \in {"none", "retracted"}
        BY <1>1, <2>2 DEF TombstonesRule, Modes
      <3>2. tombstone'[m] = tombstone[m] /\ row'[m] = row[m]
        BY <1>2, <1>9, <2>2, <3>1 DEF TombstoneAfterMark, RowAfterMark
      <3> QED BY <1>2, <1>5, <3>2 DEF ContentOf, Durable
    <2>3. CASE tombstone[m] = "none"
      <3>1. row[m] = "none" /\ pending[m] = "none"
        BY <1>1, <1>2, <1>9, <2>3 DEF ContentOf, TombstonesRule
      <3>2. row'[m] = "none" /\ tombstone'[m] = "retracted"
        BY <1>2, <1>9, <2>3, <3>1 DEF TombstoneAfterMark, RowAfterMark
      <3> QED BY <1>2, <1>5, <2>3, <3>1, <3>2 DEF ContentOf, Durable
    <2> QED BY <1>1, <2>1, <2>2, <2>3 DEF TypeOK, Modes
  <1> QED BY <1>6, <1>7, <1>8, <1>9 DEF Modes

\* The RAM copy follows its tombstone, which shows nothing new.
LEMMA BoardFollow ==
  ASSUME IndInv, Take \/ PersistDone \/ PersistLost \/ MarkDone \/ MarkLost \/ Tick
  PROVE  UNCHANGED Board!boardVars
  <1>1. TypeOK /\ QueueShape /\ TombstonesRule
    BY DEF IndInv
  <1>2. row' = row /\ tombstone' = tombstone /\ accepted' = accepted
    BY DEF Take, PersistDone, PersistLost, MarkDone, MarkLost, Tick, dbVars, ghostVars
  <1>3. ASSUME NEW n \in Ids PROVE ContentOf(n)' = ContentOf(n)
    <2>1. CASE pending'[n] = "none" <=> pending[n] = "none"
      BY <1>2, <2>1 DEF ContentOf
    <2>2. CASE PersistDone
      <3>1. writing \in Ids
        BY <1>1, <2>2 DEF PersistDone, TypeOK, QueueShape
      <3>2. n # writing => pending'[n] = pending[n]
        BY <2>2, <1>1, <3>1 DEF PersistDone, TypeOK
      <3>3. Stored(writing) \/ tombstone[writing] = "everyone"
        BY <1>1, <2>2 DEF PersistDone, TombstonesRule
      <3> QED BY <1>2, <2>1, <3>2, <3>3 DEF ContentOf, Stored
    <2>3. CASE MarkDone
      <3>1. marking.id \in Ids /\ tombstone[marking.id] \in {marking.mode, "everyone"}
        BY <1>1, <2>3 DEF MarkDone, TypeOK, Marks, TombstonesRule
      <3>2. pending'[n] = IF n = marking.id
                          THEN PendingAfterMark(marking.id, marking.mode) ELSE pending[n]
        BY <1>1, <2>3, <3>1 DEF MarkDone, TypeOK
      <3>3. n = marking.id /\ marking.mode = "everyone" => tombstone[n] = "everyone"
        BY <3>1
      <3>4. n = marking.id /\ marking.mode # "everyone" =>
              (pending'[n] = "none" <=> pending[n] = "none")
        BY <3>2 DEF PendingAfterMark
      <3>5. CASE n = marking.id /\ marking.mode = "everyone"
        BY <1>2, <3>3, <3>5 DEF ContentOf
      <3> QED BY <2>1, <3>2, <3>4, <3>5
    <2>4. CASE Take \/ PersistLost \/ MarkLost \/ Tick
      BY <2>1, <2>4 DEF Take, PersistLost, MarkLost, Tick, ramVars
    <2> QED BY <2>2, <2>3, <2>4
  <1>4. \A n \in Ids : n \in Durable' <=> n \in Durable
    BY <1>2 DEF Durable
  <1> QED BY <1>3, <1>4, BoardStutter

LEMMA BoardCrash ==
  ASSUME IndInv, Crash
  PROVE  Board!Next
  <1>1. TypeOK /\ TombstonesRule
    BY DEF IndInv
  <1>2. /\ row' = row /\ tombstone' = tombstone /\ accepted' = accepted
        /\ \A n \in Ids : pending'[n] = "none"
    BY DEF Crash, dbVars
  <1>3. Durable' = Durable
    BY <1>2 DEF Durable
  <1>4. ASSUME NEW n \in Ids
        PROVE  ContentOf(n)' = IF ContentOf(n) = "unsent" \/ n \in Durable
                               THEN ContentOf(n) ELSE "gone"
    <2>1. CASE accepted < n
      BY <1>2, <2>1 DEF ContentOf
    <2>2. CASE ~(accepted < n) /\ tombstone[n] = "everyone"
      BY <1>2, <2>2 DEF ContentOf
    <2>3. CASE ~(accepted < n) /\ tombstone[n] # "everyone" /\ row[n] = "none"
      BY <1>2, <2>3 DEF ContentOf, Durable
    <2>4. CASE ~(accepted < n) /\ tombstone[n] # "everyone" /\ row[n] # "none"
      <3>1. n \in Durable
        BY <1>1, <2>4 DEF TombstonesRule, TypeOK, Durable, Modes
      <3> QED BY <1>2, <2>4, <3>1 DEF ContentOf
    <2> QED BY <2>1, <2>2, <2>3, <2>4
  <1>5. Content' = [n \in Ids |-> IF Content[n] = "unsent" \/ n \in Durable
                                  THEN Content[n] ELSE "gone"]
    BY <1>4, ContentIs, ContentIsPrime
  <1>6. Board!Restart
    BY <1>3, <1>5 DEF Board!Restart
  <1> QED BY <1>6 DEF Board!Next

LEMMA BoardStep ==
  IndInv /\ [Next]_persistVars => [Board!Next]_(Board!boardVars)
  <1> SUFFICES ASSUME IndInv, [Next]_persistVars
               PROVE  Board!Next \/ UNCHANGED Board!boardVars
    OBVIOUS
  <1>1. ASSUME NEW m \in Ids, NEW mode \in Modes, MarkCommit(m, mode)
        PROVE  Board!Next \/ UNCHANGED Board!boardVars
    BY <1>1, BoardMark
  <1>2. CASE UNCHANGED persistVars
    <2>1. row' = row /\ tombstone' = tombstone /\ accepted' = accepted /\ pending' = pending
      BY <1>2 DEF persistVars, dbVars, ramVars, ghostVars
    <2>2. /\ \A n \in Ids : ContentOf(n)' = ContentOf(n)
          /\ \A n \in Ids : n \in Durable' <=> n \in Durable
      BY <2>1 DEF ContentOf, Durable
    <2> QED BY <2>2, BoardStutter
  <1> QED BY <1>1, <1>2, BoardAccept, BoardPersist, BoardFollow, BoardCrash DEF Next

\* The RAM store, the queue, the writer and the tombstones together implement the
\* board: content only ever fades, and becomes durable in the order of acceptance.
THEOREM Refinement == SafetySpec => ImplementsBoard
  BY BoardInit, BoardStep, Invariance, PTL
  DEF ImplementsBoard, Board!Spec, SafetySpec
=============================================================================
