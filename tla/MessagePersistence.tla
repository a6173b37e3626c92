------------------------- MODULE MessagePersistence -------------------------
(***************************************************************************)
(* The RAM-first store of one conversation: persister (persist.go), the    *)
(* pendingStore (cache.go) and the shared deletion of a message            *)
(* (message_deletion.go, message_deletion_store.go).                       *)
(*                                                                         *)
(* A message is accepted into RAM and into a bounded queue; one goroutine  *)
(* writes the queue to SurrealDB in order, retrying the head for ever.     *)
(* Deletion marks the database and then the RAM copy under the persister's *)
(* mutex.  Every Query is one database transaction: it commits and         *)
(* answers, commits and loses the answer (the caller sees an error), or    *)
(* does nothing.  The last case changes no state and is a stuttering step. *)
(*                                                                         *)
(* A message is named by its acceptance number.  The ids of the program    *)
(* are 96 random bits; they are only compared for equality.                *)
(***************************************************************************)
EXTENDS Naturals, Sequences, FiniteSets

CONSTANTS MaxMessages,       \* bound: messages ever accepted
          QueueCapacity,     \* cap(p.ch), 10000 in the program
          PendingLimit,      \* pendingStore.limit, 10000 in the program
          MaxClock,          \* bound: readings of the clock
          MaxCrashes         \* bound: restarts of the process

ASSUME MessagesAssumption == MaxMessages \in Nat
ASSUME CapacityAssumption == QueueCapacity \in Nat \ {0} /\ PendingLimit \in Nat
ASSUME BoundsAssumption == MaxClock \in Nat \ {0} /\ MaxCrashes \in Nat

Ids == 1 .. MaxMessages
NoId == 0
Modes == {"retracted", "everyone"}
NoMark == [id |-> NoId, mode |-> "none"]
Marks == {NoMark} \cup [id : Ids, mode : Modes]

VARIABLES
  row,            \* database: the message record of each id
  tombstone,      \* database: the message_tombstone of each id
  lastMessage,    \* database: conversation.last_message
  pending,        \* RAM: the pendingStore's copy of each message
  total,          \* RAM: pendingStore.total
  queue,          \* RAM: the channel p.ch
  writing,        \* RAM: the job persistWithRetry holds, or NoId
  committed,      \* the write's transaction committed, its Query not returned
  marking,        \* the deletion whose transaction committed, Query not returned
  lastCreatedAt,  \* RAM: p.lastCreatedAt
  clock,          \* time.Now()
  createdAt,      \* the job's and the view's timestamp
  accepted,       \* number of messages accepted so far
  boot,           \* number of messages accepted before the last restart
  crashes,        \* number of restarts
  erased          \* history: the strongest deletion whose handler succeeded

dbVars == <<row, tombstone, lastMessage>>
ramVars == <<pending, total, queue, writing, committed, marking, lastCreatedAt>>
ghostVars == <<clock, createdAt, accepted, boot, crashes, erased>>
persistVars == <<dbVars, ramVars, ghostVars>>

TypeOK ==
  /\ row \in [Ids -> {"none", "text"} \cup Modes]
  /\ tombstone \in [Ids -> {"none"} \cup Modes]
  /\ lastMessage \in Ids \cup {NoId}
  /\ pending \in [Ids -> {"none", "text", "retracted"}]
  /\ total \in Nat
  /\ queue \in Seq(Ids)
  /\ writing \in Ids \cup {NoId}
  /\ committed \in BOOLEAN
  /\ marking \in Marks
  /\ lastCreatedAt \in Nat
  /\ clock \in Nat
  /\ createdAt \in [Ids -> Nat]
  /\ accepted \in 0 .. MaxMessages
  /\ boot \in 0 .. MaxMessages
  /\ crashes \in 0 .. MaxCrashes
  /\ erased \in [Ids -> {"none"} \cup Modes]

Init ==
  /\ row = [m \in Ids |-> "none"]
  /\ tombstone = [m \in Ids |-> "none"]
  /\ lastMessage = NoId
  /\ pending = [m \in Ids |-> "none"]
  /\ total = 0
  /\ queue = <<>>
  /\ writing = NoId
  /\ committed = FALSE
  /\ marking = NoMark
  /\ lastCreatedAt = 0
  /\ clock = 1
  /\ createdAt = [m \in Ids |-> 0]
  /\ accepted = 0
  /\ boot = 0
  /\ crashes = 0
  /\ erased = [m \in Ids |-> "none"]

-----------------------------------------------------------------------------
(* The persister.                                                          *)

\* p.mu: taken by doPersist and by a deletion around their Query, and by accept.
MutexFree == ~committed /\ marking = NoMark

\* Faulty: the clock reading is used even when it does not advance.
StampNoBump == clock
\* The timestamp accept gives: strictly after the last accepted one.
Stamp == IF clock > lastCreatedAt THEN clock ELSE lastCreatedAt + 1

HasRoom == Len(queue) < QueueCapacity /\ total < PendingLimit

\* accept: both RAM stores are reserved together, or neither is.
Accept ==
  /\ MutexFree
  /\ HasRoom
  /\ accepted < MaxMessages
  /\ LET m == accepted + 1 IN
       /\ accepted' = m
       /\ createdAt' = [createdAt EXCEPT ![m] = Stamp]
       /\ lastCreatedAt' = Stamp
       /\ pending' = [pending EXCEPT ![m] = "text"]
       /\ total' = total + 1
       /\ queue' = Append(queue, m)
  /\ UNCHANGED <<dbVars, writing, committed, marking, clock, boot, crashes, erased>>

\* loop: the head leaves the channel and stays with the writer until it is stored.
Take ==
  /\ writing = NoId
  /\ queue # <<>>
  /\ writing' = Head(queue)
  /\ queue' = Tail(queue)
  /\ UNCHANGED <<dbVars, pending, total, committed, marking, lastCreatedAt, ghostVars>>

\* Faulty: the tombstone is not consulted.
RowIgnoringTombstone(m) == IF row[m] = "none" THEN "text" ELSE row[m]
\* The record of m after doPersist's transaction: a tombstone of mode everyone
\* stops the write, one of mode retracted strips the body, an existing record stays.
RowAfterPersist(m) ==
  IF tombstone[m] = "everyone" \/ row[m] # "none" THEN row[m]
  ELSE IF tombstone[m] = "retracted" THEN "retracted" ELSE "text"

\* Faulty: the conversation is touched outside the IF of the transaction.
LastMessageAlways(m) == m
\* last_message moves in the same transaction, only when the record is created.
LastMessageAfterPersist(m) ==
  IF tombstone[m] # "everyone" /\ row[m] = "none" THEN m ELSE lastMessage

\* doPersist: the transaction commits; the mutex stays held until Query returns.
PersistCommit ==
  /\ MutexFree
  /\ writing # NoId
  /\ row' = [row EXCEPT ![writing] = RowAfterPersist(writing)]
  /\ lastMessage' = LastMessageAfterPersist(writing)
  /\ committed' = TRUE
  /\ UNCHANGED <<tombstone, pending, total, queue, writing, marking, lastCreatedAt,
                 ghostVars>>

\* Removing a message from the pendingStore when it is there.
TotalWithout(m) == IF pending[m] = "none" THEN total ELSE total - 1

\* doPersist returns nil: pending.Remove, and persistWithRetry returns.
PersistDone ==
  /\ committed
  /\ pending' = [pending EXCEPT ![writing] = "none"]
  /\ total' = TotalWithout(writing)
  /\ writing' = NoId
  /\ committed' = FALSE
  /\ UNCHANGED <<dbVars, queue, marking, lastCreatedAt, ghostVars>>

\* Faulty: the writer gives up on an error.
GiveUp == writing' = NoId /\ UNCHANGED queue
\* persistWithRetry keeps the job and waits; nothing behind it is tried meanwhile.
RetrySame == UNCHANGED <<queue, writing>>

\* The answer of a committed write is lost: doPersist returns the error.
PersistLost ==
  /\ committed
  /\ committed' = FALSE
  /\ RetrySame
  /\ UNCHANGED <<dbVars, pending, total, marking, lastCreatedAt, ghostVars>>

-----------------------------------------------------------------------------
(* Deletion for everyone and retraction.                                   *)

\* Faulty: a later retraction weakens a deletion for everyone.
TombstoneLastWins(m, mode) == mode
\* The tombstone after mark: created, or raised to everyone, never lowered.
TombstoneAfterMark(m, mode) ==
  IF tombstone[m] = "none" \/ mode = "everyone" THEN mode ELSE tombstone[m]

\* The record after mark: scrubbed, unless a retraction meets a deletion for everyone.
RowAfterMark(m, mode) ==
  IF row[m] # "none" /\ (mode = "everyone" \/ tombstone[m] # "everyone")
  THEN mode ELSE row[m]

\* deleteMessageShared under the mutex: mark's transaction commits.  The handler
\* has found the message, in the database or in RAM, so it has been accepted.
MarkCommit(m, mode) ==
  /\ MutexFree
  /\ m <= accepted
  /\ tombstone' = [tombstone EXCEPT ![m] = TombstoneAfterMark(m, mode)]
  /\ row' = [row EXCEPT ![m] = RowAfterMark(m, mode)]
  /\ marking' = [id |-> m, mode |-> mode]
  /\ UNCHANGED <<lastMessage, pending, total, queue, writing, committed, lastCreatedAt,
                 ghostVars>>

\* Faulty: the RAM copy is left to the writer.
PendingUntouched(m, mode) == pending[m]
\* pending.DeleteEverywhere or pending.Retract.
PendingAfterMark(m, mode) ==
  IF pending[m] = "none" \/ mode = "everyone" THEN "none" ELSE "retracted"

\* Faulty: DeleteEverywhere forgets s.total--.
TotalUntouched(m, mode) == total
TotalAfterMark(m, mode) == IF mode = "everyone" THEN TotalWithout(m) ELSE total

\* mark returns nil: the RAM copy follows and the mutex is released.
MarkDone ==
  /\ marking # NoMark
  /\ LET m == marking.id
         mode == marking.mode IN
       /\ pending' = [pending EXCEPT ![m] = PendingAfterMark(m, mode)]
       /\ total' = TotalAfterMark(m, mode)
       /\ erased' = [erased EXCEPT ![m] = IF @ = "everyone" THEN @ ELSE mode]
  /\ marking' = NoMark
  /\ UNCHANGED <<dbVars, queue, writing, committed, lastCreatedAt, clock, createdAt,
                 accepted, boot, crashes>>

\* The answer of a committed mark is lost: the RAM copy is not touched.
MarkLost ==
  /\ marking # NoMark
  /\ marking' = NoMark
  /\ UNCHANGED <<dbVars, pending, total, queue, writing, committed, lastCreatedAt,
                 ghostVars>>

-----------------------------------------------------------------------------
(* The environment.                                                        *)

Tick ==
  /\ clock < MaxClock
  /\ clock' = clock + 1
  /\ UNCHANGED <<dbVars, ramVars, createdAt, accepted, boot, crashes, erased>>

\* The process stops (main.go does not drain the queue) and a new one starts.  A
\* restart takes longer than the nanoseconds by which stamps run ahead of the clock.
Crash ==
  /\ crashes < MaxCrashes
  /\ crashes' = crashes + 1
  /\ boot' = accepted
  /\ clock' = IF clock > lastCreatedAt THEN clock ELSE lastCreatedAt + 1
  /\ pending' = [m \in Ids |-> "none"]
  /\ total' = 0
  /\ queue' = <<>>
  /\ writing' = NoId
  /\ committed' = FALSE
  /\ marking' = NoMark
  /\ lastCreatedAt' = 0
  /\ UNCHANGED <<dbVars, createdAt, accepted, erased>>

Next ==
  \/ Accept
  \/ Take
  \/ PersistCommit
  \/ PersistDone
  \/ PersistLost
  \/ \E m \in Ids, mode \in Modes : MarkCommit(m, mode)
  \/ MarkDone
  \/ MarkLost
  \/ Tick
  \/ Crash

\* The goroutine runs; sync.Mutex does not starve it; and the database, however
\* often it fails, accepts and answers a write that is retried for ever.  A Query
\* returns, because it runs under a deadline.
Fairness ==
  /\ WF_persistVars(Take)
  /\ SF_persistVars(PersistCommit)
  /\ SF_persistVars(PersistDone)
  /\ WF_persistVars(MarkDone \/ MarkLost)

SafetySpec == Init /\ [][Next]_persistVars
Spec == SafetySpec /\ Fairness

-----------------------------------------------------------------------------
(* Properties.                                                             *)

Stored(m) == row[m] # "none"
\* The writer still has m to write.
HasSlot(m) == m = writing \/ \E i \in 1 .. Len(queue) : queue[i] = m

\* Once a deletion has succeeded its content is nowhere it could be read from or
\* written from again: not in the database, not in the RAM copy, and the pending
\* write cannot bring it back (message_deletion.go:101, README line 201).
NoResurrection ==
  \A m \in Ids :
    /\ erased[m] = "everyone" => /\ tombstone[m] = "everyone"
                                 /\ row[m] \in {"none", "everyone"}
                                 /\ pending[m] = "none"
    /\ erased[m] = "retracted" => /\ tombstone[m] \in Modes
                                  /\ row[m] # "text"
                                  /\ pending[m] # "text"

\* accept "reserves both RAM stores together" (persist.go:63): whatever is shown
\* from RAM has a write slot, and whatever this process accepted is stored, deleted
\* for everyone, or both shown from RAM and still to be written.
AcceptedIsKept ==
  \A m \in Ids :
    /\ pending[m] # "none" => HasSlot(m)
    /\ boot < m /\ m <= accepted =>
         Stored(m) \/ tombstone[m] = "everyone" \/ (pending[m] # "none" /\ HasSlot(m))

\* The message records enter the database in the order of their timestamps, which
\* are strictly increasing: a reader who pages backwards by created_at never finds
\* a message inserted behind its cursor.
StoredInCreationOrder ==
  \A m, n \in Ids :
    m < n /\ n <= accepted =>
      /\ createdAt[m] < createdAt[n]
      /\ Stored(n) /\ HasSlot(m) => Stored(m) \/ tombstone[m] = "everyone"

\* The limit of the pendingStore is enforced on a counter that three operations
\* maintain separately: it is the number of messages really pending.
TotalIsExact == total = Cardinality({m \in Ids : pending[m] # "none"})

\* conversation.last_message points at the newest record of the conversation, also
\* when the write was repeated after a lost answer.
LastMessageIsNewest ==
  /\ lastMessage # NoId => Stored(lastMessage)
  /\ \A m \in Ids : Stored(m) => m <= lastMessage

Settled(m) == /\ pending[m] = "none"
              /\ Stored(m) \/ tombstone[m] = "everyone" \/ m <= boot

\* An accepted message ends in the database or deleted, and leaves RAM, unless the
\* process stops first.  One message that cannot be written holds up all the later
\* ones, so this needs every write to succeed eventually.
EveryAcceptedSettles == \A m \in Ids : (accepted >= m) ~> Settled(m)

\* The refinement: the authoritative content of a message, and the messages whose
\* record survives a restart.
Content ==
  [m \in Ids |->
     IF accepted < m THEN "unsent"
     ELSE IF tombstone[m] = "everyone" THEN "gone"
     ELSE IF Stored(m) THEN row[m]
     ELSE IF pending[m] = "none" THEN "gone"
     ELSE IF tombstone[m] = "retracted" THEN "retracted" ELSE "text"]

Durable == {m \in Ids : row[m] \in {"text", "retracted"}}

Board == INSTANCE MessageBoard WITH content <- Content, durable <- Durable

\* The persister, the pendingStore and the tombstones together behave as the board.
ImplementsBoard == Board!Spec

-----------------------------------------------------------------------------
(* The inductive invariant of the proofs.                                  *)

\* The queue is the last accepted messages in order, behind the one being written;
\* none of them has a record yet.
QueueShape ==
  /\ Len(queue) <= accepted - boot
  /\ \A i \in 1 .. Len(queue) : queue[i] = accepted - Len(queue) + i
  /\ writing # NoId => writing > boot /\ writing = accepted - Len(queue)
  /\ \A m \in Ids : accepted - Len(queue) < m => row[m] = "none"
  /\ committed => writing # NoId /\ marking = NoMark

\* Only accepted messages have left a trace.
OnlyAccepted ==
  /\ marking # NoMark => marking.id <= accepted
  /\ \A m \in Ids : accepted < m => /\ row[m] = "none"
                                    /\ tombstone[m] = "none"
                                    /\ pending[m] = "none"
                                    /\ erased[m] = "none"

\* A record shows exactly what its tombstone allows, a RAM copy is stripped only
\* under a tombstone, and a deletion still running has already left one.
TombstonesRule ==
  /\ \A m \in Ids : /\ tombstone[m] = "none" => row[m] \in {"none", "text"}
                    /\ tombstone[m] \in Modes => row[m] \in {"none", tombstone[m]}
                    /\ pending[m] = "retracted" => tombstone[m] # "none"
  /\ marking # NoMark => tombstone[marking.id] \in {marking.mode, "everyone"}
  /\ committed => Stored(writing) \/ tombstone[writing] = "everyone"

\* Later messages have later timestamps, up to the last one of this process.
Chronological ==
  /\ \A m, n \in Ids : m < n /\ n <= accepted => createdAt[m] < createdAt[n]
  /\ \A m \in Ids : m <= accepted => createdAt[m] <= lastCreatedAt \/ createdAt[m] < clock

IndInv ==
  /\ TypeOK
  /\ QueueShape
  /\ OnlyAccepted
  /\ TombstonesRule
  /\ Chronological
  /\ NoResurrection
  /\ AcceptedIsKept
  /\ TotalIsExact
  /\ LastMessageIsNewest
=============================================================================
