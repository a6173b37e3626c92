----------------------- MODULE MessageHandlersProofs -----------------------
(***************************************************************************)
(* Proofs about the two modules of handlers over the store of              *)
(* MessagePersistence, which use it only in the ways it allows, so that    *)
(* what is proved of the store holds of both.  MessageService: sends are   *)
(* admitted once, pages hide what was deleted and miss nothing.  Receipts, *)
(* for any recipients and requests: every recipient of a stored message    *)
(* has one, and what was answered as read stays so.                        *)
(***************************************************************************)
EXTENDS MessageService, Receipts, MessagePersistenceProofs, WellFoundedInduction

-----------------------------------------------------------------------------
(* MessageService.                                                         *)

\* A deletion that is under way names a message.
DeletionNamesMessage ==
  /\ deletion \in [Deleters -> [pc : {"idle", "find", "apply", "committed"},
                                id : Ids \cup {NoId}, kind : Kinds]]
  /\ \A a \in Deleters : deletion[a].pc # "idle" => deletion[a].id \in Ids

Past == {"checkBlock", "admit"}

\* While the entry of an accepted message is due, it is there, or a newer one; and nothing
\* else than an accepted message, a handler past the check or a failed block check has
\* left an entry.
PairInv(s) ==
  /\ send[s].at <= clock
  /\ \A m \in AcceptedAs(s) : asked[m] + DedupTTL <= dedup[s] \/ asked[m] + DedupTTL <= clock
  /\ send[s].pc \in Past =>
       /\ send[s].at + DedupTTL <= dedup[s] \/ send[s].at + DedupTTL <= clock
       /\ \A m \in AcceptedAs(s) : asked[m] + DedupTTL <= clock
  /\ dedup[s] # 0 =>
       \/ send[s].pc \in Past \/ s \in stranded
       \/ \E m \in AcceptedAs(s) : asked[m] + DedupTTL = dedup[s]
  /\ send[s].pc \in Past /\ dedup[s] # 0 => dedup[s] = send[s].at + DedupTTL

AdmissionTypes ==
  /\ dedup \in [Sends -> Nat] /\ asked \in [Ids -> Nat]
  /\ send \in [Sends -> [pc : {"idle", "check", "checkBlock", "admit"}, at : Nat]]
  /\ origin \in [Ids -> Sends \cup {NoSend}]
  /\ \A m \in Ids : m <= accepted => origin[m] \in Sends

Admission == AdmissionTypes /\ \A s \in Sends : PairInv(s)

-----------------------------------------------------------------------------
(* The service implements the store.                                       *)

LEMMA DeletionInit == ServiceInit => DeletionNamesMessage
  BY DEF ServiceInit, DeletionNamesMessage, NoRequest, Kinds

LEMMA DeletionStep ==
  DeletionNamesMessage /\ [ServiceNext]_serviceVars => DeletionNamesMessage'
  <1> SUFFICES ASSUME DeletionNamesMessage, [ServiceNext]_serviceVars
               PROVE  DeletionNamesMessage'
    OBVIOUS
  <1> USE DEF DeletionNamesMessage
  <1>1. CASE UNCHANGED deletion
    BY <1>1
  <1>2. ASSUME NEW a \in Deleters, NEW m \in Ids, NEW kind \in Kinds,
               DeleteLookup(a, m, kind)
        PROVE  DeletionNamesMessage'
    BY <1>2 DEF DeleteLookup
  <1>3. ASSUME NEW a \in Deleters,
               DeleteFind(a) \/ HideCommit(a) \/ HideDone(a) \/ HideLost(a)
                 \/ EraseCommit(a) \/ EraseDone(a) \/ EraseLost(a)
        PROVE  DeletionNamesMessage'
    <2>1. CASE deletion' = [deletion EXCEPT ![a] = NoRequest]
      BY <2>1 DEF NoRequest, Kinds
    <2>2. CASE /\ deletion[a].pc # "idle"
               /\ \E pc \in {"apply", "committed"} :
                    deletion' = [deletion EXCEPT ![a].pc = pc]
      BY <2>2
    <2>3. CASE DeleteFind(a)
      BY <2>1, <2>2, <2>3 DEF DeleteFind
    <2> QED
      BY <1>3, <2>1, <2>2, <2>3
      DEF HideCommit, HideDone, HideLost, EraseCommit, EraseDone, EraseLost,
          Applying, Commit, Finish
  <1>4. CASE ServiceCrash
    BY <1>4 DEF ServiceCrash, NoRequest, Kinds
  <1> QED
    BY <1>1, <1>2, <1>3, <1>4
    DEF ServiceNext, serviceVars, handlerVars, Background, WriteCommit, SendBegin,
        SendDuplicate, SendLimited, SendCheck, SendBlocked, SendAllowed, SendAdmit,
        SendRefused, DropExpired, FetchRead, FetchMerge

\* A step of a handler is a step of the store, or leaves the store alone.
LEMMA StoreStep ==
  DeletionNamesMessage /\ [ServiceNext]_serviceVars => [Next]_persistVars
  <1> SUFFICES ASSUME DeletionNamesMessage, [ServiceNext]_serviceVars
               PROVE  [Next]_persistVars
    OBVIOUS
  <1>1. ASSUME NEW s \in Sends, SendAdmit(s)
        PROVE  Next
    BY <1>1 DEF SendAdmit, Next
  <1>2. ASSUME NEW a \in Deleters, EraseCommit(a)
        PROVE  Next
    <2>1. deletion[a].id \in Ids /\ deletion[a].kind \in Modes
      BY <1>2 DEF EraseCommit, Applying, DeletionNamesMessage
    <2> QED BY <1>2, <2>1 DEF EraseCommit, Next
  <1>3. ASSUME NEW a \in Deleters, EraseDone(a) \/ EraseLost(a)
        PROVE  Next
    BY <1>3 DEF EraseDone, EraseLost, Next
  <1>4. CASE Background \/ WriteCommit
    BY <1>4 DEF Background, WriteCommit, Next
  <1>5. CASE ServiceCrash
    BY <1>5 DEF ServiceCrash, Next
  <1>6. CASE UNCHANGED persistVars
    BY <1>6
  <1> QED
    BY <1>1, <1>2, <1>3, <1>4, <1>5, <1>6
    DEF ServiceNext, serviceVars, SendBegin, SendDuplicate, SendLimited, SendCheck,
        SendBlocked, SendAllowed, SendRefused, DropExpired, FetchRead, FetchMerge,
        DeleteLookup, DeleteFind, HideCommit, HideDone, HideLost

\* The handlers take no liberty with the store: whatever they do, in whatever order,
\* is a behaviour of MessagePersistence.
THEOREM ServiceUsesStore == ServiceSpec => SafetySpec
  <1>1. ServiceInit => Init
    BY DEF ServiceInit
  <1> QED
    BY <1>1, DeletionInit, DeletionStep, StoreStep, PTL DEF ServiceSpec, SafetySpec

\* Hence a deletion a client was told of is final whatever other requests run beside
\* it, and whenever the process is restarted.
THEOREM ServiceDeletionIsFinal == ServiceSpec => []NoResurrection
  BY ServiceUsesStore, DeletionIsFinal, PTL

\* And the conversation, seen through the handlers, is the abstract board.
THEOREM ServiceImplementsBoard == ServiceSpec => ImplementsBoard
  BY ServiceUsesStore, Refinement, PTL

-----------------------------------------------------------------------------
(* The admission of sends.                                                 *)

LEMMA AdmissionInit == ServiceInit => Admission
  <1> SUFFICES ASSUME ServiceInit PROVE Admission
    OBVIOUS
  <1>1. accepted = 0 /\ clock = 1 /\ \A m \in Ids : m \in Nat \ {0}
    BY MessagesAssumption DEF ServiceInit, Init, Ids
  <1>2. AdmissionTypes
    BY <1>1 DEF ServiceInit, AdmissionTypes, NoSending
  <1>3. \A s \in Sends : /\ send[s].at = 0 /\ send[s].pc = "idle" /\ dedup[s] = 0
                         /\ AcceptedAs(s) = {}
    BY <1>1 DEF ServiceInit, NoSending, AcceptedAs
  <1> QED BY <1>1, <1>2, <1>3 DEF Admission, PairInv, Past

\* What the steps of a send have in common: the store does not move, nothing is accepted,
\* and only its own pair is touched.
Sending(s) ==
  /\ UNCHANGED <<origin, asked, accepted, boot, clock>>
  /\ dedup' \in [Sends -> Nat]
  /\ send' \in [Sends -> [pc : {"idle", "check", "checkBlock", "admit"}, at : Nat]]
  /\ \A t \in Sends : t # s =>
       /\ dedup'[t] = dedup[t] /\ send'[t] = send[t]
       /\ t \in stranded' <=> t \in stranded

LEMMA OwnPair ==
  ASSUME Admission, NEW s \in Sends, Sending(s), PairInv(s)'
  PROVE  Admission'
  <1>1. AdmissionTypes'
    BY DEF Admission, AdmissionTypes, Sending
  <1>2. \A t \in Sends : AcceptedAs(t)' = AcceptedAs(t)
    BY DEF Sending, AcceptedAs
  <1>3. ASSUME NEW t \in Sends, t # s PROVE PairInv(t)'
    BY <1>2, <1>3 DEF Admission, PairInv, Sending
  <1> QED BY <1>1, <1>3 DEF Admission

LEMMA AdmissionNumbers ==
  ASSUME IndInv
  PROVE  /\ accepted \in Nat /\ boot \in Nat /\ boot <= accepted /\ clock \in Nat
         /\ DedupTTL \in Nat \ {0} /\ \A m \in Ids : m \in Nat
  BY MessagesAssumption, DedupAssumption DEF IndInv, TypeOK, QueueShape, Ids

\* A handler begins, is told off, goes on, or an entry is dropped.
LEMMA SendingStep ==
  ASSUME IndInv, Admission, NEW s \in Sends,
         SendBegin(s) \/ SendDuplicate(s) \/ SendLimited(s) \/ SendBlocked(s)
           \/ SendAllowed(s) \/ DropExpired(s)
  PROVE  Admission'
  <1>0. /\ clock \in Nat /\ DedupTTL \in Nat /\ PairInv(s) /\ dedup[s] \in Nat
        /\ send[s].at \in Nat /\ dedup \in [Sends -> Nat]
        /\ send \in [Sends -> [pc : {"idle", "check", "checkBlock", "admit"}, at : Nat]]
    BY AdmissionNumbers DEF Admission, AdmissionTypes
  <1>1. UNCHANGED <<origin, asked, accepted, boot, clock>>
    BY DEF SendBegin, SendDuplicate, SendLimited, SendBlocked, SendAllowed, DropExpired,
           persistVars, ghostVars, historyVars
  <1>2. AcceptedAs(s)' = AcceptedAs(s)
    BY <1>1 DEF AcceptedAs
  <1>3. ASSUME NEW m \in AcceptedAs(s) PROVE asked[m] \in Nat
    BY DEF Admission, AdmissionTypes, AcceptedAs
  <1>4. CASE SendBegin(s)
    <2>1. /\ send' = [send EXCEPT ![s] = [pc |-> "check", at |-> clock]]
          /\ dedup' = dedup /\ stranded' = stranded /\ send[s].pc = "idle"
      BY <1>4 DEF SendBegin, historyVars, NoSending
    <2>2. Sending(s)
      BY <1>0, <1>1, <2>1 DEF Sending
    <2>3. PairInv(s)'
      BY <1>0, <1>1, <1>2, <2>1 DEF PairInv, Past
    <2> QED BY <2>2, <2>3, OwnPair
  <1>5. CASE SendDuplicate(s) \/ SendLimited(s)
    <2>1. /\ send' = [send EXCEPT ![s] = [pc |-> "idle", at |-> 0]]
          /\ dedup' = dedup /\ stranded' = stranded /\ send[s].pc = "check"
      BY <1>5 DEF SendDuplicate, SendLimited, Duplicate, AtCheck, Return, historyVars, NoSending
    <2>2. Sending(s)
      BY <1>0, <1>1, <2>1 DEF Sending
    <2>3. PairInv(s)'
      BY <1>0, <1>1, <1>2, <2>1 DEF PairInv, Past
    <2> QED BY <2>2, <2>3, OwnPair
  <1>6. CASE SendBlocked(s)
    <2>1. /\ send' = [send EXCEPT ![s] = [pc |-> "idle", at |-> 0]]
          /\ dedup' = dedup /\ stranded' = stranded \cup {s}
      BY <1>6 DEF SendBlocked, Return, NoSending
    <2>2. Sending(s)
      BY <1>0, <1>1, <2>1 DEF Sending
    <2>3. PairInv(s)'
      BY <1>0, <1>1, <1>2, <2>1 DEF PairInv, Past
    <2> QED BY <2>2, <2>3, OwnPair
  <1>7. CASE SendAllowed(s)
    <2>1. /\ send' = [send EXCEPT ![s].pc = "admit"]
          /\ dedup' = dedup /\ stranded' = stranded /\ send[s].pc = "checkBlock"
      BY <1>7 DEF SendAllowed, Step, historyVars
    <2>2. Sending(s)
      BY <1>0, <1>1, <2>1 DEF Sending
    <2>3. PairInv(s)'
      BY <1>0, <1>1, <1>2, <2>1 DEF PairInv, Past
    <2> QED BY <2>2, <2>3, OwnPair
  <1>8. CASE DropExpired(s)
    <2>1. /\ send' = send /\ dedup' = [dedup EXCEPT ![s] = 0] /\ stranded' = stranded
          /\ dedup[s] <= clock
      BY <1>0, <1>8 DEF DropExpired, historyVars, handlerVars
    <2>2. Sending(s)
      BY <1>0, <1>1, <2>1 DEF Sending
    <2>3. PairInv(s)'
      <3>1. dedup'[s] = 0 /\ send'[s] = send[s]
        BY <1>0, <2>1
      <3>2. \A m \in AcceptedAs(s) : asked[m] + DedupTTL <= clock
        BY <1>0, <1>3, <2>1 DEF PairInv
      <3>3. send[s].pc \in Past => send[s].at + DedupTTL <= clock
        BY <1>0, <2>1 DEF PairInv
      <3> QED BY <1>0, <1>1, <1>2, <3>1, <3>2, <3>3 DEF PairInv
    <2> QED BY <2>2, <2>3, OwnPair
  <1> QED BY <1>4, <1>5, <1>6, <1>7, <1>8

\* Check lets a message pass only when the entries of its pair have expired.
LEMMA CheckStep ==
  ASSUME IndInv, Admission, NEW s \in Sends, SendCheck(s)
  PROVE  Admission'
  <1>0. /\ clock \in Nat /\ DedupTTL \in Nat \ {0} /\ PairInv(s) /\ dedup[s] \in Nat
        /\ send[s].at \in Nat /\ dedup \in [Sends -> Nat]
        /\ send \in [Sends -> [pc : {"idle", "check", "checkBlock", "admit"}, at : Nat]]
    BY AdmissionNumbers DEF Admission, AdmissionTypes
  <1>1. /\ UNCHANGED <<origin, asked, accepted, boot, clock>>
        /\ dedup' = [dedup EXCEPT ![s] = send[s].at + DedupTTL]
        /\ send' = [send EXCEPT ![s].pc = "checkBlock"] /\ stranded' = stranded \ {s}
        /\ dedup[s] <= send[s].at
    BY <1>0 DEF SendCheck, Recorded, Step, Duplicate, persistVars, ghostVars
  <1>2. AcceptedAs(s)' = AcceptedAs(s)
    BY <1>1 DEF AcceptedAs
  <1>3. Sending(s)
    BY <1>0, <1>1 DEF Sending
  <1>4. \A m \in AcceptedAs(s) : asked[m] + DedupTTL <= clock
    <2>1. ASSUME NEW m \in AcceptedAs(s) PROVE asked[m] \in Nat
      BY DEF Admission, AdmissionTypes, AcceptedAs
    <2> QED BY <1>0, <1>1, <2>1 DEF PairInv
  <1>5. /\ dedup'[s] = send[s].at + DedupTTL
        /\ send'[s].pc = "checkBlock" /\ send'[s].at = send[s].at
    BY <1>0, <1>1
  <1>6. PairInv(s)'
    BY <1>0, <1>1, <1>2, <1>4, <1>5 DEF PairInv, Past
  <1> QED BY <1>3, <1>6, OwnPair

\* A refused message's entry is forgotten: those of its pair were accepted long ago.
LEMMA RefusedStep ==
  ASSUME IndInv, Admission, NEW s \in Sends, SendRefused(s)
  PROVE  Admission'
  <1>0. /\ clock \in Nat /\ PairInv(s)
        /\ send[s].at \in Nat /\ dedup \in [Sends -> Nat]
        /\ send \in [Sends -> [pc : {"idle", "check", "checkBlock", "admit"}, at : Nat]]
    BY AdmissionNumbers DEF Admission, AdmissionTypes
  <1>1. /\ UNCHANGED <<origin, asked, accepted, boot, clock>>
        /\ dedup' = [dedup EXCEPT ![s] = 0]
        /\ send' = [send EXCEPT ![s] = [pc |-> "idle", at |-> 0]] /\ stranded' = stranded
        /\ send[s].pc = "admit"
    BY DEF SendRefused, Forgotten, Return, NoSending, persistVars, ghostVars, historyVars
  <1>2. AcceptedAs(s)' = AcceptedAs(s)
    BY <1>1 DEF AcceptedAs
  <1>3. Sending(s)
    BY <1>0, <1>1 DEF Sending
  <1>4. /\ dedup'[s] = 0 /\ send'[s].pc = "idle" /\ send'[s].at = 0
        /\ \A m \in AcceptedAs(s) : asked[m] + DedupTTL <= clock
    BY <1>0, <1>1 DEF PairInv, Past
  <1>5. PairInv(s)'
    BY <1>0, <1>1, <1>2, <1>4 DEF PairInv, Past
  <1> QED BY <1>3, <1>5, OwnPair

\* An accepted message takes over the entry that its Check has left.
LEMMA AdmitStep ==
  ASSUME IndInv, Admission, NEW s \in Sends, SendAdmit(s)
  PROVE  Admission'
  <1> DEFINE n == accepted + 1
  <1>0. /\ accepted \in Nat /\ boot \in Nat /\ boot <= accepted /\ clock \in Nat
        /\ DedupTTL \in Nat /\ PairInv(s) /\ AdmissionTypes /\ send[s].at \in Nat
        /\ \A m \in Ids : m \in Nat
    BY AdmissionNumbers DEF Admission, AdmissionTypes
  <1>1. /\ accepted' = n /\ boot' = boot /\ n \in Ids /\ clock' = clock
        /\ origin' = [origin EXCEPT ![n] = s] /\ asked' = [asked EXCEPT ![n] = send[s].at]
        /\ send[s].pc = "admit" /\ send' = [send EXCEPT ![s] = [pc |-> "idle", at |-> 0]]
        /\ dedup' = dedup /\ stranded' = stranded
    BY <1>0, MessagesAssumption DEF SendAdmit, Accept, Ids, Return, NoSending
  <1> HIDE DEF n
  <1>2. \A m \in Ids : m # n => origin'[m] = origin[m] /\ asked'[m] = asked[m]
    BY <1>0, <1>1 DEF AdmissionTypes
  <1>3. origin'[n] = s /\ asked'[n] = send[s].at
    BY <1>0, <1>1 DEF AdmissionTypes
  <1>4. /\ AcceptedAs(s)' = AcceptedAs(s) \cup {n} /\ n \notin AcceptedAs(s)
        /\ \A t \in Sends : t # s => AcceptedAs(t)' = AcceptedAs(t) /\ n \notin AcceptedAs(t)
    <2>1. /\ boot < n /\ ~(n <= accepted) /\ n <= n
          /\ \A m \in Ids : m # n => (m <= n <=> m <= accepted)
      BY <1>0, <1>1 DEF n
    <2>2. ASSUME NEW t \in Sends, NEW m \in Ids
          PROVE  m \in AcceptedAs(t)' <=> m \in AcceptedAs(t) \/ (m = n /\ t = s)
      <3>1. CASE m = n
        BY <1>1, <1>3, <2>1, <3>1 DEF AcceptedAs
      <3>2. CASE m # n
        BY <1>1, <1>2, <2>1, <3>2 DEF AcceptedAs
      <3> QED BY <3>1, <3>2
    <2>3. \A t \in Sends : /\ n \notin AcceptedAs(t)
                           /\ AcceptedAs(t) \subseteq Ids /\ AcceptedAs(t)' \subseteq Ids
      BY <2>1 DEF AcceptedAs
    <2> QED BY <1>1, <2>2, <2>3
  <1>5. AdmissionTypes'
    <2>1. /\ dedup' \in [Sends -> Nat] /\ asked' \in [Ids -> Nat]
          /\ origin' \in [Ids -> Sends \cup {NoSend}]
      BY <1>0, <1>1 DEF AdmissionTypes
    <2>2. send' \in [Sends -> [pc : {"idle", "check", "checkBlock", "admit"}, at : Nat]]
      BY <1>0, <1>1 DEF AdmissionTypes
    <2>3. \A m \in Ids : m <= accepted' => origin'[m] \in Sends
      <3>1. \A m \in Ids : m <= accepted' /\ m # n => m <= accepted
        BY <1>0, <1>1 DEF n
      <3> QED BY <1>0, <1>2, <1>3, <3>1 DEF AdmissionTypes
    <2> QED BY <2>1, <2>2, <2>3 DEF AdmissionTypes
  <1>6. ASSUME NEW t \in Sends, NEW m \in AcceptedAs(t)
        PROVE  m \in Ids /\ asked[m] \in Nat
    BY <1>0 DEF AcceptedAs, AdmissionTypes
  <1>7. ASSUME NEW t \in Sends, t # s PROVE PairInv(t)'
    <2>1. \A m \in AcceptedAs(t) : asked'[m] = asked[m]
      BY <1>2, <1>4, <1>6, <1>7
    <2> QED BY <1>0, <1>1, <1>4, <1>7, <2>1 DEF Admission, PairInv, AdmissionTypes
  <1>8. PairInv(s)'
    <2>1. \A m \in AcceptedAs(s) : asked'[m] = asked[m]
      BY <1>2, <1>4, <1>6
    <2>2. send'[s].pc = "idle" /\ send'[s].at = 0 /\ dedup'[s] = dedup[s]
      BY <1>0, <1>1 DEF AdmissionTypes
    <2>3. \A m \in AcceptedAs(s) : asked[m] + DedupTTL <= clock
      BY <1>0, <1>1 DEF PairInv, Past
    <2>4. /\ send[s].at + DedupTTL <= dedup[s] \/ send[s].at + DedupTTL <= clock
          /\ dedup[s] # 0 => dedup[s] = send[s].at + DedupTTL
      BY <1>0, <1>1 DEF PairInv, Past
    <2> QED BY <1>0, <1>1, <1>3, <1>4, <2>1, <2>2, <2>3, <2>4 DEF PairInv, Past
  <1> QED BY <1>5, <1>7, <1>8 DEF Admission

\* What moves only the store and the clock.
LEMMA QuietStep ==
  ASSUME IndInv, IndInv', Admission, clock <= clock',
         UNCHANGED <<origin, asked, accepted, boot, dedup, send, stranded>>
  PROVE  Admission'
  <1>1. clock \in Nat /\ clock' \in Nat /\ DedupTTL \in Nat
    BY AdmissionNumbers DEF IndInv, TypeOK
  <1>2. AdmissionTypes' /\ AdmissionTypes
    BY DEF Admission, AdmissionTypes
  <1>3. ASSUME NEW s \in Sends PROVE PairInv(s)'
    <2>1. AcceptedAs(s)' = AcceptedAs(s)
      BY DEF AcceptedAs
    <2>2. /\ send[s].at \in Nat /\ dedup[s] \in Nat
          /\ \A m \in AcceptedAs(s) : asked[m] \in Nat
      BY <1>2 DEF AdmissionTypes, AcceptedAs
    <2> QED BY <1>1, <2>1, <2>2 DEF Admission, PairInv
  <1> QED BY <1>2, <1>3 DEF Admission

LEMMA AdmissionStep ==
  IndInv /\ IndInv' /\ Admission /\ [ServiceNext]_serviceVars => Admission'
  <1> SUFFICES ASSUME IndInv, IndInv', Admission, [ServiceNext]_serviceVars
               PROVE  Admission'
    OBVIOUS
  <1>1. ASSUME UNCHANGED <<origin, asked, accepted, boot, dedup, send, stranded, clock>>
        PROVE  Admission'
    <2>1. clock <= clock'
      BY <1>1, AdmissionNumbers
    <2> QED BY <1>1, <2>1, QuietStep
  <1>2. ASSUME NEW s \in Sends,
               SendBegin(s) \/ SendDuplicate(s) \/ SendLimited(s) \/ SendCheck(s)
                 \/ SendBlocked(s) \/ SendAllowed(s) \/ SendAdmit(s) \/ SendRefused(s)
                 \/ DropExpired(s)
        PROVE  Admission'
    BY <1>2, SendingStep, CheckStep, AdmitStep, RefusedStep
  <1>3. ASSUME Background \/ WriteCommit \/
               \E a \in Deleters : EraseCommit(a) \/ EraseDone(a) \/ EraseLost(a)
        PROVE  Admission'
    <2>1. UNCHANGED <<origin, asked, accepted, boot, dedup, send, stranded>>
      BY <1>3
      DEF Background, WriteCommit, EraseCommit, EraseDone, EraseLost, Take, PersistCommit,
          PersistDone, PersistLost, MarkCommit, MarkDone, MarkLost, Tick, ghostVars,
          handlerVars, historyVars
    <2>2. clock' = clock \/ clock' = clock + 1
      BY <1>3
      DEF Background, WriteCommit, EraseCommit, EraseDone, EraseLost, Take, PersistCommit,
          PersistDone, PersistLost, MarkCommit, MarkDone, MarkLost, Tick, ghostVars
    <2>3. clock <= clock'
      BY <2>2, AdmissionNumbers
    <2> QED BY <2>1, <2>3, QuietStep
  <1>4. CASE ServiceCrash
    <2>1. /\ boot' = accepted /\ accepted' = accepted /\ origin' = origin
          /\ dedup' = [s \in Sends |-> 0] /\ asked' = [m \in Ids |-> 0]
          /\ send' = [s \in Sends |-> [pc |-> "idle", at |-> 0]]
      BY <1>4 DEF ServiceCrash, Crash, NoSending
    <2>2. \A s : AcceptedAs(s)' = {}
      BY <2>1, AdmissionNumbers DEF AcceptedAs
    <2>3. AdmissionTypes'
      BY <2>1 DEF Admission, AdmissionTypes
    <2>4. clock' \in Nat
      BY DEF IndInv, TypeOK
    <2> QED BY <2>1, <2>2, <2>3, <2>4 DEF Admission, PairInv, Past
  <1> QED
    BY <1>1, <1>2, <1>3, <1>4
    DEF ServiceNext, serviceVars, handlerVars, historyVars, persistVars, ghostVars,
        FetchRead, FetchMerge, DeleteLookup, DeleteFind, HideCommit, HideDone, HideLost

LEMMA AdmissionInvariance == ServiceSpec => []Admission
  <1>1. ServiceSpec => []IndInv
    BY ServiceUsesStore, Invariance, PTL
  <1> QED BY <1>1, AdmissionInit, AdmissionStep, PTL DEF ServiceSpec

\* Within one run of the process no request gets past Check with the clientId of an
\* accepted message of its account until the entry of that message is due to expire.
THEOREM AcceptedOnce == ServiceSpec => []OneMessagePerClientId
  <1>1. Admission => OneMessagePerClientId
    BY DEF Admission, PairInv, Past, OneMessagePerClientId
  <1> QED BY <1>1, AdmissionInvariance, PTL

\* A send refused for lack of room is not taken for a duplicate when it is repeated.
THEOREM RetryAfterRefusal == ServiceSpec => []RefusedCanRetry
  <1>1. ASSUME Admission, NEW s \in Sends, Duplicate(s)
        PROVE  s \in stranded \/ \E m \in AcceptedAs(s) : asked[m] + DedupTTL > send[s].at
    <2>1. dedup[s] \in Nat /\ send[s].at \in Nat
      BY <1>1 DEF Admission, AdmissionTypes
    <2>2. dedup[s] # 0 /\ dedup[s] > send[s].at /\ send[s].pc = "check"
      BY <1>1, <2>1 DEF Duplicate, AtCheck
    <2> QED BY <1>1, <2>2 DEF Admission, PairInv, Past
  <1>2. Admission => RefusedCanRetry
    BY <1>1 DEF RefusedCanRetry
  <1> QED BY <1>2, AdmissionInvariance, PTL

-----------------------------------------------------------------------------
(* Listings and deletions.                                                 *)

FetchRecords ==
  [pc : {"idle", "merge"}, page : Pages, gone : SUBSET Ids, bare : SUBSET Ids,
   upTo : 0 .. MaxMessages, arrived : SUBSET Ids]

\* A deletion for me that succeeded is in the database, and either in RAM or about a
\* message that is not, and will not be.
HideInv ==
  /\ hiddenDB \subseteq Accounts \X Ids /\ hiddenRAM \subseteq Accounts \X Ids
  /\ hideDone \subseteq hiddenDB
  /\ \A a \in Deleters : deletion[a].pc # "idle" =>
       /\ deletion[a].id <= accepted
       /\ Committed(a, {"hide"}) => <<a, deletion[a].id>> \in hiddenDB
  /\ \A a \in Accounts, m \in Ids : <<a, m>> \in hideDone =>
       m <= accepted /\ (<<a, m>> \in hiddenRAM \/ pending[m] = "none")

\* What a page read from the database does not show, or not with its body, is deleted.
PageInv ==
  /\ fetch \in [Readers -> FetchRecords] /\ stranded \subseteq Sends
  /\ \A a \in Readers : fetch[a].pc = "merge" =>
       /\ \A m \in fetch[a].gone : /\ fetch[a].page[m] = "none"
                                   /\ erased[m] = "everyone" \/ <<a, m>> \in hideDone
       /\ \A m \in fetch[a].bare : fetch[a].page[m] # "text" /\ erased[m] \in Modes

\* A record that the account may see is on a page read from the database, or was created
\* after the query.
FoundInv ==
  \A a \in Readers : fetch[a].pc = "merge" =>
    \A m \in Ids :
      Stored(m) /\ tombstone[m] # "everyone" /\ <<a, m>> \notin hiddenDB =>
        fetch[a].page[m] # "none" \/ m \in fetch[a].arrived

\* A listing is about messages that have been accepted.
UpToInv == \A a \in Readers : fetch[a].upTo <= accepted

ServiceInv ==
  /\ IndInv /\ DeletionNamesMessage /\ Admission /\ HideInv
  /\ PageInv /\ FoundInv /\ UpToInv

\* The store takes back nothing: what is not in RAM and was accepted stays out of it,
\* and what is deleted stays deleted.
LEMMA StoreMoves ==
  ASSUME IndInv, [Next]_persistVars
  PROVE  /\ accepted \in Nat /\ accepted' \in Nat /\ accepted <= accepted'
         /\ \A m \in Ids :
              /\ m <= accepted /\ pending[m] = "none" => pending'[m] = "none"
              /\ erased[m] = "everyone" => erased'[m] = "everyone"
              /\ erased[m] \in Modes => erased'[m] \in Modes
  <1>1. /\ accepted \in Nat /\ accepted \in 0 .. MaxMessages /\ MaxMessages \in Nat
        /\ pending \in [Ids -> {"none", "text", "retracted"}]
        /\ erased \in [Ids -> {"none"} \cup Modes] /\ writing \in Ids \cup {NoId}
        /\ marking \in Marks /\ \A m \in Ids : m \in Nat
    BY MessagesAssumption DEF IndInv, TypeOK, Ids
  <1>2. CASE Accept
    <2>1. /\ accepted' = accepted + 1 /\ erased' = erased
          /\ pending' = [pending EXCEPT ![accepted + 1] = "text"]
      BY <1>2 DEF Accept
    <2> QED BY <1>1, <2>1
  <1>3. CASE PersistDone
    <2>1. /\ accepted' = accepted /\ erased' = erased
          /\ pending' = [pending EXCEPT ![writing] = "none"]
      BY <1>3 DEF PersistDone, ghostVars
    <2> QED BY <1>1, <2>1
  <1>4. CASE MarkDone
    <2>1. /\ accepted' = accepted /\ marking.id \in Ids /\ marking.mode \in Modes
          /\ pending' = [pending EXCEPT ![marking.id] =
               PendingAfterMark(marking.id, marking.mode)]
          /\ erased' = [erased EXCEPT ![marking.id] =
               IF @ = "everyone" THEN @ ELSE marking.mode]
      BY <1>1, <1>4 DEF MarkDone, Marks, NoMark
    <2> QED BY <1>1, <2>1 DEF PendingAfterMark
  <1>5. CASE Crash
    <2>1. /\ accepted' = accepted /\ erased' = erased
          /\ pending' = [m \in Ids |-> "none"]
      BY <1>5 DEF Crash
    <2> QED BY <1>1, <2>1
  <1>6. CASE UNCHANGED <<accepted, pending, erased>>
    BY <1>1, <1>6
  <1> QED
    BY <1>2, <1>3, <1>4, <1>5, <1>6
    DEF Next, Take, PersistCommit, PersistLost, MarkCommit, MarkLost, Tick, persistVars,
        ramVars, ghostVars

LEMMA ListingInit == ServiceInit => HideInv /\ PageInv /\ FoundInv /\ UpToInv
  <1> SUFFICES ASSUME ServiceInit PROVE HideInv /\ PageInv /\ FoundInv /\ UpToInv
    OBVIOUS
  <1>1. HideInv
    BY DEF ServiceInit, HideInv, NoRequest
  <1>2. EmptyPage \in Pages /\ 0 \in 0 .. MaxMessages
    BY MessagesAssumption DEF EmptyPage, Pages
  <1>3. NoFetch \in FetchRecords /\ NoFetch.pc = "idle"
    BY <1>2 DEF NoFetch, FetchRecords
  <1>4. fetch = [a \in Readers |-> NoFetch] /\ stranded = {}
    BY DEF ServiceInit
  <1>5. NoFetch.upTo = 0 /\ accepted = 0
    BY DEF NoFetch, ServiceInit, Init
  <1> QED BY <1>1, <1>3, <1>4, <1>5 DEF PageInv, FoundInv, UpToInv

LEMMA HideStep ==
  ASSUME ServiceInv, [ServiceNext]_serviceVars
  PROVE  HideInv'
  <1>1. /\ accepted \in Nat /\ accepted' \in Nat /\ accepted <= accepted'
        /\ \A m \in Ids : m <= accepted /\ pending[m] = "none" => pending'[m] = "none"
    BY StoreStep, StoreMoves DEF ServiceInv
  <1>2. /\ HideInv /\ DeletionNamesMessage /\ \A m \in Ids : m \in Nat
        /\ Deleters \subseteq Accounts
    BY MessagesAssumption, AccountsAssumption DEF ServiceInv, Ids
  <1>3. ASSUME UNCHANGED <<hiddenDB, hiddenRAM, hideDone>>
        PROVE  /\ hiddenDB' \subseteq Accounts \X Ids /\ hiddenRAM' \subseteq Accounts \X Ids
               /\ hideDone' \subseteq hiddenDB'
               /\ \A a \in Accounts, m \in Ids : <<a, m>> \in hideDone' =>
                    m <= accepted' /\ (<<a, m>> \in hiddenRAM' \/ pending'[m] = "none")
    BY <1>1, <1>2, <1>3 DEF HideInv
  <1>4. CASE UNCHANGED <<hiddenDB, hiddenRAM, hideDone, deletion>>
    <2>1. \A a \in Deleters : deletion'[a].pc # "idle" =>
            /\ deletion'[a].id <= accepted'
            /\ (deletion'[a].pc = "committed" /\ deletion'[a].kind \in {"hide"} =>
                  <<a, deletion'[a].id>> \in hiddenDB')
      BY <1>1, <1>2, <1>4 DEF HideInv, Committed, DeletionNamesMessage
    <2> QED BY <1>3, <1>4, <2>1 DEF HideInv, Committed
  <1> DEFINE Records == [pc : {"idle", "find", "apply", "committed"}, id : Ids \cup {NoId},
                          kind : Kinds]
  <1>5. ASSUME NEW a \in Deleters, NEW r \in Records, deletion' = [deletion EXCEPT ![a] = r],
               \/ r.pc = "idle"
               \/ /\ r.id \in Ids /\ r.id <= accepted
                  /\ r.pc = "committed" /\ r.kind \in {"hide"} => <<a, r.id>> \in hiddenDB',
               hiddenDB \subseteq hiddenDB'
        PROVE  \A b \in Deleters : deletion'[b].pc # "idle" =>
                 /\ deletion'[b].id <= accepted'
                 /\ (deletion'[b].pc = "committed" /\ deletion'[b].kind \in {"hide"} =>
                       <<b, deletion'[b].id>> \in hiddenDB')
    <2>1. deletion'[a] = r /\ \A b \in Deleters : b # a => deletion'[b] = deletion[b]
      BY <1>2, <1>5 DEF DeletionNamesMessage
    <2>2. \A b \in Deleters : deletion[b].pc # "idle" =>
            /\ deletion[b].id \in Ids /\ deletion[b].id <= accepted
            /\ (deletion[b].pc = "committed" /\ deletion[b].kind \in {"hide"} =>
                  <<b, deletion[b].id>> \in hiddenDB')
      BY <1>2, <1>5 DEF HideInv, Committed, DeletionNamesMessage
    <2>3. r.pc # "idle" => r.id <= accepted'
      BY <1>1, <1>2, <1>5
    <2>4. \A b \in Deleters : deletion[b].pc # "idle" => deletion[b].id <= accepted'
      <3> SUFFICES ASSUME NEW b \in Deleters, deletion[b].pc # "idle"
                   PROVE  deletion[b].id <= accepted'
        OBVIOUS
      <3>1. deletion[b].id \in Nat /\ deletion[b].id <= accepted
        BY <1>2, <2>2
      <3> QED BY <1>1, <3>1
    <2> SUFFICES ASSUME NEW b \in Deleters, deletion'[b].pc # "idle"
                 PROVE  /\ deletion'[b].id <= accepted'
                        /\ (deletion'[b].pc = "committed" /\ deletion'[b].kind \in {"hide"} =>
                              <<b, deletion'[b].id>> \in hiddenDB')
      OBVIOUS
    <2>5. CASE b = a
      <3>1. deletion'[b] = r
        BY <2>1, <2>5
      <3> QED BY <1>5, <2>3, <2>5, <3>1
    <2>6. CASE b # a
      <3>1. deletion'[b] = deletion[b]
        BY <2>1, <2>6
      <3> QED BY <2>2, <2>4, <3>1
    <2> QED BY <2>5, <2>6
  <1>6. ASSUME NEW a \in Deleters,
               \/ \E m \in Ids, kind \in Kinds : DeleteLookup(a, m, kind)
               \/ DeleteFind(a) \/ HideLost(a)
               \/ EraseCommit(a) \/ EraseDone(a) \/ EraseLost(a)
        PROVE  HideInv'
    <2>1. UNCHANGED <<hiddenDB, hiddenRAM, hideDone>>
      BY <1>6 DEF DeleteLookup, DeleteFind, HideLost, EraseCommit, EraseDone, EraseLost,
                  historyVars
    <2> DEFINE Good(r) ==
                 /\ deletion' = [deletion EXCEPT ![a] = r]
                 /\ \/ r.pc = "idle"
                    \/ r.id \in Ids /\ r.id <= accepted
                         /\ (r.pc = "committed" => r.kind \notin {"hide"})
    <2>2. \E r \in Records : Good(r)
      <3>1. CASE deletion' = [deletion EXCEPT ![a] = NoRequest]
        <4>1. NoRequest \in Records /\ NoRequest.pc = "idle"
          BY DEF NoRequest, Kinds
        <4> QED BY <3>1, <4>1
      <3>2. ASSUME NEW m \in Ids, NEW kind \in Kinds, DeleteLookup(a, m, kind)
            PROVE  \E r \in Records : Good(r)
        <4> DEFINE r == [pc |-> IF Stored(m) THEN "apply" ELSE "find", id |-> m,
                         kind |-> kind]
        <4>1. r \in Records /\ r.pc # "committed" /\ r.id = m
          OBVIOUS
        <4>2. m <= accepted /\ deletion' = [deletion EXCEPT ![a] = r]
          BY <3>2 DEF DeleteLookup
        <4> HIDE DEF r
        <4> QED BY <4>1, <4>2
      <3>3. ASSUME NEW at \in {"apply", "committed"}, deletion[a].pc # "idle",
                   deletion' = [deletion EXCEPT ![a].pc = at],
                   at = "committed" => deletion[a].kind \in Modes
            PROVE  \E r \in Records : Good(r)
        <4> DEFINE r == [deletion[a] EXCEPT !.pc = at]
        <4>1. deletion[a] \in Records /\ deletion[a].id \in Ids /\ deletion[a].id <= accepted
          BY <1>2, <3>3 DEF HideInv, DeletionNamesMessage
        <4>2. r \in Records /\ r.id \in Ids /\ r.id <= accepted
              /\ (r.pc = "committed" => r.kind \notin {"hide"})
          BY <3>3, <4>1 DEF Modes
        <4>3. deletion' = [deletion EXCEPT ![a] = r]
          BY <1>2, <3>3 DEF DeletionNamesMessage
        <4> HIDE DEF r
        <4> QED BY <4>2, <4>3
      <3>4. CASE DeleteFind(a)
        <4>1. \/ deletion' = [deletion EXCEPT ![a] = NoRequest]
              \/ deletion[a].pc # "idle" /\ deletion' = [deletion EXCEPT ![a].pc = "apply"]
          BY <3>4 DEF DeleteFind
        <4> QED BY <3>1, <3>3, <4>1
      <3>5. CASE EraseCommit(a)
        BY <3>3, <3>5 DEF EraseCommit, Applying, Commit
      <3>6. CASE HideLost(a) \/ EraseDone(a) \/ EraseLost(a)
        BY <3>1, <3>6 DEF HideLost, EraseDone, EraseLost, Finish
      <3> QED BY <1>6, <3>2, <3>4, <3>5, <3>6
    <2> HIDE DEF Records
    <2>3. PICK r \in Records : Good(r)
      BY <2>2
    <2>4. \A b \in Deleters : deletion'[b].pc # "idle" =>
            /\ deletion'[b].id <= accepted'
            /\ (deletion'[b].pc = "committed" /\ deletion'[b].kind \in {"hide"} =>
                  <<b, deletion'[b].id>> \in hiddenDB')
      BY <1>5, <2>1, <2>3
    <2> QED BY <1>3, <2>1, <2>4 DEF HideInv, Committed
  <1>7. ASSUME NEW a \in Deleters, HideCommit(a)
        PROVE  HideInv'
    <2> DEFINE r == [deletion[a] EXCEPT !.pc = "committed"]
    <2>1. /\ deletion[a].id \in Ids /\ deletion[a].id <= accepted
          /\ deletion[a].pc = "apply" /\ deletion[a] \in Records /\ a \in Accounts
      BY <1>2, <1>7 DEF HideCommit, Applying, HideInv, DeletionNamesMessage
    <2>2. /\ hiddenDB' = hiddenDB \cup {<<a, deletion[a].id>>}
          /\ UNCHANGED <<hiddenRAM, hideDone, pending>>
          /\ deletion' = [deletion EXCEPT ![a] = r]
      BY <1>7 DEF HideCommit, Commit, historyVars, persistVars, ramVars
    <2>3. r \in Records /\ r.id \in Ids /\ r.id <= accepted /\ <<a, r.id>> \in hiddenDB'
      BY <2>1, <2>2
    <2> HIDE DEF r, Records
    <2>4. \A b \in Deleters : deletion'[b].pc # "idle" =>
            /\ deletion'[b].id <= accepted'
            /\ (deletion'[b].pc = "committed" /\ deletion'[b].kind \in {"hide"} =>
                  <<b, deletion'[b].id>> \in hiddenDB')
      BY <1>5, <2>2, <2>3
    <2>5. \A b \in Accounts, m \in Ids : <<b, m>> \in hideDone' =>
            m <= accepted' /\ (<<b, m>> \in hiddenRAM' \/ pending'[m] = "none")
      BY <1>1, <1>2, <2>2 DEF HideInv
    <2> QED BY <1>2, <2>1, <2>2, <2>4, <2>5 DEF HideInv, Committed
  <1>8. ASSUME NEW a \in Deleters, HideDone(a)
        PROVE  HideInv'
    <2>1. /\ deletion[a].id \in Ids /\ deletion[a].id <= accepted
          /\ <<a, deletion[a].id>> \in hiddenDB /\ a \in Accounts
      BY <1>2, <1>8 DEF HideDone, Committed, HideInv, DeletionNamesMessage
    <2>2. /\ hiddenRAM' = hiddenRAM \cup {<<a, deletion[a].id>>}
          /\ hideDone' = hideDone \cup {<<a, deletion[a].id>>}
          /\ UNCHANGED <<hiddenDB, pending, accepted>>
          /\ deletion' = [deletion EXCEPT ![a] = NoRequest]
      BY <1>8 DEF HideDone, HiddenInRAM, Finish, persistVars, ramVars, ghostVars
    <2>3. NoRequest \in Records /\ NoRequest.pc = "idle"
      BY DEF NoRequest, Kinds
    <2> HIDE DEF Records
    <2>4. \A b \in Deleters : deletion'[b].pc # "idle" =>
            /\ deletion'[b].id <= accepted'
            /\ (deletion'[b].pc = "committed" /\ deletion'[b].kind \in {"hide"} =>
                  <<b, deletion'[b].id>> \in hiddenDB')
      BY <1>5, <2>2, <2>3
    <2>5. \A b \in Accounts, m \in Ids : <<b, m>> \in hideDone' =>
            m <= accepted' /\ (<<b, m>> \in hiddenRAM' \/ pending'[m] = "none")
      BY <1>2, <2>1, <2>2 DEF HideInv
    <2>6. /\ hiddenDB' \subseteq Accounts \X Ids /\ hiddenRAM' \subseteq Accounts \X Ids
          /\ hideDone' \subseteq hiddenDB'
      BY <1>2, <2>1, <2>2 DEF HideInv
    <2> QED BY <2>4, <2>5, <2>6 DEF HideInv, Committed
  <1>9. CASE ServiceCrash
    <2>1. /\ UNCHANGED <<hiddenDB, hideDone, accepted>> /\ hiddenRAM' = {}
          /\ deletion' = [a \in Deleters |-> NoRequest]
          /\ pending' = [m \in Ids |-> "none"]
      BY <1>9 DEF ServiceCrash, Crash
    <2> QED BY <1>2, <2>1 DEF HideInv, NoRequest
  <1> QED
    BY <1>4, <1>6, <1>7, <1>8, <1>9
    DEF ServiceNext, serviceVars, handlerVars, historyVars, Background, WriteCommit,
        SendBegin, SendDuplicate, SendLimited, SendCheck, SendBlocked, SendAllowed,
        SendAdmit, SendRefused, DropExpired, FetchRead, FetchMerge

LEMMA PageStep ==
  ASSUME ServiceInv, [ServiceNext]_serviceVars
  PROVE  PageInv'
  <1>1. \A m \in Ids : /\ erased[m] = "everyone" => erased'[m] = "everyone"
                       /\ erased[m] \in Modes => erased'[m] \in Modes
    BY StoreStep, StoreMoves DEF ServiceInv
  <1>2. /\ fetch \in [Readers -> FetchRecords] /\ stranded \subseteq Sends
        /\ \A a \in Readers : fetch[a].gone \subseteq Ids /\ fetch[a].bare \subseteq Ids
        /\ PageInv
    BY DEF ServiceInv, PageInv, FetchRecords
  <1>3. hideDone \subseteq hideDone' /\ stranded' \subseteq Sends
    BY <1>2
    DEF ServiceNext, serviceVars, handlerVars, historyVars, Background, WriteCommit,
        SendBegin, SendDuplicate, SendLimited, SendCheck, SendBlocked, SendAllowed,
        SendAdmit, SendRefused, DropExpired, FetchRead, FetchMerge, DeleteLookup,
        DeleteFind, HideCommit, HideDone, HideLost, EraseCommit, EraseDone, EraseLost,
        ServiceCrash
  <1>4. ASSUME NEW a \in Readers, fetch[a].pc = "merge"
        PROVE  /\ \A m \in fetch[a].gone : /\ fetch[a].page[m] = "none"
                                           /\ erased'[m] = "everyone" \/ <<a, m>> \in hideDone'
               /\ \A m \in fetch[a].bare : fetch[a].page[m] # "text" /\ erased'[m] \in Modes
    BY <1>1, <1>2, <1>3, <1>4 DEF PageInv
  <1>5. CASE fetch' = fetch
    BY <1>2, <1>3, <1>4, <1>5 DEF PageInv
  <1>6. NoFetch \in FetchRecords /\ NoFetch.pc = "idle"
    <2>1. EmptyPage \in Pages /\ 0 \in 0 .. MaxMessages
      BY MessagesAssumption DEF EmptyPage, Pages
    <2> QED BY <2>1 DEF NoFetch, FetchRecords
  <1>7. CASE \E a \in Readers : FetchMerge(a)
    <2>1. PICK a \in Readers : fetch' = [fetch EXCEPT ![a] = NoFetch]
      BY <1>7 DEF FetchMerge
    <2>2. fetch' \in [Readers -> FetchRecords]
      BY <1>2, <1>6, <2>1
    <2>3. \A b \in Readers : fetch'[b].pc = "merge" => fetch'[b] = fetch[b]
      BY <1>2, <1>6, <2>1
    <2> QED BY <1>3, <1>4, <2>2, <2>3 DEF PageInv
  <1>8. CASE ServiceCrash
    <2>1. fetch' = [a \in Readers |-> NoFetch]
      BY <1>8 DEF ServiceCrash
    <2>2. fetch' \in [Readers -> FetchRecords] /\ \A a \in Readers : fetch'[a].pc = "idle"
      BY <1>6, <2>1
    <2> QED BY <1>3, <2>2 DEF PageInv
  <1>9. ASSUME NEW a \in Readers, FetchRead(a)
        PROVE  PageInv'
    <2> DEFINE page == [m \in Ids |-> IF Selected(a, m) THEN RecordShows(m) ELSE "none"]
               gone == {m \in Ids : erased[m] = "everyone" \/ <<a, m>> \in hideDone}
               bare == {m \in Ids : erased[m] = "retracted"}
               f == [pc |-> "merge", page |-> page, gone |-> gone, bare |-> bare,
                     upTo |-> accepted, arrived |-> {}]
    <2>1. fetch' = [fetch EXCEPT ![a] = f]
      BY <1>9 DEF FetchRead
    <2>2. f \in FetchRecords
      <3>1. page \in Pages /\ gone \in SUBSET Ids /\ bare \in SUBSET Ids
        BY DEF Pages, RecordShows
      <3>2. accepted \in 0 .. MaxMessages
        BY DEF ServiceInv, IndInv, TypeOK
      <3> HIDE DEF page, gone, bare
      <3> QED BY <3>1, <3>2 DEF FetchRecords
    <2>3. NoResurrection /\ hideDone \subseteq hiddenDB
      BY DEF ServiceInv, IndInv, HideInv
    <2>4. \A m \in gone : page[m] = "none" /\ (erased'[m] = "everyone" \/ <<a, m>> \in hideDone')
      BY <1>1, <1>3, <2>3 DEF NoResurrection, Selected
    <2>5. \A m \in bare : page[m] # "text" /\ erased'[m] \in Modes
      BY <1>1, <2>3 DEF NoResurrection, RecordShows, Modes
    <2>6. f.pc = "merge" /\ f.page = page /\ f.gone = gone /\ f.bare = bare
      OBVIOUS
    <2> HIDE DEF f, page, gone, bare
    <2>7. fetch'[a] = f /\ \A b \in Readers : b # a => fetch'[b] = fetch[b]
      BY <1>2, <2>1
    <2>8. fetch' \in [Readers -> FetchRecords]
      BY <1>2, <2>1, <2>2
    <2>9. ASSUME NEW b \in Readers, fetch'[b].pc = "merge"
          PROVE  /\ \A m \in fetch'[b].gone :
                      /\ fetch'[b].page[m] = "none"
                      /\ erased'[m] = "everyone" \/ <<b, m>> \in hideDone'
                 /\ \A m \in fetch'[b].bare :
                      fetch'[b].page[m] # "text" /\ erased'[m] \in Modes
      <3>1. CASE b = a
        BY <2>4, <2>5, <2>6, <2>7, <3>1
      <3>2. CASE b # a
        BY <1>4, <2>7, <2>9, <3>2
      <3> QED BY <3>1, <3>2
    <2> QED BY <1>3, <2>8, <2>9 DEF PageInv
  <1>10. CASE WriteCommit
    <2>1. ASSUME NEW a \in Readers
          PROVE  /\ fetch'[a] \in FetchRecords /\ fetch'[a].pc = fetch[a].pc
                 /\ fetch'[a].page = fetch[a].page /\ fetch'[a].gone = fetch[a].gone
                 /\ fetch'[a].bare = fetch[a].bare
      <3> DEFINE new == {m \in Ids : row[m] = "none" /\ row'[m] # "none"}
      <3>1. fetch[a] \in FetchRecords /\ fetch[a].arrived \cup new \in SUBSET Ids
        BY <1>2 DEF FetchRecords
      <3>2. \/ fetch'[a] = fetch[a]
            \/ fetch'[a] = [fetch[a] EXCEPT !.arrived = fetch[a].arrived \cup new]
        BY <1>10 DEF WriteCommit
      <3> HIDE DEF new
      <3> QED BY <3>1, <3>2 DEF FetchRecords
    <2>2. fetch' \in [Readers -> FetchRecords]
      <3>1. fetch' = [a \in Readers |-> fetch'[a]]
        BY <1>10 DEF WriteCommit
      <3> QED BY <2>1, <3>1
    <2> QED BY <1>3, <1>4, <2>1, <2>2 DEF PageInv
  <1> QED
    BY <1>5, <1>7, <1>8, <1>9, <1>10
    DEF ServiceNext, serviceVars, handlerVars, Background, SendBegin, SendDuplicate,
        SendLimited, SendCheck, SendBlocked, SendAllowed, SendAdmit, SendRefused,
        DropExpired, DeleteLookup, DeleteFind, HideCommit, HideDone, HideLost, EraseCommit,
        EraseDone, EraseLost

\* A record is created by the writer alone, and a deletion for everyone stays one.
LEMMA RecordMoves ==
  ASSUME IndInv, [Next]_persistVars
  PROVE  \A m \in Ids :
           /\ tombstone[m] = "everyone" => tombstone'[m] = "everyone"
           /\ row[m] = "none" /\ row'[m] # "none" => PersistCommit
  <1>1. /\ row \in [Ids -> {"none", "text"} \cup Modes]
        /\ tombstone \in [Ids -> {"none"} \cup Modes]
    BY DEF IndInv, TypeOK
  <1>2. CASE PersistCommit
    BY <1>2 DEF PersistCommit
  <1>3. ASSUME NEW k \in Ids, NEW mode \in Modes, MarkCommit(k, mode), NEW m \in Ids
        PROVE  /\ tombstone[m] = "everyone" => tombstone'[m] = "everyone"
               /\ row[m] = "none" => row'[m] = "none"
    BY <1>1, <1>3 DEF MarkCommit, TombstoneAfterMark, RowAfterMark
  <1>4. CASE UNCHANGED <<row, tombstone>>
    BY <1>4
  <1> QED
    BY <1>2, <1>3, <1>4
    DEF Next, Accept, Take, PersistDone, PersistLost, MarkDone, MarkLost, Tick, Crash,
        persistVars, dbVars

LEMMA FoundStep ==
  ASSUME ServiceInv, [ServiceNext]_serviceVars
  PROVE  FoundInv'
  <1>1. /\ \A m \in Ids : /\ tombstone[m] = "everyone" => tombstone'[m] = "everyone"
                          /\ row[m] = "none" /\ row'[m] # "none" => PersistCommit
    BY StoreStep, RecordMoves DEF ServiceInv
  <1>2. FoundInv /\ fetch \in [Readers -> FetchRecords] /\ TombstonesRule /\ TypeOK
    BY DEF ServiceInv, PageInv, IndInv
  <1>3. hiddenDB \subseteq hiddenDB'
    BY DEF ServiceNext, serviceVars, handlerVars, historyVars, Background, WriteCommit,
           SendBegin, SendDuplicate, SendLimited, SendCheck, SendBlocked, SendAllowed,
           SendAdmit, SendRefused, DropExpired, FetchRead, FetchMerge, DeleteLookup,
           DeleteFind, HideCommit, HideDone, HideLost, EraseCommit, EraseDone, EraseLost,
           ServiceCrash
  <1>4. CASE WriteCommit
    <2> SUFFICES ASSUME NEW a \in Readers, fetch'[a].pc = "merge", NEW m \in Ids,
                        row'[m] # "none", tombstone'[m] # "everyone",
                        <<a, m>> \notin hiddenDB'
                 PROVE  fetch'[a].page[m] # "none" \/ m \in fetch'[a].arrived
      BY DEF FoundInv, Stored
    <2> DEFINE new == {k \in Ids : row[k] = "none" /\ row'[k] # "none"}
    <2>1. fetch'[a] = IF fetch[a].pc = "idle" THEN fetch[a]
                      ELSE [fetch[a] EXCEPT !.arrived = fetch[a].arrived \cup new]
      BY <1>4 DEF WriteCommit
    <2>2. fetch[a] \in FetchRecords
      BY <1>2
    <2> HIDE DEF new
    <2>3. /\ fetch[a].pc = "merge" /\ fetch'[a].page = fetch[a].page
          /\ fetch'[a].arrived = fetch[a].arrived \cup new
      BY <2>1, <2>2 DEF FetchRecords
    <2>4. CASE row[m] = "none"
      BY <2>3, <2>4 DEF new
    <2>5. CASE row[m] # "none"
      BY <1>1, <1>2, <1>3, <2>3, <2>5 DEF FoundInv, Stored
    <2> QED BY <2>4, <2>5
  <1>5. ASSUME ~PersistCommit, NEW a \in Readers, fetch'[a] = fetch[a]
        PROVE  fetch'[a].pc = "merge" =>
                 \A m \in Ids :
                   row'[m] # "none" /\ tombstone'[m] # "everyone" /\ <<a, m>> \notin hiddenDB' =>
                     fetch'[a].page[m] # "none" \/ m \in fetch'[a].arrived
    BY <1>1, <1>2, <1>3, <1>5 DEF FoundInv, Stored
  <1>6. ASSUME NEW b \in Readers, FetchRead(b)
        PROVE  FoundInv'
    <2> DEFINE page == [m \in Ids |-> IF Selected(b, m) THEN RecordShows(m) ELSE "none"]
    <2>1. /\ UNCHANGED <<row, tombstone, hiddenDB>> /\ fetch'[b].page = page
          /\ \A a \in Readers : a # b => fetch'[a] = fetch[a]
      BY <1>2, <1>6 DEF FetchRead, persistVars, dbVars
    <2>2. \A m \in Ids : row[m] # "none" /\ tombstone[m] # "everyone" => row[m] \in {"text", "retracted"}
      BY <1>2 DEF TombstonesRule, TypeOK, Modes
    <2>3. \A m \in Ids : row[m] # "none" /\ tombstone[m] # "everyone" /\ <<b, m>> \notin hiddenDB
                         => page[m] # "none"
      BY <2>2 DEF Selected, RecordShows
    <2> HIDE DEF page
    <2> QED BY <1>2, <2>1, <2>3 DEF FoundInv, Stored
  <1>7. CASE ServiceCrash \/ \E a \in Readers : FetchMerge(a)
    <2>1. \A a \in Readers : fetch'[a] = fetch[a] \/ fetch'[a].pc = "idle"
      BY <1>2, <1>7 DEF ServiceCrash, FetchMerge, NoFetch
    <2>2. UNCHANGED <<row, tombstone, hiddenDB>>
      BY <1>7 DEF ServiceCrash, Crash, FetchMerge, persistVars, dbVars
    <2> QED BY <1>2, <2>1, <2>2 DEF FoundInv, Stored
  <1>8. ASSUME fetch' = fetch, ~PersistCommit
        PROVE  FoundInv'
    BY <1>5, <1>8 DEF FoundInv, Stored
  <1>9. ASSUME fetch' = fetch, UNCHANGED <<row, tombstone, hiddenDB>>
        PROVE  FoundInv'
    BY <1>2, <1>9 DEF FoundInv, Stored
  <1>10. ASSUME NEW a \in Deleters,
                \/ \E m \in Ids, kind \in Kinds : DeleteLookup(a, m, kind)
                \/ DeleteFind(a) \/ HideCommit(a) \/ HideDone(a) \/ HideLost(a)
                \/ EraseCommit(a) \/ EraseDone(a) \/ EraseLost(a)
         PROVE  FoundInv'
    <2>1. fetch' = fetch
      BY <1>10 DEF DeleteLookup, DeleteFind, HideCommit, HideDone, HideLost, EraseCommit,
                   EraseDone, EraseLost
    <2>2. ~PersistCommit \/ UNCHANGED row
      <3>1. CASE EraseCommit(a)
        BY <3>1 DEF EraseCommit, MarkCommit, PersistCommit, MutexFree
      <3> QED BY <1>10, <3>1 DEF DeleteLookup, DeleteFind, HideCommit, HideDone, HideLost,
                                 EraseDone, EraseLost, MarkDone, MarkLost, persistVars, dbVars
    <2>3. ASSUME UNCHANGED row, NEW b \in Readers, fetch[b].pc = "merge", NEW m \in Ids,
                 row[m] # "none", tombstone'[m] # "everyone", <<b, m>> \notin hiddenDB'
          PROVE  fetch[b].page[m] # "none" \/ m \in fetch[b].arrived
      BY <1>1, <1>2, <1>3, <2>3 DEF FoundInv, Stored
    <2>4. UNCHANGED row => FoundInv'
      BY <2>1, <2>3 DEF FoundInv, Stored
    <2> QED BY <1>8, <2>1, <2>2, <2>4
  <1>11. ASSUME NEW s \in Sends,
                SendBegin(s) \/ SendDuplicate(s) \/ SendLimited(s) \/ SendCheck(s)
                  \/ SendBlocked(s) \/ SendAllowed(s) \/ SendAdmit(s) \/ SendRefused(s)
                  \/ DropExpired(s)
         PROVE  FoundInv'
    <2>1. fetch' = fetch /\ UNCHANGED <<row, tombstone, hiddenDB>>
      BY <1>11 DEF SendBegin, SendDuplicate, SendLimited, SendCheck, SendBlocked,
                   SendAllowed, SendAdmit, SendRefused, DropExpired, Accept, persistVars,
                   dbVars, handlerVars
    <2> QED BY <1>9, <2>1
  <1>12. CASE Background \/ UNCHANGED serviceVars
    <2>1. fetch' = fetch /\ UNCHANGED <<row, tombstone, hiddenDB>>
      BY <1>12 DEF Background, Take, PersistDone, PersistLost, Tick, serviceVars,
                   handlerVars, persistVars, dbVars
    <2> QED BY <1>9, <2>1
  <1> QED BY <1>4, <1>6, <1>7, <1>10, <1>11, <1>12 DEF ServiceNext

LEMMA UpToStep ==
  ASSUME ServiceInv, [ServiceNext]_serviceVars
  PROVE  UpToInv'
  <1>1. /\ accepted \in Nat /\ accepted' \in Nat /\ accepted <= accepted'
        /\ fetch \in [Readers -> FetchRecords] /\ UpToInv
    BY StoreStep, StoreMoves DEF ServiceInv, PageInv
  <1>2. \A a \in Readers : fetch[a].upTo \in Nat
    BY <1>1, MessagesAssumption DEF FetchRecords
  <1>3. CASE fetch' = fetch
    BY <1>1, <1>2, <1>3 DEF UpToInv
  <1>4. CASE WriteCommit
    <2>1. \A a \in Readers : fetch'[a].upTo = fetch[a].upTo
      BY <1>1, <1>4 DEF WriteCommit, FetchRecords
    <2> QED BY <1>1, <1>2, <2>1 DEF UpToInv
  <1>5. CASE ServiceCrash \/ \E a \in Readers : FetchRead(a) \/ FetchMerge(a)
    <2>1. \A a \in Readers : \/ fetch'[a] = fetch[a]
                            \/ fetch'[a].upTo = 0 \/ fetch'[a].upTo = accepted
      BY <1>1, <1>5 DEF ServiceCrash, FetchRead, FetchMerge, NoFetch
    <2> QED BY <1>1, <1>2, <2>1 DEF UpToInv
  <1> QED
    BY <1>3, <1>4, <1>5
    DEF ServiceNext, serviceVars, handlerVars, Background, SendBegin, SendDuplicate,
        SendLimited, SendCheck, SendBlocked, SendAllowed, SendAdmit, SendRefused,
        DropExpired, DeleteLookup, DeleteFind, HideCommit, HideDone, HideLost, EraseCommit,
        EraseDone, EraseLost

LEMMA ServiceIsSafe == ServiceSpec => []ServiceInv
  <1>1. ServiceInit => ServiceInv
    BY InitInd, DeletionInit, AdmissionInit, ListingInit DEF ServiceInv, ServiceInit
  <1>2. ServiceInv /\ [ServiceNext]_serviceVars => ServiceInv'
    <2> SUFFICES ASSUME ServiceInv, [ServiceNext]_serviceVars PROVE ServiceInv'
      OBVIOUS
    <2>1. IndInv /\ DeletionNamesMessage /\ Admission
      BY DEF ServiceInv
    <2>2. IndInv'
      BY <2>1, StoreStep, NextStep
    <2>3. DeletionNamesMessage' /\ Admission'
      BY <2>1, <2>2, DeletionStep, AdmissionStep
    <2> QED BY <2>2, <2>3, HideStep, PageStep, FoundStep, UpToStep DEF ServiceInv
  <1> QED BY <1>1, <1>2, PTL DEF ServiceSpec

LEMMA ServiceTypes == ServiceInv => ServiceTypeOK
  <1> SUFFICES ASSUME ServiceInv PROVE ServiceTypeOK
    OBVIOUS
  <1>1. TypeOK /\ AdmissionTypes
    BY DEF ServiceInv, IndInv, Admission
  <1>2. /\ deletion \in [Deleters -> [pc : {"idle", "find", "apply", "committed"},
                                      id : Ids \cup {NoId}, kind : Kinds]]
        /\ fetch \in [Readers -> FetchRecords] /\ stranded \subseteq Sends
    BY DEF ServiceInv, DeletionNamesMessage, PageInv
  <1>3. /\ hiddenDB \subseteq Accounts \X Ids /\ hiddenRAM \subseteq Accounts \X Ids
        /\ hideDone \subseteq Accounts \X Ids
    BY DEF ServiceInv, HideInv
  <1> QED BY <1>1, <1>2, <1>3 DEF ServiceTypeOK, FetchRecords, AdmissionTypes

\* A listing whose query ran after a deletion was answered does not show the message, nor
\* the body of a retracted one, whatever the writer and the other handlers do before the
\* RAM copies are merged in, and also across a restart.
THEOREM PagesHideErased == ServiceSpec => []PageHidesErased
  <1>1. ServiceInv => PageHidesErased
    <2> SUFFICES ASSUME ServiceInv, NEW a \in Readers, fetch[a].pc = "merge"
                 PROVE  /\ \A m \in fetch[a].gone : Merged(a)[m] = "none"
                        /\ \A m \in fetch[a].bare : Merged(a)[m] # "text"
      BY ServiceTypes DEF PageHidesErased
    <2>1. /\ NoResurrection /\ HideInv /\ PageInv /\ a \in Accounts
          /\ fetch[a].gone \subseteq Ids /\ fetch[a].bare \subseteq Ids
      BY AccountsAssumption DEF ServiceInv, IndInv, PageInv, FetchRecords
    <2>2. \A m \in Ids : \/ Merged(a)[m] = fetch[a].page[m]
                         \/ Merged(a)[m] = pending[m] /\ Candidate(a, m)
      BY DEF Merged
    <2>3. ASSUME NEW m \in fetch[a].gone
          PROVE  fetch[a].page[m] = "none" /\ ~Candidate(a, m)
      BY <2>1 DEF PageInv, NoResurrection, HideInv, Candidate
    <2>4. ASSUME NEW m \in fetch[a].bare
          PROVE  fetch[a].page[m] # "text" /\ pending[m] # "text"
      BY <2>1 DEF PageInv, NoResurrection, Modes
    <2> QED BY <2>1, <2>2, <2>3, <2>4
  <1> QED BY <1>1, ServiceIsSafe, PTL

LEMMA Least ==
  ASSUME NEW T, T \subseteq Nat, T # {}
  PROVE  \E x \in T : \A y \in T : ~(y < x)
  <1> DEFINE R == OpToRel(<, Nat)
  <1>1. IsWellFoundedOn(R, Nat)
    BY NatLessThanWellFounded
  <1>2. \A x \in Nat, y \in Nat : y < x => <<y, x>> \in R
    BY Zenon DEF OpToRel
  <1> HIDE DEF R
  <1>3. PICK x \in T : \A y \in T : ~(<<y, x>> \in R)
    BY <1>1, WFMin
  <1> QED BY <1>2, <1>3

\* A message accepted before the query that the account may see is on the page, unless
\* its record was created after the query and its RAM copy removed before the merge.  A
\* record there at the query has been read; one without is in RAM, because what this
\* process accepted is kept; and the merge leaves out a copy only when it finds the
\* message, or one with its clientId, on the page or among the copies before it.
THEOREM PagesMissOnlyMoved == ServiceSpec => []PageMissesOnlyMoved
  <1>1. ServiceInv => PageMissesOnlyMoved
    <2> SUFFICES ASSUME ServiceInv, NEW a \in Readers, fetch[a].pc = "merge",
                        NEW m \in 1 .. fetch[a].upTo, boot < m \/ Stored(m),
                        tombstone[m] # "everyone", <<a, m>> \notin hiddenDB \cup hiddenRAM,
                        ~(m \in fetch[a].arrived /\ pending[m] = "none")
                 PROVE  \E n \in Ids : Merged(a)[n] # "none" /\ (n = m \/ SameClient(m, n))
      BY DEF PageMissesOnlyMoved
    <2>1. /\ m \in Ids /\ Ids \subseteq Nat /\ m <= accepted
      <3>1. /\ fetch[a].upTo \in 0 .. MaxMessages /\ fetch[a].upTo <= accepted
            /\ accepted \in Nat
        BY DEF ServiceInv, PageInv, FetchRecords, UpToInv, IndInv, TypeOK
      <3> QED BY <3>1, MessagesAssumption DEF Ids
    <2> DEFINE page == fetch[a].page
               New(n) == /\ Candidate(a, n)
                         /\ ~ \E k \in Ids : page[k] # "none" /\ (k = n \/ SameClient(n, k))
                         /\ ~ \E k \in Ids : k < n /\ Candidate(a, k) /\ SameClient(n, k)
    <2>2. \A n \in Ids : Merged(a)[n] = IF New(n) THEN pending[n] ELSE page[n]
      BY DEF Merged
    <2>3. CASE pending[m] = "none"
      <3>1. Stored(m)
        BY <2>1, <2>3 DEF ServiceInv, IndInv, AcceptedIsKept
      <3>2. page[m] # "none"
        BY <2>1, <2>3, <3>1 DEF ServiceInv, FoundInv
      <3> QED BY <2>1, <2>2, <2>3, <3>2 DEF Candidate
    <2>4. CASE pending[m] # "none"
      <3> DEFINE T == {n \in Ids : Candidate(a, n) /\ SameClient(m, n)}
      <3>1. m \in T /\ T \subseteq Nat
        BY <2>1, <2>4 DEF Candidate, SameClient
      <3>2. PICK n \in T : \A k \in T : ~(k < n)
        BY <3>1, Least
      <3>3. CASE New(n)
        BY <2>2, <3>2, <3>3 DEF Candidate
      <3>4. CASE ~New(n)
        <4>1. ~ \E k \in Ids : k < n /\ Candidate(a, k) /\ SameClient(n, k)
          BY <3>2 DEF SameClient
        <4>2. PICK k \in Ids : page[k] # "none" /\ (k = n \/ SameClient(n, k))
          BY <3>2, <3>4, <4>1
        <4>3. SameClient(m, k)
          BY <3>2, <4>2 DEF SameClient
        <4>4. Merged(a)[k] # "none"
          BY <2>2, <4>2 DEF Candidate
        <4> QED BY <4>3, <4>4
      <3> QED BY <3>3, <3>4
    <2> QED BY <2>3, <2>4
  <1> QED BY <1>1, ServiceIsSafe, PTL

-----------------------------------------------------------------------------
(* Receipts.                                                               *)

ReceiptTypes ==
  /\ members \subseteq Recipients
  /\ receipt \in [Ids -> [Recipients -> {"none", "sent"} \cup Statuses]]
  /\ ack \in [Requests -> [pc : {"idle", "set", "find", "update"},
                           account : Recipients \cup {NoOne},
                           status : Statuses, due : SUBSET Ids]]
  /\ attended \in [Ids -> SUBSET Recipients]
  /\ acked \subseteq Ids \X Recipients
  /\ lowered \subseteq Ids \X Recipients

Has(m, a) == receipt[m][a] # "none"

\* A receipt is there from the record on: who attends to a message is a member when its
\* record is created.
ReceiptsOfRecords ==
  /\ \A m \in Ids : attended[m] \subseteq members
  /\ \A m \in Ids, a \in Recipients : /\ Stored(m) /\ a \in attended[m] => Has(m, a)
                                      /\ Has(m, a) => Stored(m)

\* The receipts a request answers for are there while it runs, and those that were
\* answered as read are read or lowered by name.
Running(r) ==
  ack[r].pc # "idle" =>
    /\ ack[r].account \in Recipients
    /\ ack[r].pc # "set" => \A m \in ack[r].due : Has(m, ack[r].account)

Answers ==
  /\ \A r \in Requests : Running(r)
  /\ \A m \in Ids, a \in Recipients :
       <<m, a>> \in acked => Has(m, a) /\ (receipt[m][a] = "read" \/ <<m, a>> \in lowered)

ReceiptInv == ReceiptTypes /\ ReceiptsOfRecords /\ Answers

-----------------------------------------------------------------------------
(* The receipts leave the store as it is.                                  *)

LEMMA ReceiptsStoreStep == [ReceiptsNext]_receiptVars => [Next]_persistVars
  <1>1. PersistWithReceipts => Next
    BY DEF PersistWithReceipts, Next
  <1>2. AcceptForMembers => Next
    BY DEF AcceptForMembers, Next
  <1>3. ReceiptsCrash => Next
    BY DEF ReceiptsCrash, Next
  <1>4. ReceiptsBackground => [Next]_persistVars
    <2>1. ASSUME NEW m \in Erasable, NEW mode \in Modes, MarkCommit(m, mode)
          PROVE  Next
      BY <2>1, ErasableAssumption DEF Next
    <2> QED BY <2>1 DEF ReceiptsBackground, Next
  <1> QED
    BY <1>1, <1>2, <1>3, <1>4
    DEF ReceiptsNext, receiptVars, Join, Leave, SetStart, SetReceipt, AckStart, AckFind,
        AckUpdate, AckFails

\* What is proved of the store holds beside the receipts: their behaviours are
\* behaviours of MessagePersistence.
THEOREM ReceiptsUseStore == ReceiptsSpec => SafetySpec
  <1>1. ReceiptsInit => Init
    BY DEF ReceiptsInit
  <1> QED BY <1>1, ReceiptsStoreStep, PTL DEF ReceiptsSpec, SafetySpec
-----------------------------------------------------------------------------
(* The invariant of the receipts.                                          *)

LEMMA ReceiptInit == ReceiptsInit => ReceiptInv
  BY DEF ReceiptsInit, Init, ReceiptInv, ReceiptTypes, ReceiptsOfRecords, Answers, Running, Has,
         Stored, NoAck, Statuses

\* Only the writer makes a record out of none.
LEMMA RecordsByWriter ==
  ASSUME IndInv, [Next]_persistVars, ~PersistCommit, NEW m \in Ids
  PROVE  Stored(m)' <=> Stored(m)
  <1> USE DEF Stored
  <1>1. CASE UNCHANGED row
    BY <1>1
  <1>2. ASSUME NEW n \in Ids, NEW mode \in Modes, MarkCommit(n, mode)
        PROVE  Stored(m)' <=> Stored(m)
    BY <1>2 DEF MarkCommit, RowAfterMark, IndInv, TypeOK, Modes
  <1> QED
    BY <1>1, <1>2
    DEF Next, persistVars, dbVars, Accept, Take, PersistDone, PersistLost, MarkDone, MarkLost,
        Tick, Crash

LEMMA AcceptReceipts ==
  ASSUME IndInv, ReceiptInv, AcceptForMembers
  PROVE  ReceiptInv'
  <1> DEFINE n == accepted + 1
  <1>1. /\ n \in Ids /\ row[n] = "none" /\ row' = row
        /\ attended' = [attended EXCEPT ![n] = members]
        /\ UNCHANGED <<members, receipt, ack, acked, lowered>>
    BY MessagesAssumption
    DEF AcceptForMembers, Accept, dbVars, IndInv, TypeOK, OnlyAccepted, Ids
  <1>2. ReceiptTypes'
    BY <1>1 DEF ReceiptInv, ReceiptTypes
  <1>3. ReceiptsOfRecords'
    BY <1>1 DEF ReceiptInv, ReceiptTypes, ReceiptsOfRecords, Has, Stored
  <1>4. Answers'
    BY <1>1 DEF ReceiptInv, Answers, Running, Has
  <1> QED BY <1>2, <1>3, <1>4 DEF ReceiptInv

LEMMA PersistReceipts ==
  ASSUME IndInv, ReceiptInv, PersistWithReceipts
  PROVE  ReceiptInv'
  <1> DEFINE n == writing
  <1>1. /\ n \in Ids
        /\ row' = [row EXCEPT ![n] = RowAfterPersist(n)]
        /\ receipt' = [receipt EXCEPT ![n] = ReceiptsAfterPersist(n)]
        /\ UNCHANGED <<members, ack, attended, acked, lowered>>
    BY DEF PersistWithReceipts, PersistCommit, receiptHistory, IndInv, TypeOK, Ids, NoId
  <1>2. ReceiptsAfterPersist(n) \in [Recipients -> {"none", "sent"} \cup Statuses]
    BY <1>1 DEF ReceiptsAfterPersist, ReceiptInv, ReceiptTypes
  <1>3. ReceiptTypes'
    BY <1>1, <1>2 DEF ReceiptInv, ReceiptTypes
  <1>4. \A m \in Ids, a \in Recipients :
          receipt'[m][a] = IF m = n /\ Created(n) /\ a \in members THEN "sent" ELSE receipt[m][a]
    BY <1>1 DEF ReceiptsAfterPersist, ReceiptInv, ReceiptTypes
  <1>5. \A m \in Ids : Stored(m)' <=> Stored(m) \/ (m = n /\ Created(n))
    BY <1>1 DEF Stored, Created, RowAfterPersist, IndInv, TypeOK
  <1>6. ReceiptsOfRecords'
    <2>1. \A m \in Ids : attended[m] \subseteq members
      BY DEF ReceiptInv, ReceiptsOfRecords
    <2>2. ~Created(n) \/ \A a \in Recipients : ~Has(n, a)
      BY <1>1 DEF Created, Stored, ReceiptInv, ReceiptsOfRecords
    <2> QED
      BY <1>1, <1>4, <1>5, <2>1, <2>2 DEF ReceiptInv, ReceiptsOfRecords, Has
  <1>7. Answers'
    <2>1. \A m \in Ids, a \in Recipients : Has(m, a) => receipt'[m][a] = receipt[m][a]
      BY <1>1, <1>4 DEF Created, Stored, ReceiptInv, ReceiptsOfRecords
    <2>2. \A r \in Requests : ack[r].due \subseteq Ids
      BY DEF ReceiptInv, ReceiptTypes
    <2> QED
      BY <1>1, <2>1, <2>2 DEF ReceiptInv, Answers, Running, Has
  <1> QED BY <1>3, <1>6, <1>7 DEF ReceiptInv

\* The steps that leave receipts and members alone.
LEMMA SameReceipts ==
  ASSUME IndInv, ReceiptInv, [Next]_persistVars, ~PersistCommit,
         UNCHANGED <<members, receipt, attended, acked, lowered>>,
         ReceiptTypes', \A r \in Requests : Running(r)'
  PROVE  ReceiptInv'
  <1>1. ReceiptsOfRecords'
    BY RecordsByWriter DEF ReceiptInv, ReceiptsOfRecords, Has
  <1>2. Answers'
    BY DEF ReceiptInv, Answers, Has
  <1> QED BY <1>1, <1>2 DEF ReceiptInv

LEMMA BackgroundReceipts ==
  ASSUME IndInv, ReceiptInv, ReceiptsBackground \/ UNCHANGED receiptVars
  PROVE  ReceiptInv'
  <1>1. [Next]_persistVars
    BY ReceiptsStoreStep DEF ReceiptsNext
  <1>2. ~PersistCommit
    BY DEF ReceiptsBackground, PersistCommit, Take, PersistDone, PersistLost, MarkCommit, MarkDone,
           MarkLost, receiptVars, persistVars, ramVars, MutexFree
  <1>3. UNCHANGED <<members, receipt, ack, attended, acked, lowered>>
    BY DEF ReceiptsBackground, receiptVars, receiptHistory
  <1>4. ReceiptTypes'
    BY <1>3 DEF ReceiptInv, ReceiptTypes
  <1>5. \A r \in Requests : Running(r)'
    BY <1>3 DEF ReceiptInv, Answers, Running, Has
  <1> QED BY <1>1, <1>2, <1>3, <1>4, <1>5, SameReceipts

LEMMA CrashReceipts ==
  ASSUME IndInv, ReceiptInv, ReceiptsCrash
  PROVE  ReceiptInv'
  <1>1. [Next]_persistVars
    BY ReceiptsStoreStep DEF ReceiptsNext
  <1>2. ~PersistCommit
    BY DEF ReceiptsCrash, Crash, PersistCommit
  <1>3. UNCHANGED <<members, receipt, attended, acked, lowered>>
        /\ ack' = [r \in Requests |-> NoAck]
    BY DEF ReceiptsCrash, receiptHistory
  <1>4. ReceiptTypes'
    BY <1>3 DEF ReceiptInv, ReceiptTypes, NoAck, Statuses
  <1>5. \A r \in Requests : Running(r)'
    BY <1>3 DEF Running, NoAck
  <1> QED BY <1>1, <1>2, <1>3, <1>4, <1>5, SameReceipts

\* A member that comes later attends to what is accepted later; one that goes, to nothing.
LEMMA MemberReceipts ==
  ASSUME IndInv, ReceiptInv, NEW a \in Recipients, Join(a) \/ Leave(a)
  PROVE  ReceiptInv'
  <1>1. /\ UNCHANGED <<row, receipt, ack, acked, lowered>>
        /\ \/ members' = members \cup {a} /\ attended' = attended
           \/ members' = members \ {a} /\ attended' = [m \in Ids |-> attended[m] \ {a}]
    BY DEF Join, Leave, receiptHistory, persistVars, dbVars
  <1>2. ReceiptTypes'
    BY <1>1 DEF ReceiptInv, ReceiptTypes
  <1>3. ReceiptsOfRecords'
    BY <1>1 DEF ReceiptInv, ReceiptTypes, ReceiptsOfRecords, Has, Stored
  <1>4. Answers'
    BY <1>1 DEF ReceiptInv, Answers, Running, Has
  <1> QED BY <1>2, <1>3, <1>4 DEF ReceiptInv

LEMMA StartReceipts ==
  ASSUME IndInv, ReceiptInv, NEW r \in Requests, NEW a \in Recipients,
         NEW status \in Statuses,
         AckStart(r, a, status) \/ \E m \in Ids : SetStart(r, a, m, status)
  PROVE  ReceiptInv'
  <1>1. UNCHANGED <<persistVars, members, receipt, attended, acked, lowered>>
    BY DEF AckStart, SetStart, receiptHistory
  <1>2. PICK due \in SUBSET Ids, pc \in {"set", "find"} :
          /\ ack' = [ack EXCEPT ![r] = [pc |-> pc, account |-> a, status |-> status,
                                        due |-> due]]
          /\ pc # "set" => \A m \in due : Has(m, a)
    BY DEF AckStart, SetStart, Has
  <1>3. ReceiptTypes'
    BY <1>1, <1>2 DEF ReceiptInv, ReceiptTypes
  <1>4. ~PersistCommit
    BY <1>1 DEF PersistCommit, persistVars, ramVars, MutexFree
  <1>5. \A q \in Requests : Running(q)'
    BY <1>1, <1>2 DEF ReceiptInv, ReceiptTypes, Answers, Running, Has
  <1> QED BY <1>1, <1>3, <1>4, <1>5, SameReceipts

\* An updateReceipt changes one receipt, and says so when it lowers it.
LEMMA SetReceipts ==
  ASSUME IndInv, ReceiptInv, NEW r \in Requests, SetReceipt(r)
  PROVE  ReceiptInv'
  <1> DEFINE a == ack[r].account
  <1>1. /\ a \in Recipients /\ ack[r].status \in Statuses /\ ack[r].due \subseteq Ids
        /\ ack[r].pc = "set"
    BY DEF SetReceipt, ReceiptInv, ReceiptTypes, Answers, Running
  <1>2. PICK m \in Ids :
          /\ receipt' = [receipt EXCEPT ![m][a] = IF receipt[m][a] = "none" THEN @
                                                  ELSE ack[r].status]
          /\ lowered' = IF receipt'[m][a] # "delivered" THEN lowered \ {<<m, a>>}
                        ELSE IF receipt[m][a] = "read" THEN lowered \cup {<<m, a>>}
                        ELSE lowered
          /\ \/ acked' = acked
             \/ receipt'[m][a] = "read" /\ acked' = acked \cup {<<m, a>>}
    BY <1>1 DEF SetReceipt
  <1>3. ack' = [ack EXCEPT ![r] = NoAck] /\ UNCHANGED <<row, members, attended>>
    BY DEF SetReceipt, persistVars, dbVars
  <1>4. \A n \in Ids, b \in Recipients :
          receipt'[n][b] = IF n = m /\ b = a /\ Has(m, a) THEN ack[r].status ELSE receipt[n][b]
    BY <1>1, <1>2 DEF ReceiptInv, ReceiptTypes, Has
  <1>5. receipt' \in [Ids -> [Recipients -> {"none", "sent"} \cup Statuses]]
    BY <1>1, <1>2 DEF ReceiptInv, ReceiptTypes
  <1>6. ReceiptTypes'
    BY <1>1, <1>2, <1>3, <1>5 DEF ReceiptInv, ReceiptTypes, NoAck, Statuses
  <1>7. \A n \in Ids, b \in Recipients : Has(n, b)' <=> Has(n, b)
    BY <1>1, <1>4 DEF Has, Statuses
  <1>8. ReceiptsOfRecords'
    BY <1>3, <1>7 DEF ReceiptInv, ReceiptsOfRecords, Stored
  <1>9. Answers'
    <2>1. \A q \in Requests : Running(q)'
      BY <1>3, <1>4, <1>1 DEF ReceiptInv, ReceiptTypes, Answers, Running, Has, NoAck, Statuses
    <2>2. \A n \in Ids, b \in Recipients :
            <<n, b>> \in acked' => Has(n, b)' /\ (receipt'[n][b] = "read" \/ <<n, b>> \in lowered')
      <3> SUFFICES ASSUME NEW n \in Ids, NEW b \in Recipients, <<n, b>> \in acked'
                   PROVE  Has(n, b)' /\ (receipt'[n][b] = "read" \/ <<n, b>> \in lowered')
        OBVIOUS
      <3>1. CASE n = m /\ b = a
        BY <1>1, <1>2, <1>4, <1>7, <3>1 DEF ReceiptInv, Answers, Has, Statuses
      <3>2. CASE ~(n = m /\ b = a)
        BY <1>2, <1>4, <1>7, <3>2 DEF ReceiptInv, Answers
      <3> QED BY <3>1, <3>2
    <2> QED BY <2>1, <2>2 DEF Answers
  <1> QED BY <1>6, <1>8, <1>9 DEF ReceiptInv

\* With nothing to raise, every receipt that is there is read, or the request said
\* delivered.
LEMMA FindReceipts ==
  ASSUME IndInv, ReceiptInv, NEW r \in Requests, AckFind(r) \/ AckFails(r)
  PROVE  ReceiptInv'
  <1>1. UNCHANGED <<row, members, receipt, attended, lowered>>
    BY DEF AckFind, AckFails, persistVars, dbVars
  <1>2. /\ ack[r] \in [pc : {"idle", "set", "find", "update"},
                        account : Recipients \cup {NoOne}, status : Statuses,
                        due : SUBSET Ids]
        /\ ack[r].pc # "idle" /\ ack[r].account \in Recipients
    BY DEF AckFind, AckFails, ReceiptInv, ReceiptTypes, Answers, Running
  <1>3. \/ ack[r].pc = "find" /\ ack' = [ack EXCEPT ![r].pc = "update"] /\ acked' = acked
        \/ ack' = [ack EXCEPT ![r] = NoAck] /\ acked' = acked
        \/ /\ ack' = [ack EXCEPT ![r] = NoAck]
           /\ acked' = acked \cup (ack[r].due \X {ack[r].account})
           /\ \A m \in ack[r].due : receipt[m][ack[r].account] = "read"
    <2>1. CASE AckFind(r)
      <3>1. CASE \E m \in Ids : Raises(ack[r].status, receipt[m][ack[r].account])
        BY <2>1, <3>1 DEF AckFind
      <3>2. CASE /\ ~ \E m \in Ids : Raises(ack[r].status, receipt[m][ack[r].account])
                 /\ ack[r].status = "read"
        <4>1. \A m \in ack[r].due : receipt[m][ack[r].account] = "read"
          BY <1>2, <2>1, <3>2
          DEF AckFind, Raises, ReceiptInv, ReceiptTypes, Answers, Running, Has, Statuses
        <4> QED BY <2>1, <3>2, <4>1 DEF AckFind, Answered
      <3>3. CASE /\ ~ \E m \in Ids : Raises(ack[r].status, receipt[m][ack[r].account])
                 /\ ack[r].status # "read"
        BY <2>1, <3>3 DEF AckFind, Answered
      <3> QED BY <3>1, <3>2, <3>3
    <2>2. CASE AckFails(r)
      BY <2>2 DEF AckFails, Failed
    <2> QED BY <2>1, <2>2
  <1>4. ReceiptTypes'
    BY <1>1, <1>2, <1>3 DEF ReceiptInv, ReceiptTypes, NoAck, Statuses
  <1>5. ReceiptsOfRecords'
    BY <1>1 DEF ReceiptInv, ReceiptsOfRecords, Has, Stored
  <1>6. Answers'
    <2>1. \A q \in Requests : Running(q)'
      BY <1>1, <1>2, <1>3 DEF ReceiptInv, ReceiptTypes, Answers, Running, NoAck, Has
    <2>2. \A n \in Ids, b \in Recipients :
            <<n, b>> \in acked' => Has(n, b)' /\ (receipt'[n][b] = "read" \/ <<n, b>> \in lowered')
      BY <1>1, <1>2, <1>3 DEF ReceiptInv, Answers, Running, Has
    <2> QED BY <2>1, <2>2 DEF Answers
  <1> QED BY <1>4, <1>5, <1>6 DEF ReceiptInv

\* After the UPDATE of readConversation no receipt of the account is below read.
LEMMA UpdateReceipts ==
  ASSUME IndInv, ReceiptInv, NEW r \in Requests, AckUpdate(r)
  PROVE  ReceiptInv'
  <1> DEFINE a == ack[r].account
             status == ack[r].status
  <1>1. /\ a \in Recipients /\ status \in Statuses /\ ack[r].due \subseteq Ids
        /\ \A m \in ack[r].due : Has(m, a)
        /\ UNCHANGED <<row, members, attended>> /\ ack' = [ack EXCEPT ![r] = NoAck]
        /\ lowered' = {x \in lowered : receipt'[x[1]][x[2]] # "read"}
    BY DEF AckUpdate, Answered, Failed, persistVars, dbVars, ReceiptInv, ReceiptTypes, Answers,
           Running
  <1>2. receipt' = [m \in Ids |-> [receipt[m] EXCEPT ![a] =
                                     IF Raises(status, @) THEN status ELSE @]]
    BY DEF AckUpdate
  <1>3. acked' = acked \/ (status = "read" /\ acked' = acked \cup (ack[r].due \X {a}))
    BY DEF AckUpdate, Answered, Failed
  <1>4. \A n \in Ids, b \in Recipients :
          receipt'[n][b] = IF b = a /\ Raises(status, receipt[n][a]) THEN status
                           ELSE receipt[n][b]
    BY <1>1, <1>2 DEF ReceiptInv, ReceiptTypes
  <1>5. receipt' \in [Ids -> [Recipients -> {"none", "sent"} \cup Statuses]]
    BY <1>1, <1>2 DEF ReceiptInv, ReceiptTypes
  <1>6. ReceiptTypes'
    BY <1>1, <1>3, <1>5 DEF ReceiptInv, ReceiptTypes, NoAck, Statuses
  <1>7. \A n \in Ids, b \in Recipients : Has(n, b)' <=> Has(n, b)
    BY <1>1, <1>4 DEF Has, Statuses, Raises
  <1>8. ReceiptsOfRecords'
    BY <1>1, <1>7 DEF ReceiptInv, ReceiptsOfRecords, Stored
  <1>9. Answers'
    <2>1. \A q \in Requests : Running(q)'
      BY <1>1, <1>4 DEF ReceiptInv, ReceiptTypes, Answers, Running, Has, NoAck, Statuses, Raises
    <2>2. \A n \in Ids, b \in Recipients :
            receipt[n][b] = "read" => receipt'[n][b] = "read"
      BY <1>4 DEF Raises
    <2>3. \A n \in Ids :
            status = "read" /\ Has(n, a) => receipt'[n][a] = "read"
      BY <1>1, <1>4 DEF Raises, Has, ReceiptInv, ReceiptTypes, Statuses
    <2>4. \A n \in Ids, b \in Recipients :
            <<n, b>> \in lowered => receipt'[n][b] = "read" \/ <<n, b>> \in lowered'
      BY <1>1
    <2>5. \A n \in Ids, b \in Recipients :
            <<n, b>> \in acked' => Has(n, b)' /\ (receipt'[n][b] = "read" \/ <<n, b>> \in lowered')
      BY <1>1, <1>3, <1>7, <2>2, <2>3, <2>4 DEF ReceiptInv, Answers
    <2> QED BY <2>1, <2>5 DEF Answers
  <1> QED BY <1>6, <1>8, <1>9 DEF ReceiptInv

LEMMA ReceiptStep == IndInv /\ ReceiptInv /\ [ReceiptsNext]_receiptVars => ReceiptInv'
  BY AcceptReceipts, PersistReceipts, BackgroundReceipts, CrashReceipts, MemberReceipts,
     StartReceipts, SetReceipts, FindReceipts, UpdateReceipts
  DEF ReceiptsNext

LEMMA ReceiptInvariance == ReceiptsSpec => [](IndInv /\ ReceiptInv)
  <1>1. ReceiptsSpec => []IndInv
    BY ReceiptsUseStore, Invariance, PTL
  <1> QED BY <1>1, ReceiptInit, ReceiptStep, PTL DEF ReceiptsSpec

\* What was answered as read stays read, whatever the writer repeats and the other devices
\* report, unless an updateReceipt says delivered.
THEOREM ReadStaysRead == ReceiptsSpec => []AckedStaysRead
  <1>1. ReceiptInv => AckedStaysRead
    BY DEF ReceiptInv, ReceiptTypes, Answers, AckedStaysRead
  <1> QED BY <1>1, ReceiptInvariance, PTL

\* Every recipient that stays from the acceptance of a message to its record has a receipt
\* of it, and there is no receipt without a record.
THEOREM EveryRecordHasReceipts == ReceiptsSpec => []ReceiptsFollowRecord
  <1>1. IndInv /\ ReceiptInv => ReceiptsFollowRecord
    BY DEF IndInv, ReceiptInv, ReceiptTypes, ReceiptsOfRecords, Has, ReceiptsFollowRecord,
           ReceiptsTypeOK
  <1> QED BY <1>1, ReceiptInvariance, PTL

\* A deletion stays final while receipts are written and read.
THEOREM ReceiptsDeletionIsFinal == ReceiptsSpec => []NoResurrection
  BY ReceiptsUseStore, DeletionIsFinal, PTL
=============================================================================
