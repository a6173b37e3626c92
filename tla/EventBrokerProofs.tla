-------------------------- MODULE EventBrokerProofs --------------------------
(***************************************************************************)
(* Proofs about EventBroker, for any accounts, conversations, clients and  *)
(* limits: the tables stay within their limits, no waiter sleeps through a *)
(* publication, and forgetting old changes loses none.                     *)
(***************************************************************************)
EXTENDS EventBroker, FiniteSetTheorems, TLAPS

\* A publication under way has room for one version more at every account to come.
PublishingFits ==
  \/ publishing = Idle
  \/ /\ publishing.to # {} /\ publishing.conversation \in Conversations
     /\ \A a \in publishing.to : version[a] < MaxVersion

EmptyState(a) == version[a] = 0 /\ minimum[a] = 0 /\ changes[a] = NoChanges

\* Every change has a version of its own, above the minimum, and the minimum leaves room
\* for the changes that are kept.
Shape(n, low, f) ==
  /\ low = 0 \/ low + MaxEventChanges <= n
  /\ \A v \in Conversations : f[v] <= n /\ (f[v] = 0 \/ low < f[v])
  /\ \A v, w \in Conversations : f[v] = f[w] => v = w \/ f[v] = 0

States == /\ \A a \in Accounts \ known : EmptyState(a)
          /\ \A a \in Accounts : Shape(version[a], minimum[a], changes[a])

\* The cursor is not ahead, and whoever is owed something is told so.
Fine(c) ==
  /\ after[c] <= Latest(c)
  /\ owed[c] \subseteq Told(c) \/ after[c] < minimum[AccountOf[c]]

BrokerInv ==
  /\ TypeOK /\ PublishingFits /\ States /\ LimitsHold /\ NoLostWakeup
  /\ \A c \in Clients \ skipped : Fine(c)

-----------------------------------------------------------------------------
(* Counting.                                                               *)

LEMMA Limits ==
  /\ MaxEventChanges \in Nat \ {0} /\ MaxEventAccounts \in Nat \ {0}
  /\ MaxEventWaiters \in Nat /\ MaxEventWaitersPerAccount \in Nat /\ MaxVersion \in Nat
  BY LimitsAssumption

LEMMA FiniteClients == \A S \in SUBSET Clients : IsFiniteSet(S) /\ Cardinality(S) \in Nat
  BY ClientsAssumption, FS_Subset, FS_CardinalityType

LEMMA NothingOverfull == ~Overfull(NoChanges)
  <1>1. {v \in Conversations : NoChanges[v] > 0} = {}
    BY DEF NoChanges
  <1>2. Cardinality({v \in Conversations : NoChanges[v] > 0}) = 0
    BY <1>1, FS_EmptySet
  <1> QED BY <1>2, Limits DEF Overfull

\* Changes with versions of their own above low and up to m are at most m - low.
LEMMA DistinctVersions ==
  ASSUME NEW f \in [Conversations -> Nat], NEW low \in Nat, NEW m \in Nat, low <= m,
         \A v \in Conversations : f[v] <= m /\ (f[v] = 0 \/ low < f[v]),
         \A v, w \in Conversations : f[v] = f[w] => v = w \/ f[v] = 0
  PROVE  Cardinality({v \in Conversations : f[v] > 0}) <= m - low
  <1> DEFINE S == {v \in Conversations : f[v] > 0}
             T == (low + 1) .. m
             g == [v \in S |-> f[v]]
  <1>1. g \in Injection(S, T)
    <2>1. g \in [S -> T]
      OBVIOUS
    <2>2. \A v, w \in S : g[v] = g[w] => v = w
      OBVIOUS
    <2> HIDE DEF S, T, g
    <2>3. g \in {h \in [S -> T] : \A v, w \in S : h[v] = h[w] => v = w}
      BY <2>1, <2>2
    <2> QED BY <2>3 DEF Injection, IsInjective
  <1>2. IsFiniteSet(T) /\ Cardinality(T) = m - low
    <2>1. low + 1 \in Int /\ m \in Int
      OBVIOUS
    <2>2. /\ IsFiniteSet((low + 1) .. m)
          /\ Cardinality((low + 1) .. m) = IF low + 1 > m THEN 0 ELSE m - (low + 1) + 1
      BY <2>1, FS_Interval, Zenon
    <2> QED BY <2>2
  <1> HIDE DEF S, T, g
  <1>3. Cardinality(S) <= Cardinality(T)
    BY <1>1, <1>2, FS_Injection
  <1> QED BY <1>2, <1>3 DEF S

\* The new change is kept, and no more than fit.
LEMMA PublishedShape ==
  ASSUME NEW a \in Accounts, changes[a] \in [Conversations -> Nat], version[a] \in Nat,
         minimum[a] \in Nat, Shape(version[a], minimum[a], changes[a]),
         publishing.conversation \in Conversations
  PROVE  /\ NewMinimum(a) \in Nat /\ minimum[a] <= NewMinimum(a)
         /\ Shape(version[a] + 1, NewMinimum(a), KeptChanges(a))
         /\ KeptChanges(a) \in [Conversations -> Nat]
         /\ KeptChanges(a)[publishing.conversation] = version[a] + 1
         /\ \A v \in Conversations :
              v # publishing.conversation /\ KeptChanges(a)[v] # changes[a][v] =>
                changes[a][v] <= NewMinimum(a)
         /\ ~Overfull(KeptChanges(a))
  <1> DEFINE f == changes[a]
             n == version[a]
             low0 == minimum[a]
             u == publishing.conversation
             m == n + 1
             new == NewChanges(a)
             low == NewMinimum(a)
             kept == KeptChanges(a)
  <1>0. /\ f \in [Conversations -> Nat] /\ n \in Nat /\ low0 \in Nat /\ m = n + 1
        /\ u \in Conversations /\ new = [f EXCEPT ![u] = m] /\ Shape(n, low0, f)
        /\ low = (IF Overfull(new) THEN m - MaxEventChanges ELSE low0)
        /\ kept = (IF Overfull(new) THEN Purged(new, low) ELSE new)
    <2>1. /\ f \in [Conversations -> Nat] /\ n \in Nat /\ low0 \in Nat /\ m = n + 1
          /\ u \in Conversations /\ Shape(n, low0, f)
      OBVIOUS
    <2>2. new = [f EXCEPT ![u] = m]
      BY Zenon DEF NewChanges
    <2>3. low = (IF Overfull(new) THEN m - MaxEventChanges ELSE low0)
      BY Limits DEF NewMinimum
    <2>4. kept = (IF Overfull(new) THEN Purged(new, low) ELSE new)
      BY Zenon DEF KeptChanges
    <2> QED BY <2>1, <2>2, <2>3, <2>4, Zenon
  <1> HIDE DEF f, n, low0, u, m, new, low, kept
  <1> USE <1>0
  <1> USE DEF Shape
  <1>1. /\ m \in Nat /\ new \in [Conversations -> Nat]
        /\ \A v \in Conversations : new[v] = IF v = u THEN m ELSE f[v]
    OBVIOUS
  <1>2. \A v, w \in Conversations : new[v] = new[w] => v = w \/ new[v] = 0
    BY <1>1
  <1>3. Overfull(new) => low \in Nat /\ low0 <= low
    <2> SUFFICES ASSUME Overfull(new) PROVE low \in Nat /\ low0 <= low
      OBVIOUS
    <2>1. Cardinality({v \in Conversations : new[v] > 0}) <= m - 0
      <3>1. \A v \in Conversations : new[v] <= m /\ (new[v] = 0 \/ 0 < new[v])
        BY <1>1
      <3>2. 0 \in Nat /\ 0 <= m
        BY <1>1
      <3> QED BY <1>1, <1>2, <3>1, <3>2, DistinctVersions, Zenon
    <2>2. Cardinality({v \in Conversations : new[v] > 0}) \in Nat
      BY LimitsAssumption, FS_Subset, FS_CardinalityType
    <2>3. Cardinality({v \in Conversations : new[v] > 0}) > MaxEventChanges
      BY DEF Overfull
    <2> QED BY <1>1, <2>1, <2>2, <2>3, Limits
  <1>4. low \in Nat /\ low0 <= low /\ (low = 0 \/ low + MaxEventChanges <= m)
    BY <1>1, <1>3, Limits
  <1>5. kept \in [Conversations -> Nat] /\ kept[u] = m
    BY <1>1, <1>4, Limits DEF Purged
  <1>6. \A v \in Conversations : /\ kept[v] <= m /\ (kept[v] = 0 \/ low < kept[v])
                                 /\ v # u /\ kept[v] # f[v] => f[v] <= low
    BY <1>1, <1>4, Limits DEF Purged
  <1>7. \A v, w \in Conversations : kept[v] = kept[w] => v = w \/ kept[v] = 0
    BY <1>1, <1>2 DEF Purged
  <1>8. ~Overfull(kept)
    <2>1. CASE Overfull(new)
      <3>1. low <= m /\ m - low = MaxEventChanges
        BY <1>1, <2>1, Limits
      <3>2. Cardinality({v \in Conversations : kept[v] > 0}) <= m - low
        BY <1>1, <1>4, <1>5, <1>6, <1>7, <3>1, DistinctVersions
      <3>3. Cardinality({v \in Conversations : kept[v] > 0}) \in Nat
        BY LimitsAssumption, FS_Subset, FS_CardinalityType
      <3> QED BY <3>1, <3>2, <3>3, Limits DEF Overfull
    <2>2. CASE ~Overfull(new)
      BY <2>2
    <2> QED BY <2>1, <2>2
  <1> QED BY <1>4, <1>5, <1>6, <1>7, <1>8 DEF f, n, low0, u, m, new, low, kept

-----------------------------------------------------------------------------
(* The states of the accounts.                                             *)

LEMMA BrokerInit == Init => BrokerInv
  <1> SUFFICES ASSUME Init PROVE BrokerInv
    OBVIOUS
  <1>1. TypeOK /\ PublishingFits
    BY Limits, ClientsAssumption DEF Init, TypeOK, PublishingFits, Idle
  <1>2. States
    BY Limits DEF Init, States, EmptyState, Shape, NoChanges
  <1>3. LimitsHold
    <2>1. \A a \in Accounts : Waiters(a) = {} /\ changes[a] = NoChanges
      BY DEF Init, Waiters, NoChanges
    <2>2. waiterCount = 0 /\ registered = {} /\ known = {} /\ Cardinality({}) = 0
      BY FS_EmptySet DEF Init
    <2> QED BY <2>1, <2>2, Limits, NothingOverfull DEF LimitsHold
  <1>4. NoLostWakeup /\ \A c \in Clients \ skipped : Fine(c)
    BY ClientsAssumption DEF Init, NoLostWakeup, Fine, Latest, Told
  <1> QED BY <1>1, <1>2, <1>3, <1>4 DEF BrokerInv

\* Only inactive states are trimmed, and the table stays within its limit.
LEMMA KnownAfter ==
  ASSUME BrokerInv, NEW a \in Accounts, NEW k \in KnownWith(a)
  PROVE  /\ k \subseteq Accounts /\ Cardinality(k) <= MaxEventAccounts
         /\ \A b \in known \ k : Waiters(b) = {}
         /\ k \subseteq known \cup {a}
  <1>1. /\ known \subseteq Accounts /\ IsFiniteSet(known) /\ Cardinality(known) \in Nat
        /\ Cardinality(known) <= MaxEventAccounts
    BY LimitsAssumption, FS_Subset, FS_CardinalityType DEF BrokerInv, TypeOK, LimitsHold
  <1>2. CASE k = known \cup {a} /\ (a \in known \/ Cardinality(known) < MaxEventAccounts)
    <2>1. Cardinality(known \cup {a}) = IF a \in known THEN Cardinality(known)
                                       ELSE Cardinality(known) + 1
      BY <1>1, FS_AddElement
    <2> QED BY <1>1, <1>2, <2>1, Limits
  <1>3. CASE k = known
    BY <1>1, <1>3
  <1>4. ASSUME NEW b \in Inactive(known), k = (known \ {b}) \cup {a}
        PROVE  /\ Cardinality(k) <= MaxEventAccounts /\ \A x \in known \ k : Waiters(x) = {}
    <2>1. /\ IsFiniteSet(known \ {b}) /\ Cardinality(known \ {b}) = Cardinality(known) - 1
      BY <1>1, <1>4, FS_RemoveElement DEF Inactive
    <2>2. Cardinality(k) \in Int /\ Cardinality(k) <= Cardinality(known)
      <3>1. Cardinality((known \ {b}) \cup {a}) =
              IF a \in known \ {b} THEN Cardinality(known \ {b})
              ELSE Cardinality(known \ {b}) + 1
        BY <2>1, FS_AddElement
      <3> QED BY <1>1, <1>4, <2>1, <3>1
    <2>3. \A x \in known \ k : x = b
      BY <1>4
    <2> QED BY <1>1, <1>4, <2>1, <2>2, <2>3, Limits DEF Inactive
  <1> QED BY <1>1, <1>2, <1>3, <1>4 DEF KnownWith, Inactive

\* A state is left as it is, or trimmed and starts over.
LEMMA KeptStates ==
  ASSUME BrokerInv, NEW a \in Accounts, NEW k \in KnownWith(a), NEW b \in Accounts
  PROVE  \/ /\ b \notin known \ k
            /\ Kept(version, 0, k)[b] = version[b] /\ Kept(minimum, 0, k)[b] = minimum[b]
            /\ Kept(changes, NoChanges, k)[b] = changes[b]
         \/ /\ b \in known \ k /\ Waiters(b) = {}
            /\ Kept(version, 0, k)[b] = 0 /\ Kept(minimum, 0, k)[b] = 0
            /\ Kept(changes, NoChanges, k)[b] = NoChanges
  <1>1. b \notin known => EmptyState(b)
    BY DEF BrokerInv, States
  <1>2. b \in known \ k => Waiters(b) = {}
    BY KnownAfter
  <1> QED BY <1>1, <1>2 DEF Kept, EmptyState

\* The tables after wait has looked for the state of an account.
LEMMA StateKeeps ==
  ASSUME BrokerInv, NEW a \in Accounts, NEW k \in KnownWith(a), known' = k,
         version' = Kept(version, 0, k), minimum' = Kept(minimum, 0, k),
         changes' = Kept(changes, NoChanges, k)
  PROVE  /\ known' \subseteq Accounts /\ Cardinality(known') <= MaxEventAccounts
         /\ version' \in [Accounts -> 0 .. MaxVersion]
         /\ minimum' \in [Accounts -> 0 .. MaxVersion]
         /\ changes' \in [Accounts -> [Conversations -> 0 .. MaxVersion]]
         /\ States' /\ \A b \in Accounts : ~Overfull(changes'[b])
         /\ \A c \in Clients \ Orphaned(k) :
              /\ version'[AccountOf[c]] = version[AccountOf[c]]
              /\ minimum'[AccountOf[c]] = minimum[AccountOf[c]]
              /\ changes'[AccountOf[c]] = changes[AccountOf[c]]
         /\ \A c \in registered : AccountOf[c] \in known' /\ c \in Clients \ Orphaned(k)
  <1>1. /\ version' \in [Accounts -> 0 .. MaxVersion]
        /\ minimum' \in [Accounts -> 0 .. MaxVersion]
        /\ changes' \in [Accounts -> [Conversations -> 0 .. MaxVersion]]
    BY Limits DEF Kept, NoChanges, BrokerInv, TypeOK
  <1>2. States'
    <2>1. Shape(0, 0, NoChanges)
      BY Limits DEF Shape, NoChanges
    <2>2. \A b \in Accounts : Shape(version'[b], minimum'[b], changes'[b])
      BY <2>1, KeptStates DEF BrokerInv, States
    <2>3. \A b \in Accounts \ k : EmptyState(b)'
      BY DEF EmptyState, Kept
    <2> QED BY <2>2, <2>3 DEF States
  <1>3. \A b \in Accounts : ~Overfull(changes'[b])
    BY KeptStates, NothingOverfull DEF BrokerInv, LimitsHold
  <1>4. \A c \in Clients : AccountOf[c] \in Accounts
    BY ClientsAssumption
  <1>5. \A c \in Clients \ Orphaned(k) :
              /\ version'[AccountOf[c]] = version[AccountOf[c]]
              /\ minimum'[AccountOf[c]] = minimum[AccountOf[c]]
              /\ changes'[AccountOf[c]] = changes[AccountOf[c]]
    BY <1>4, KeptStates DEF Orphaned
  <1>6. \A c \in registered : AccountOf[c] \in known' /\ c \in Clients \ Orphaned(k)
    <2>1. \A c \in registered : c \in Clients /\ AccountOf[c] \in known
      BY DEF BrokerInv, TypeOK, NoLostWakeup
    <2>2. \A c \in registered : c \in Waiters(AccountOf[c])
      BY <2>1 DEF Waiters, ClientsOf
    <2> QED BY <2>1, <2>2, KnownAfter DEF Orphaned
  <1> QED BY <1>1, <1>2, <1>3, <1>5, <1>6, KnownAfter

\* A client that leaves or is woken lowers no limit and the count with it.
LEMMA FewerWaiters ==
  ASSUME BrokerInv, NEW S \in SUBSET Clients, registered' = registered \ S,
         waiterCount' = waiterCount - Cardinality(registered \cap S)
  PROVE  /\ waiterCount' = Cardinality(registered') /\ waiterCount' \in Nat
         /\ Cardinality(registered') <= MaxEventWaiters
         /\ \A a \in Accounts : Cardinality(Waiters(a)') <= MaxEventWaitersPerAccount
  <1>1. registered \subseteq Clients /\ waiterCount = Cardinality(registered)
    BY DEF BrokerInv, TypeOK, LimitsHold
  <1>2. waiterCount' = Cardinality(registered')
    BY <1>1, FiniteClients, FS_Difference
  <1>3. Cardinality(registered') <= Cardinality(registered)
    BY <1>1, FiniteClients, FS_Subset
  <1>4. /\ Cardinality(registered') \in Nat /\ Cardinality(registered) \in Nat
        /\ Cardinality(registered) <= MaxEventWaiters
    BY <1>1, FiniteClients DEF BrokerInv, LimitsHold
  <1>5. ASSUME NEW a \in Accounts
        PROVE  Cardinality(Waiters(a)') <= MaxEventWaitersPerAccount
    <2>1. Waiters(a)' \subseteq Waiters(a) /\ Waiters(a) \subseteq Clients
      BY DEF Waiters, ClientsOf
    <2>2. Cardinality(Waiters(a)') <= Cardinality(Waiters(a))
      BY <2>1, FiniteClients, FS_Subset
    <2>3. Cardinality(Waiters(a)) \in Nat /\ Cardinality(Waiters(a)') \in Nat
      BY <2>1, FiniteClients
    <2> QED BY <2>2, <2>3, Limits DEF BrokerInv, LimitsHold
  <1> QED BY <1>2, <1>3, <1>4, <1>5, Limits

-----------------------------------------------------------------------------
(* The actions.                                                            *)

LEMMA PublishStartStep ==
  ASSUME BrokerInv, NEW accounts \in SUBSET Accounts, NEW v \in Conversations,
         PublishStart(accounts, v)
  PROVE  BrokerInv'
  <1>1. /\ publishing' = [to |-> accounts, conversation |-> v] /\ accounts # {}
        /\ \A a \in accounts : version[a] < MaxVersion
        /\ UNCHANGED <<known, version, minimum, changes, registered, waiterCount,
                       clientVars, owed, skipped>>
    BY DEF PublishStart
  <1>2. TypeOK' /\ PublishingFits'
    BY <1>1 DEF BrokerInv, TypeOK, PublishingFits, clientVars
  <1>3. States' /\ LimitsHold' /\ NoLostWakeup'
    BY <1>1
    DEF BrokerInv, States, EmptyState, LimitsHold, Waiters, NoLostWakeup, Latest, clientVars
  <1>4. \A c \in Clients \ skipped' : Fine(c)'
    BY <1>1 DEF BrokerInv, Fine, Latest, Told, clientVars
  <1> QED BY <1>2, <1>3, <1>4 DEF BrokerInv

\* What is left of a publication after one account.
LEMMA TailFits ==
  ASSUME BrokerInv, NEW a \in publishing.to, PublishTail(a),
         \A b \in Accounts \ {a} : version'[b] = version[b] \/ version'[b] = 0
  PROVE  /\ PublishingFits'
         /\ publishing' \in [to : SUBSET Accounts,
                             conversation : Conversations \cup {NoConversation}]
  <1>1. /\ publishing \in [to : SUBSET Accounts,
                            conversation : Conversations \cup {NoConversation}]
        /\ publishing.conversation \in Conversations
        /\ \A b \in publishing.to : b \in Accounts /\ version[b] < MaxVersion
    BY DEF BrokerInv, TypeOK, PublishingFits, Idle
  <1>2. \A b \in publishing.to \ {a} : version'[b] < MaxVersion
    <2>1. \A b \in publishing.to : version[b] \in 0 .. MaxVersion
      BY <1>1 DEF BrokerInv, TypeOK
    <2> QED BY <1>1, <2>1, Limits
  <1>3. CASE publishing.to = {a}
    BY <1>3 DEF PublishTail, Idle, PublishingFits
  <1>4. CASE publishing.to # {a}
    <2>1. publishing' = [to |-> publishing.to \ {a}, conversation |-> publishing.conversation]
      BY <1>1, <1>4 DEF PublishTail
    <2> QED BY <1>1, <1>2, <1>4, <2>1 DEF PublishingFits
  <1> QED BY <1>3, <1>4

LEMMA PublishToStep ==
  ASSUME BrokerInv, NEW a \in Accounts, PublishTo(a)
  PROVE  BrokerInv'
  <1> DEFINE m == version[a] + 1
             u == publishing.conversation
             new == NewChanges(a)
             low == NewMinimum(a)
             kept == KeptChanges(a)
  <1>1. PICK k \in KnownWith(a) :
          /\ a \in k /\ known' = k /\ skipped' = skipped \cup Orphaned(k)
          /\ version' = [Kept(version, 0, k) EXCEPT ![a] = m]
          /\ minimum' = [Kept(minimum, 0, k) EXCEPT ![a] = low]
          /\ changes' = [Kept(changes, NoChanges, k) EXCEPT ![a] = kept]
    BY DEF PublishTo
  <1>2. /\ a \in publishing.to /\ u \in Conversations /\ version[a] < MaxVersion
        /\ registered' = registered \ Waiters(a)
        /\ waiterCount' = waiterCount - Cardinality(Waiters(a))
        /\ Owe(a) /\ PublishTail(a) /\ waiting' = waiting /\ after' = after
    BY DEF PublishTo, Woken, BrokerInv, PublishingFits, Idle, clientVars
  <1>3. /\ version \in [Accounts -> 0 .. MaxVersion] /\ minimum \in [Accounts -> 0 .. MaxVersion]
        /\ changes \in [Accounts -> [Conversations -> 0 .. MaxVersion]]
        /\ changes[a] \in [Conversations -> Nat] /\ version[a] \in Nat /\ minimum[a] \in Nat
        /\ Shape(version[a], minimum[a], changes[a])
    BY Limits DEF BrokerInv, TypeOK, States
  <1>4. /\ m \in 0 .. MaxVersion /\ low \in Nat /\ minimum[a] <= low /\ Shape(m, low, kept)
        /\ kept \in [Conversations -> Nat] /\ kept[u] = m
        /\ \A v \in Conversations : v # u /\ kept[v] # changes[a][v] => changes[a][v] <= low
        /\ ~Overfull(kept)
    <2>1. m \in 0 .. MaxVersion
      BY <1>2, <1>3, Limits
    <2> QED BY <1>2, <1>3, <2>1, PublishedShape
  <1>5. low <= m /\ \A v \in Conversations : kept[v] <= m
    BY <1>4, Limits DEF Shape
  <1> HIDE DEF m, new, low, kept, u
  <1>6. /\ version'[a] = m /\ minimum'[a] = low /\ changes'[a] = kept
        /\ \A b \in Accounts \ {a} : /\ version'[b] = Kept(version, 0, k)[b]
                                     /\ minimum'[b] = Kept(minimum, 0, k)[b]
                                     /\ changes'[b] = Kept(changes, NoChanges, k)[b]
    BY <1>1 DEF Kept
  <1>7. /\ version' \in [Accounts -> 0 .. MaxVersion] /\ minimum' \in [Accounts -> 0 .. MaxVersion]
        /\ changes' \in [Accounts -> [Conversations -> 0 .. MaxVersion]]
    <2>1. kept \in [Conversations -> 0 .. MaxVersion] /\ low \in 0 .. MaxVersion
      BY <1>4, <1>5, Limits
    <2> QED BY <1>1, <1>3, <1>4, <2>1, Limits DEF Kept, NoChanges
  <1>8. TypeOK' /\ PublishingFits'
    <2>1. \A b \in Accounts \ {a} : version'[b] = version[b] \/ version'[b] = 0
      BY <1>1, <1>6, KeptStates
    <2>2. known' \subseteq Accounts
      BY <1>1, KnownAfter
    <2>3. waiterCount' \in Nat
      BY <1>2, FewerWaiters DEF Waiters, ClientsOf
    <2>4. owed' \in [Clients -> SUBSET Conversations]
      BY <1>2 DEF Owe, u, BrokerInv, TypeOK
    <2>5. skipped' \subseteq Clients
      BY <1>1 DEF Orphaned, BrokerInv, TypeOK
    <2> QED BY <1>2, <1>7, <2>1, <2>2, <2>3, <2>4, <2>5, TailFits DEF BrokerInv, TypeOK
  <1>9. States'
    <2>1. Shape(0, 0, NoChanges)
      BY Limits DEF Shape, NoChanges
    <2>2. \A b \in Accounts : Shape(version'[b], minimum'[b], changes'[b])
      BY <1>1, <1>4, <1>6, <2>1, KeptStates DEF BrokerInv, States
    <2>3. \A b \in Accounts \ known' : EmptyState(b)'
      BY <1>1, <1>6 DEF EmptyState, Kept
    <2> QED BY <2>2, <2>3 DEF States
  <1>10. LimitsHold'
    <2>1. \A b \in Accounts : ~Overfull(changes'[b])
      BY <1>1, <1>4, <1>6, KeptStates, NothingOverfull DEF BrokerInv, LimitsHold
    <2>2. Waiters(a) \subseteq Clients /\ registered \cap Waiters(a) = Waiters(a)
      BY DEF Waiters, ClientsOf
    <2> QED BY <1>1, <1>2, <2>1, <2>2, KnownAfter, FewerWaiters DEF LimitsHold
  <1>11. NoLostWakeup'
    <2> SUFFICES ASSUME NEW c \in registered'
                 PROVE  AccountOf[c] \in known' /\ version'[AccountOf[c]] = after'[c]
      BY DEF NoLostWakeup, Latest
    <2>1. /\ c \in Clients /\ c \in registered /\ AccountOf[c] \in known /\ AccountOf[c] # a
          /\ version[AccountOf[c]] = after[c]
      BY <1>2 DEF Waiters, ClientsOf, BrokerInv, TypeOK, NoLostWakeup, Latest
    <2>2. c \in Waiters(AccountOf[c]) /\ AccountOf[c] \in Accounts
      BY <2>1, ClientsAssumption DEF Waiters, ClientsOf
    <2>3. AccountOf[c] \notin known \ k
      BY <1>1, <2>2, KnownAfter
    <2> QED BY <1>1, <1>2, <1>6, <2>1, <2>2, <2>3, KeptStates
  <1>12. \A c \in Clients \ skipped' : Fine(c)'
    <2> SUFFICES ASSUME NEW c \in Clients \ skipped'
                 PROVE  Fine(c)'
      OBVIOUS
    <2> DEFINE b == AccountOf[c]
    <2>1. b \in Accounts /\ c \notin skipped /\ b \notin known \ k /\ Fine(c)
      BY <1>1, ClientsAssumption DEF Orphaned, BrokerInv
    <2>2. CASE b # a
      <3>1. /\ version'[b] = version[b] /\ minimum'[b] = minimum[b] /\ changes'[b] = changes[b]
            /\ owed'[c] = owed[c] /\ after'[c] = after[c]
        BY <1>1, <1>2, <1>6, <2>1, <2>2, KeptStates DEF Owe
      <3> QED BY <2>1, <3>1 DEF Fine, Latest, Told
    <2>3. CASE b = a
      <3>1. /\ owed'[c] = owed[c] \cup {u} /\ after'[c] = after[c] /\ after[c] \in Nat
            /\ owed[c] \subseteq Conversations
        BY <1>2, <2>3 DEF Owe, u, BrokerInv, TypeOK
      <3>2. after[c] <= version[a] /\ after[c] < m
        BY <1>3, <2>1, <2>3, <3>1 DEF Fine, Latest, m
      <3>3. CASE after[c] < minimum[a]
        BY <1>3, <1>4, <1>5, <1>6, <2>3, <3>1, <3>2, <3>3, Limits DEF Fine, Latest
      <3>4. CASE owed[c] \subseteq Told(c) /\ ~(after[c] < low)
        <4>1. \A v \in owed[c] \cup {u} : v \in Conversations /\ kept[v] > after[c]
          <5>1. kept[u] > after[c] /\ u \in Conversations
            BY <1>2, <1>4, <3>1, <3>2
          <5>2. \A v \in owed[c] : v \in Conversations /\ changes[a][v] > after[c]
            BY <2>3, <3>4 DEF Told
          <5>3. \A v \in owed[c] \ {u} : kept[v] = changes[a][v]
            BY <1>3, <1>4, <3>1, <3>4, <5>2
          <5> QED BY <5>1, <5>2, <5>3
        <4>2. owed'[c] \subseteq Told(c)'
          BY <1>6, <2>3, <3>1, <4>1 DEF Told
        <4> QED BY <1>3, <1>4, <1>6, <2>3, <3>1, <3>2, <4>2 DEF Fine, Latest
      <3>5. CASE after[c] < low
        BY <1>4, <1>6, <2>3, <3>1, <3>2, <3>5 DEF Fine, Latest
      <3> QED BY <2>1, <2>3, <3>3, <3>4, <3>5 DEF Fine
    <2> QED BY <2>2, <2>3
  <1> QED BY <1>8, <1>9, <1>10, <1>11, <1>12 DEF BrokerInv

LEMMA PublishNoRoomStep ==
  ASSUME BrokerInv, NEW a \in Accounts, PublishNoRoom(a)
  PROVE  BrokerInv'
  <1>1. /\ a \in publishing.to /\ Owe(a) /\ skipped' = skipped \cup ClientsOf(a)
        /\ PublishTail(a)
        /\ UNCHANGED <<known, version, minimum, changes, registered, waiterCount, waiting, after>>
    BY DEF PublishNoRoom, clientVars
  <1>2. PublishingFits' /\ TypeOK'
    <2>1. publishing.conversation \in Conversations
      BY <1>1 DEF BrokerInv, PublishingFits, Idle
    <2>2. owed' \in [Clients -> SUBSET Conversations] /\ skipped' \subseteq Clients
      BY <1>1, <2>1 DEF Owe, ClientsOf, BrokerInv, TypeOK
    <2> QED BY <1>1, <2>2, TailFits DEF BrokerInv, TypeOK
  <1>3. States' /\ LimitsHold' /\ NoLostWakeup'
    BY <1>1 DEF BrokerInv, States, EmptyState, LimitsHold, Waiters, NoLostWakeup, Latest
  <1>4. \A c \in Clients \ skipped' : Fine(c)'
    <2>1. \A c \in Clients \ skipped' : owed'[c] = owed[c]
      BY <1>1 DEF Owe, ClientsOf
    <2> QED BY <1>1, <2>1 DEF BrokerInv, Fine, Latest, Told
  <1> QED BY <1>2, <1>3, <1>4 DEF BrokerInv

\* wait finds out; the clients that lose their state are the ones trimmed away.
LEMMA WaitStep ==
  ASSUME BrokerInv, NEW c \in Clients, WaitResync(c) \/ WaitView(c) \/ WaitRegister(c)
  PROVE  BrokerInv'
  <1> DEFINE a == AccountOf[c]
  <1>1. a \in Accounts /\ c \notin registered /\ MutexFree
    BY ClientsAssumption DEF WaitResync, WaitView, WaitRegister, Asks
  <1>2. PICK k \in KnownWith(a) :
          /\ a \in k /\ known' = k /\ publishing' = publishing
          /\ version' = Kept(version, 0, k) /\ minimum' = Kept(minimum, 0, k)
          /\ changes' = Kept(changes, NoChanges, k)
          /\ skipped' \cup {c} = skipped \cup Orphaned(k) \cup {c}
          /\ c \notin skipped' /\ ~WaitResync(c) => c \notin skipped
    BY DEF WaitResync, WaitView, WaitRegister, StateFor
  <1>3. /\ known' \subseteq Accounts /\ Cardinality(known') <= MaxEventAccounts
        /\ version' \in [Accounts -> 0 .. MaxVersion]
        /\ minimum' \in [Accounts -> 0 .. MaxVersion]
        /\ changes' \in [Accounts -> [Conversations -> 0 .. MaxVersion]]
        /\ States' /\ \A b \in Accounts : ~Overfull(changes'[b])
        /\ \A d \in Clients \ Orphaned(k) :
             /\ version'[AccountOf[d]] = version[AccountOf[d]]
             /\ minimum'[AccountOf[d]] = minimum[AccountOf[d]]
             /\ changes'[AccountOf[d]] = changes[AccountOf[d]]
        /\ \A d \in registered : AccountOf[d] \in known' /\ d \in Clients \ Orphaned(k)
    BY <1>1, <1>2, StateKeeps
  <1>4. c \notin Orphaned(k) /\ skipped' \subseteq Clients
    BY <1>2 DEF Orphaned, BrokerInv, TypeOK
  <1>5. /\ Latest(c) \in 0 .. MaxVersion /\ after[c] \in 0 .. MaxVersion
        /\ \A d \in Clients \ {c} : after'[d] = after[d] /\ owed'[d] = owed[d]
        /\ after' \in [Clients -> 0 .. MaxVersion] /\ owed' \in [Clients -> SUBSET Conversations]
    BY <1>1 DEF WaitResync, WaitView, WaitRegister, Resync, Latest, BrokerInv, TypeOK
  <1>6. \/ ~WaitRegister(c) /\ registered' = registered /\ waiterCount' = waiterCount
           /\ waiting' = waiting \ {c}
        \/ /\ registered' = registered \cup {c} /\ waiterCount' = waiterCount + 1
           /\ waiting' = waiting \cup {c} /\ ~Saturated(c) /\ Latest(c) = after[c]
           /\ after' = after
    BY DEF WaitResync, WaitView, WaitRegister, Resync
  <1>7. registered \subseteq waiting /\ waiting \subseteq Clients /\ registered \subseteq Clients
    BY DEF BrokerInv, TypeOK
  <1>8. /\ waiterCount' = Cardinality(registered') /\ waiterCount' \in Nat
        /\ Cardinality(registered') <= MaxEventWaiters
        /\ \A b \in Accounts : Cardinality(Waiters(b)') <= MaxEventWaitersPerAccount
    <2>1. CASE registered' = registered /\ waiterCount' = waiterCount
      BY <1>7, <2>1, FiniteClients DEF BrokerInv, LimitsHold, Waiters
    <2>2. CASE /\ registered' = registered \cup {c} /\ waiterCount' = waiterCount + 1
               /\ ~Saturated(c)
      <3>1. Cardinality(registered') = Cardinality(registered) + 1
        BY <1>1, <1>7, <2>2, FiniteClients, FS_AddElement
      <3>2. /\ waiterCount = Cardinality(registered) /\ waiterCount \in Nat
            /\ waiterCount < MaxEventWaiters
        BY <2>2, Limits DEF Saturated, BrokerInv, LimitsHold, TypeOK
      <3>3. ASSUME NEW b \in Accounts
            PROVE  Cardinality(Waiters(b)') <= MaxEventWaitersPerAccount
        <4>1. /\ Waiters(b) \subseteq Clients /\ IsFiniteSet(Waiters(b))
              /\ Cardinality(Waiters(b)) \in Nat
          BY FiniteClients DEF Waiters, ClientsOf
        <4>2. CASE b # a
          <5>1. Waiters(b)' = Waiters(b)
            BY <2>2, <4>2 DEF Waiters, ClientsOf
          <5> QED BY <5>1 DEF BrokerInv, LimitsHold
        <4>3. CASE b = a
          <5>1. Waiters(b)' = Waiters(b) \cup {c} /\ c \notin Waiters(b)
            BY <1>1, <2>2, <4>3 DEF Waiters, ClientsOf
          <5>2. Cardinality(Waiters(b)') = Cardinality(Waiters(b)) + 1
            BY <4>1, <5>1, FS_AddElement
          <5>3. Cardinality(Waiters(b)) < MaxEventWaitersPerAccount
            BY <2>2, <4>1, <4>3, Limits DEF Saturated
          <5> QED BY <4>1, <5>2, <5>3, Limits
        <4> QED BY <4>2, <4>3
      <3> QED BY <2>2, <3>1, <3>2, <3>3, Limits
    <2> QED BY <1>6, <2>1, <2>2
  <1>9. TypeOK' /\ PublishingFits'
    <2>1. registered' \subseteq waiting' /\ waiting' \subseteq Clients
      BY <1>1, <1>6, <1>7
    <2>2. PublishingFits'
      BY <1>1, <1>2 DEF MutexFree, PublishingFits
    <2> QED BY <1>2, <1>3, <1>4, <1>5, <1>8, <2>1, <2>2 DEF BrokerInv, TypeOK
  <1>10. LimitsHold'
    BY <1>3, <1>8 DEF LimitsHold
  <1>11. NoLostWakeup'
    <2>1. \A d \in registered : d # c /\ d \in Clients /\ version[AccountOf[d]] = after[d]
      BY <1>1, <1>7 DEF BrokerInv, NoLostWakeup, Latest
    <2>2. \A d \in registered : AccountOf[d] \in known' /\ version'[AccountOf[d]] = after'[d]
      BY <1>3, <1>5, <2>1
    <2>3. c \in registered' => a \in known' /\ version'[a] = after'[c]
      BY <1>1, <1>2, <1>3, <1>4, <1>6 DEF Latest
    <2> QED BY <1>6, <2>2, <2>3 DEF NoLostWakeup, Latest
  <1>12. \A d \in Clients \ skipped' : Fine(d)'
    <2> SUFFICES ASSUME NEW d \in Clients \ skipped'
                 PROVE  Fine(d)'
      OBVIOUS
    <2>1. d \notin Orphaned(k)
      BY <1>2, <1>4
    <2>2. CASE d # c
      <3>1. d \notin skipped
        BY <1>2, <2>2
      <3> QED BY <1>3, <1>5, <2>1, <2>2, <3>1 DEF BrokerInv, Fine, Latest, Told
    <2>3. CASE d = c
      <3>1. CASE WaitResync(c)
        <4>1. after'[c] = Latest(c) /\ owed'[c] = {}
          BY <3>1 DEF WaitResync, Resync, BrokerInv, TypeOK
        <4> QED BY <1>3, <1>4, <1>5, <2>3, <4>1 DEF Fine, Latest
      <3>2. CASE WaitView(c)
        <4>1. after'[c] = Latest(c) /\ owed'[c] = owed[c] \ Told(c) /\ ~Outdated(c)
          BY <3>2 DEF WaitView, BrokerInv, TypeOK
        <4>2. skipped' = skipped \cup Orphaned(k) \/ c \notin skipped
          BY <1>2, <2>3, <3>2 DEF WaitView
        <4>3. c \notin skipped
          BY <2>3, <4>2
        <4>4. owed'[c] = {}
          BY <4>1, <4>3 DEF BrokerInv, Fine, Outdated
        <4> QED BY <1>3, <1>4, <1>5, <2>3, <4>1, <4>4 DEF Fine, Latest
      <3>3. CASE WaitRegister(c)
        <4>1. UNCHANGED <<after, owed>> /\ c \notin skipped
          BY <2>3, <3>3 DEF WaitRegister
        <4> QED BY <1>3, <1>4, <2>3, <4>1 DEF BrokerInv, Fine, Latest, Told
      <3> QED BY <3>1, <3>2, <3>3
    <2> QED BY <2>2, <2>3
  <1> QED BY <1>3, <1>9, <1>10, <1>11, <1>12 DEF BrokerInv

LEMMA WaitNoRoomStep ==
  ASSUME BrokerInv, NEW c \in Clients, WaitNoRoom(c)
  PROVE  BrokerInv'
  <1>1. /\ c \notin registered /\ waiting' = waiting \ {c} /\ skipped' = skipped \ {c}
        /\ after' = [after EXCEPT ![c] = 0] /\ owed' = [owed EXCEPT ![c] = {}]
        /\ UNCHANGED <<known, version, minimum, changes, publishing, registered, waiterCount>>
    BY DEF WaitNoRoom, Asks, Resync
  <1>2. AccountOf[c] \in Accounts /\ \A d \in registered : d # c /\ d \in Clients
    BY <1>1, ClientsAssumption DEF BrokerInv, TypeOK
  <1>3. TypeOK' /\ PublishingFits'
    BY <1>1, Limits DEF BrokerInv, TypeOK, PublishingFits
  <1>4. States' /\ LimitsHold' /\ NoLostWakeup'
    BY <1>1, <1>2
    DEF BrokerInv, TypeOK, States, EmptyState, LimitsHold, Waiters, NoLostWakeup, Latest
  <1>5. Fine(c)'
    <2>1. after'[c] = 0 /\ owed'[c] = {} /\ version'[AccountOf[c]] \in Nat
      BY <1>1, <1>2, Limits DEF BrokerInv, TypeOK
    <2> QED BY <2>1 DEF Fine, Latest
  <1>6. \A d \in Clients \ skipped' : Fine(d)'
    BY <1>1, <1>5 DEF BrokerInv, TypeOK, Fine, Latest, Told
  <1> QED BY <1>3, <1>4, <1>6 DEF BrokerInv

\* The end of a wait: whoever took the client out, the count is right.
LEMMA LeaveStep ==
  ASSUME BrokerInv, NEW c \in Clients, Timeout(c) \/ Disconnect(c)
  PROVE  BrokerInv'
  <1>1. /\ c \in waiting /\ waiting' = waiting \ {c} /\ registered' = registered \ {c}
        /\ waiterCount' = waiterCount - Cardinality(registered \cap {c})
        /\ UNCHANGED <<known, version, minimum, changes, publishing, owed>>
        /\ after' \in {after, [after EXCEPT ![c] = Latest(c)]}
        /\ skipped' = skipped \/ skipped' = skipped \cup {c}
        /\ Latest(c) # after[c] /\ after' # after => skipped' = skipped \cup {c}
    BY DEF Timeout, Disconnect, Leave, Left
  <1>2. AccountOf[c] \in Accounts /\ Latest(c) \in 0 .. MaxVersion
    BY ClientsAssumption DEF BrokerInv, TypeOK, Latest
  <1>3. /\ waiterCount' = Cardinality(registered') /\ waiterCount' \in Nat
        /\ Cardinality(registered') <= MaxEventWaiters
        /\ \A a \in Accounts : Cardinality(Waiters(a)') <= MaxEventWaitersPerAccount
    BY <1>1, FewerWaiters
  <1>4. TypeOK' /\ PublishingFits'
    BY <1>1, <1>2, <1>3 DEF BrokerInv, TypeOK, PublishingFits
  <1>5. States' /\ LimitsHold'
    BY <1>1, <1>3 DEF BrokerInv, States, EmptyState, LimitsHold
  <1>6. NoLostWakeup'
    BY <1>1 DEF BrokerInv, TypeOK, NoLostWakeup, Latest
  <1>7. \A d \in Clients \ skipped' : after'[d] = after[d] /\ d \notin skipped
    BY <1>1, <1>2 DEF BrokerInv, TypeOK
  <1>8. \A d \in Clients \ skipped' : Fine(d)'
    BY <1>1, <1>7 DEF BrokerInv, Fine, Latest, Told
  <1> QED BY <1>4, <1>5, <1>6, <1>8 DEF BrokerInv

LEMMA RestartStep ==
  ASSUME BrokerInv, Restart
  PROVE  BrokerInv'
  <1>1. /\ known' = {} /\ registered' = {} /\ waiterCount' = 0 /\ publishing' = Idle
        /\ waiting' = {} /\ skipped' = Clients /\ UNCHANGED <<after, owed>>
        /\ version' = [a \in Accounts |-> 0] /\ minimum' = [a \in Accounts |-> 0]
        /\ changes' = [a \in Accounts |-> NoChanges]
    BY DEF Restart
  <1>2. TypeOK' /\ PublishingFits'
    BY <1>1, Limits DEF BrokerInv, TypeOK, PublishingFits, Idle, NoChanges
  <1>3. States'
    BY <1>1, Limits DEF States, EmptyState, Shape, NoChanges
  <1>4. LimitsHold'
    <2>1. \A a \in Accounts : Waiters(a)' = {}
      BY <1>1 DEF Waiters
    <2>2. Cardinality({}) = 0
      BY FS_EmptySet
    <2> QED BY <1>1, <2>1, <2>2, Limits, NothingOverfull DEF LimitsHold
  <1>5. NoLostWakeup' /\ \A c \in Clients \ skipped' : Fine(c)'
    BY <1>1 DEF NoLostWakeup
  <1> QED BY <1>2, <1>3, <1>4, <1>5 DEF BrokerInv

LEMMA BrokerStep == BrokerInv /\ [Next]_vars => BrokerInv'
  <1> SUFFICES ASSUME BrokerInv, [Next]_vars
               PROVE  BrokerInv'
    OBVIOUS
  <1>1. CASE UNCHANGED vars
    <2>1. TypeOK' /\ PublishingFits' /\ States'
      BY <1>1
      DEF vars, brokerVars, clientVars, BrokerInv, TypeOK, PublishingFits, States, EmptyState
    <2>2. LimitsHold' /\ NoLostWakeup' /\ \A c \in Clients \ skipped' : Fine(c)'
      BY <1>1
      DEF vars, brokerVars, clientVars, BrokerInv, LimitsHold, Waiters, NoLostWakeup, Fine,
          Latest, Told
    <2> QED BY <2>1, <2>2 DEF BrokerInv
  <1> QED
    BY <1>1, PublishStartStep, PublishToStep, PublishNoRoomStep, WaitStep, WaitNoRoomStep,
       LeaveStep, RestartStep
    DEF Next

LEMMA BrokerInvariance == Spec => []BrokerInv
  BY BrokerInit, BrokerStep, PTL DEF Spec

-----------------------------------------------------------------------------
(* The theorems.                                                           *)

\* Every variable keeps its type; waiterCount and the minimum never go below zero.
THEOREM BrokerTypes == Spec => []TypeOK
  <1>1. BrokerInv => TypeOK
    BY DEF BrokerInv
  <1> QED BY <1>1, BrokerInvariance, PTL

\* The tables of the broker stay within their limits, and waiterCount is the number of
\* channels in them, whoever takes one out (wait, publish).
THEOREM LimitsAreKept == Spec => []LimitsHold
  <1>1. BrokerInv => LimitsHold
    BY DEF BrokerInv
  <1> QED BY <1>1, BrokerInvariance, PTL

\* No publication slips between the check of the version and the registration of the
\* channel, and no waiter's state is trimmed (wait, trimInactiveStates).
THEOREM NoWakeupIsLost == Spec => []NoLostWakeup
  <1>1. BrokerInv => NoLostWakeup
    BY DEF BrokerInv
  <1> QED BY <1>1, BrokerInvariance, PTL

\* Forgetting old changes loses none: the next view names them, or the cursor is outdated.
THEOREM CursorsSuffice == Spec => []CursorComplete
  <1>1. BrokerInv => CursorComplete
    BY DEF BrokerInv, CursorComplete, Fine, Outdated
  <1> QED BY <1>1, BrokerInvariance, PTL
=============================================================================
