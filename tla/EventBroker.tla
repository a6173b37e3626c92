----------------------------- MODULE EventBroker -----------------------------
(***************************************************************************)
(* messageEventBroker of events.go: the cursor every account has into the  *)
(* conversations that changed, and the clients that wait for a change by   *)
(* long poll or over a stream.  One mutex guards the broker, so that a     *)
(* step is one critical section, except publish, which is one step per     *)
(* account while it holds the mutex.                                       *)
(*                                                                         *)
(* A client asks with the version of the last answer it got; it asks again *)
(* when a connection breaks.  On resync it fetches everything anew.        *)
(***************************************************************************)
EXTENDS Integers, FiniteSets

CONSTANTS Accounts, Conversations,
          Clients,                    \* the connections, streams and polls alike
          AccountOf,                  \* the account each client is signed in as
          MaxEventChanges, MaxEventAccounts,
          MaxEventWaiters, MaxEventWaitersPerAccount,
          MaxVersion,                 \* bound: the publications an account sees
          MayRestart                  \* whether the process may restart

ASSUME ClientsAssumption == AccountOf \in [Clients -> Accounts] /\ IsFiniteSet(Clients)
ASSUME LimitsAssumption ==
  /\ {MaxEventChanges, MaxEventAccounts} \subseteq Nat \ {0}
  /\ {MaxEventWaiters, MaxEventWaitersPerAccount, MaxVersion} \subseteq Nat
  /\ MayRestart \in BOOLEAN
  /\ IsFiniteSet(Accounts) /\ IsFiniteSet(Conversations)

VARIABLES
  known,         \* the accounts that have a state
  version,       \* state.version, 0 without a state
  minimum,       \* state.minimum, 0 without a state
  changes,       \* state.changes, 0 for a conversation that is not in it
  registered,    \* the clients whose channel is in the waiters of their account
  waiterCount,
  publishing,    \* the publication that holds the mutex: its accounts still to come
  waiting,       \* the clients inside wait's select
  after,         \* the version each client asks with
  owed,          \* history: the changes a client has neither been told nor fetched
  skipped        \* history: clients whose cursor no longer stands for what they know

brokerVars == <<known, version, minimum, changes, registered, waiterCount, publishing>>
clientVars == <<waiting, after>>
vars == <<brokerVars, clientVars, owed, skipped>>

NoConversation == "none"
Idle == [to |-> {}, conversation |-> NoConversation]
MutexFree == publishing = Idle
ClientsOf(a) == {c \in Clients : AccountOf[c] = a}
Waiters(a) == registered \cap ClientsOf(a)

TypeOK ==
  /\ known \subseteq Accounts
  /\ version \in [Accounts -> 0 .. MaxVersion]
  /\ minimum \in [Accounts -> 0 .. MaxVersion]
  /\ changes \in [Accounts -> [Conversations -> 0 .. MaxVersion]]
  /\ registered \subseteq waiting
  /\ waiterCount \in Nat
  /\ publishing \in [to : SUBSET Accounts, conversation : Conversations \cup {NoConversation}]
  /\ waiting \subseteq Clients
  /\ after \in [Clients -> 0 .. MaxVersion]
  /\ owed \in [Clients -> SUBSET Conversations]
  /\ skipped \subseteq Clients

Init ==
  /\ known = {}
  /\ version = [a \in Accounts |-> 0]
  /\ minimum = [a \in Accounts |-> 0]
  /\ changes = [a \in Accounts |-> [v \in Conversations |-> 0]]
  /\ registered = {}
  /\ waiterCount = 0
  /\ publishing = Idle
  /\ waiting = {}
  /\ after = [c \in Clients |-> 0]
  /\ owed = [c \in Clients |-> {}]
  /\ skipped = {}

-----------------------------------------------------------------------------
(* States come and go.                                                     *)

\* trimInactiveStates removes states without waiters.
Inactive(k) == {b \in k : Waiters(b) = {}}

\* The known accounts after a's state was asked for.  At the limit one inactive state,
\* whichever the map yields first, makes room; without one, a gets no state.
KnownWith(a) ==
  IF a \in known \/ Cardinality(known) < MaxEventAccounts THEN {known \cup {a}}
  ELSE IF Inactive(known) = {} THEN {known}
  ELSE {(known \ {b}) \cup {a} : b \in Inactive(known)}

\* What a state holds when the known accounts become k: a trimmed one starts over.
Kept(f, zero, k) == [b \in Accounts |-> IF b \in k THEN f[b] ELSE zero]
NoChanges == [v \in Conversations |-> 0]

\* The clients whose account loses its state.
Orphaned(k) == {c \in Clients : AccountOf[c] \in known \ k}

-----------------------------------------------------------------------------
(* publish                                                                 *)

\* publishConversation resolved the members and took the mutex.  When their query
\* fails nothing is published, which is no step here.
PublishStart(accounts, v) ==
  /\ MutexFree
  /\ accounts # {}
  /\ \A a \in accounts : version[a] < MaxVersion
  /\ publishing' = [to |-> accounts, conversation |-> v]
  /\ UNCHANGED <<known, version, minimum, changes, registered, waiterCount,
                 clientVars, owed, skipped>>

PublishTail(a) ==
  publishing' = IF publishing.to = {a} THEN Idle ELSE [publishing EXCEPT !.to = @ \ {a}]

\* Every client of a has something new to learn.
Owe(a) == owed' = [c \in Clients |->
  IF AccountOf[c] = a THEN owed[c] \cup {publishing.conversation} ELSE owed[c]]

Overfull(new) == Cardinality({v \in Conversations : new[v] > 0}) > MaxEventChanges

\* Faulty: the change at the minimum stays.
PurgedLess(new, low) == [v \in Conversations |-> IF new[v] < low THEN 0 ELSE new[v]]
\* The changes up to the minimum are forgotten.
Purged(new, low) == [v \in Conversations |-> IF new[v] <= low THEN 0 ELSE new[v]]

\* What a publication makes of the changes of an account.
NewChanges(a) == [changes[a] EXCEPT ![publishing.conversation] = version[a] + 1]
NewMinimum(a) == IF Overfull(NewChanges(a)) THEN version[a] + 1 - MaxEventChanges
                 ELSE minimum[a]
KeptChanges(a) == IF Overfull(NewChanges(a)) THEN Purged(NewChanges(a), NewMinimum(a))
                  ELSE NewChanges(a)

\* Faulty: one waiter is woken, as by a channel that carries one signal.
WokenOne(a) == IF Waiters(a) = {} THEN {} ELSE {CHOOSE c \in Waiters(a) : TRUE}
\* Every waiter of the account is woken and forgotten.
Woken(a) == Waiters(a)

PublishTo(a) ==
  /\ a \in publishing.to
  /\ \E k \in KnownWith(a) :
       /\ a \in k
       /\ version' = [Kept(version, 0, k) EXCEPT ![a] = version[a] + 1]
       /\ minimum' = [Kept(minimum, 0, k) EXCEPT ![a] = NewMinimum(a)]
       /\ changes' = [Kept(changes, NoChanges, k) EXCEPT ![a] = KeptChanges(a)]
       /\ known' = k
       /\ skipped' = skipped \cup Orphaned(k)
  /\ registered' = registered \ Woken(a)
  /\ waiterCount' = waiterCount - Cardinality(Woken(a))
  /\ Owe(a)
  /\ PublishTail(a)
  /\ UNCHANGED clientVars

\* No room for a state, even after trimming: the account is passed over.
PublishNoRoom(a) ==
  /\ a \in publishing.to
  /\ \A k \in KnownWith(a) : a \notin k
  /\ Owe(a)
  /\ skipped' = skipped \cup ClientsOf(a)
  /\ PublishTail(a)
  /\ UNCHANGED <<known, version, minimum, changes, registered, waiterCount,
                 clientVars>>

-----------------------------------------------------------------------------
(* wait: one iteration of its loop, a first one or one after being woken.  *)

\* A client asks, or its channel was closed.
Asks(c) == MutexFree /\ c \notin registered

\* Its account has a state, made if need be.
StateFor(c, k) ==
  /\ k \in KnownWith(AccountOf[c])
  /\ AccountOf[c] \in k
  /\ known' = k
  /\ version' = Kept(version, 0, k)
  /\ minimum' = Kept(minimum, 0, k)
  /\ changes' = Kept(changes, NoChanges, k)
  /\ UNCHANGED publishing

Latest(c) == version[AccountOf[c]]
\* Faulty: a cursor one below the minimum passes.
NearlyOutdated(c) == after[c] > Latest(c) \/ after[c] < minimum[AccountOf[c]] - 1
\* The cursor is ahead of the state, or behind what the state remembers.
Outdated(c) == after[c] > Latest(c) \/ after[c] < minimum[AccountOf[c]]
\* The conversations the view names.
Told(c) == {v \in Conversations : changes[AccountOf[c]][v] > after[c]}
Saturated(c) == \/ Cardinality(Waiters(AccountOf[c])) >= MaxEventWaitersPerAccount
                \/ waiterCount >= MaxEventWaiters

\* The client is told to fetch everything.
Resync(c, v) ==
  /\ waiting' = waiting \ {c}
  /\ after' = [after EXCEPT ![c] = v]
  /\ owed' = [owed EXCEPT ![c] = {}]
  /\ UNCHANGED <<registered, waiterCount>>

WaitNoRoom(c) ==
  /\ Asks(c)
  /\ \A k \in KnownWith(AccountOf[c]) : AccountOf[c] \notin k
  /\ Resync(c, 0)
  /\ skipped' = skipped \ {c}
  /\ UNCHANGED <<known, version, minimum, changes, publishing>>

WaitResync(c) ==
  /\ Asks(c)
  /\ Outdated(c) \/ (after[c] = Latest(c) /\ Saturated(c))
  /\ \E k \in KnownWith(AccountOf[c]) :
       StateFor(c, k) /\ skipped' = (skipped \cup Orphaned(k)) \ {c}
  /\ Resync(c, Latest(c))

WaitView(c) ==
  /\ Asks(c)
  /\ ~Outdated(c) /\ Latest(c) > after[c]
  /\ \E k \in KnownWith(AccountOf[c]) :
       StateFor(c, k) /\ skipped' = skipped \cup Orphaned(k)
  /\ waiting' = waiting \ {c}
  /\ after' = [after EXCEPT ![c] = Latest(c)]
  /\ owed' = [owed EXCEPT ![c] = @ \ Told(c)]
  /\ UNCHANGED <<registered, waiterCount>>

WaitRegister(c) ==
  /\ Asks(c)
  /\ ~Outdated(c) /\ Latest(c) = after[c] /\ ~Saturated(c)
  /\ \E k \in KnownWith(AccountOf[c]) :
       StateFor(c, k) /\ skipped' = skipped \cup Orphaned(k)
  /\ waiting' = waiting \cup {c}
  /\ registered' = registered \cup {c}
  /\ waiterCount' = waiterCount + 1
  /\ UNCHANGED <<after, owed>>

-----------------------------------------------------------------------------
(* The end of a wait other than by a change.                               *)

\* Faulty: the count goes down for a waiter that publish has counted already.
LeaveTwice(c) == waiterCount - 1
\* The count without c, which publish may have taken out before.
Left(c) == waiterCount - Cardinality(registered \cap {c})

Leave(c) ==
  /\ MutexFree
  /\ c \in waiting
  /\ waiting' = waiting \ {c}
  /\ registered' = registered \ {c}
  /\ waiterCount' = Left(c)
  /\ UNCHANGED <<known, version, minimum, changes, publishing, owed>>

\* 25 seconds passed.  The answer has the version of now and names no conversation,
\* and the select may take this branch when the channel is closed as well.
Timeout(c) ==
  /\ Leave(c)
  /\ after' = [after EXCEPT ![c] = Latest(c)]
  /\ skipped' = IF Latest(c) = after[c] THEN skipped ELSE skipped \cup {c}

\* The connection broke: the client keeps its cursor.
Disconnect(c) == Leave(c) /\ UNCHANGED <<after, skipped>>

\* The process restarts with an empty broker.
Restart ==
  /\ MayRestart
  /\ known' = {}
  /\ version' = [a \in Accounts |-> 0]
  /\ minimum' = [a \in Accounts |-> 0]
  /\ changes' = [a \in Accounts |-> NoChanges]
  /\ registered' = {}
  /\ waiterCount' = 0
  /\ publishing' = Idle
  /\ waiting' = {}
  /\ skipped' = Clients
  /\ UNCHANGED <<after, owed>>

Next ==
  \/ \E accounts \in SUBSET Accounts, v \in Conversations : PublishStart(accounts, v)
  \/ \E a \in Accounts : PublishTo(a) \/ PublishNoRoom(a)
  \/ \E c \in Clients : \/ WaitNoRoom(c)
                        \/ WaitResync(c)
                        \/ WaitView(c)
                        \/ WaitRegister(c)
                        \/ Timeout(c)
                        \/ Disconnect(c)
  \/ Restart

Spec == Init /\ [][Next]_vars

-----------------------------------------------------------------------------
(* Properties.                                                             *)

\* The tables stay within their limits, and waiterCount, by which wait refuses a client,
\* neither leaks nor drifts, whichever of publish and the end of the context takes a
\* waiter out first.
LimitsHold ==
  /\ waiterCount = Cardinality(registered)
  /\ Cardinality(known) <= MaxEventAccounts
  /\ Cardinality(registered) <= MaxEventWaiters
  /\ \A a \in Accounts : /\ Cardinality(Waiters(a)) <= MaxEventWaitersPerAccount
                         /\ ~Overfull(changes[a])

\* A waiter that was not woken has nothing to wake for, and its state is there to
\* wake it: no publication slips between the check and the registration.
NoLostWakeup ==
  \A c \in registered : AccountOf[c] \in known /\ Latest(c) = after[c]

\* What a client has not heard of is named by the next view, or it is told to fetch
\* everything, as long as its cursor is the one an answer from this state gave it:
\* forgetting old changes loses none.
CursorComplete ==
  \A c \in Clients \ skipped : owed[c] \subseteq Told(c) \/ Outdated(c)
=============================================================================
