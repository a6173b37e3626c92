--------------------------- MODULE MessageService ---------------------------
(***************************************************************************)
(* The message handlers of one conversation, on top of the store of        *)
(* MessagePersistence: sendMessage with its admission lock and the dedup   *)
(* of the rate limiter, listMessages, and the three deletions.  Handlers   *)
(* run concurrently; a step is what one does between two points where      *)
(* another can intervene (a database query, a mutex).                      *)
(*                                                                         *)
(* The accounts are the active members of the conversation.  A client may  *)
(* repeat any request, after an answer or because the answer was lost.     *)
(***************************************************************************)
EXTENDS MessagePersistence

CONSTANTS Accounts,      \* the members of the conversation
          Sends,         \* the <<account, clientId>> pairs clients send with
          Readers,       \* the accounts that list messages
          Deleters,      \* the accounts that delete messages
          DedupTTL       \* messageDedupTTL, 24 hours in the program

ASSUME AccountsAssumption == Readers \subseteq Accounts /\ Deleters \subseteq Accounts
ASSUME DedupAssumption == DedupTTL \in Nat \ {0}

NoSend == <<"nobody", "none">>
Kinds == {"hide"} \cup Modes
NoSending == [pc |-> "idle", at |-> 0]
NoRequest == [pc |-> "idle", id |-> NoId, kind |-> "hide"]

VARIABLES
  origin,      \* the sender and clientId each message carries
  dedup,       \* RAM: when the limiter's entry of a clientId expires, 0 without one
  send,        \* sendMessage, one per pair: the admission lock serialises a pair
  deletion,    \* the deletion handler an account runs
  fetch,       \* the listMessages handler an account runs
  hiddenDB,    \* database: message_hidden
  hiddenRAM,   \* RAM: pendingStore.hidden
  asked,       \* history: the reading of the clock by which a message was admitted
  stranded,    \* history: pairs whose block check failed after Check recorded them
  hideDone     \* history: the deletions for me that succeeded

handlerVars == <<send, deletion, fetch>>
historyVars == <<asked, stranded, hideDone>>
serviceVars == <<persistVars, origin, dedup, handlerVars, hiddenDB, hiddenRAM,
                 historyVars>>

Pages == [Ids -> {"none", "text", "retracted"}]
EmptyPage == [m \in Ids |-> "none"]
NoFetch == [pc |-> "idle", page |-> EmptyPage, gone |-> {}, bare |-> {}, upTo |-> 0,
            arrived |-> {}]

ServiceTypeOK ==
  /\ TypeOK
  /\ origin \in [Ids -> Sends \cup {NoSend}]
  /\ dedup \in [Sends -> Nat]
  /\ send \in [Sends -> [pc : {"idle", "check", "checkBlock", "admit"}, at : Nat]]
  /\ deletion \in [Deleters -> [pc : {"idle", "find", "apply", "committed"},
                                id : Ids \cup {NoId}, kind : Kinds]]
  /\ fetch \in [Readers -> [pc : {"idle", "merge"}, page : Pages, gone : SUBSET Ids,
                            bare : SUBSET Ids, upTo : 0 .. MaxMessages,
                            arrived : SUBSET Ids]]
  /\ hiddenDB \subseteq Accounts \X Ids
  /\ hiddenRAM \subseteq Accounts \X Ids
  /\ asked \in [Ids -> Nat]
  /\ stranded \subseteq Sends
  /\ hideDone \subseteq Accounts \X Ids

ServiceInit ==
  /\ Init
  /\ origin = [m \in Ids |-> NoSend]
  /\ dedup = [s \in Sends |-> 0]
  /\ send = [s \in Sends |-> NoSending]
  /\ deletion = [a \in Deleters |-> NoRequest]
  /\ fetch = [a \in Readers |-> NoFetch]
  /\ hiddenDB = {}
  /\ hiddenRAM = {}
  /\ asked = [m \in Ids |-> 0]
  /\ stranded = {}
  /\ hideDone = {}

-----------------------------------------------------------------------------
(* sendMessage                                                             *)

AtCheck(s) == send[s].pc = "check"
Step(s, pc) == send' = [send EXCEPT ![s].pc = pc]
Return(s) == send' = [send EXCEPT ![s] = NoSending]

\* The handler holds the admission lock of its pair, and Check reads the clock before it
\* takes the limiter's mutex.
SendBegin(s) ==
  /\ send[s] = NoSending
  /\ send' = [send EXCEPT ![s] = [pc |-> "check", at |-> clock]]
  /\ UNCHANGED <<persistVars, origin, dedup, deletion, fetch, hiddenDB, hiddenRAM,
                 historyVars>>

\* The entry has not expired by the reading.
Duplicate(s) == AtCheck(s) /\ dedup[s] > send[s].at

\* Check says duplicate.  Whatever the two lookups find, the answer is 200, in the end a
\* bare "sent".
SendDuplicate(s) ==
  /\ Duplicate(s)
  /\ Return(s)
  /\ UNCHANGED <<persistVars, origin, dedup, deletion, fetch, hiddenDB, hiddenRAM,
                 historyVars>>

\* Check says limited (429) to one that is no duplicate.
SendLimited(s) ==
  /\ AtCheck(s) /\ ~Duplicate(s)
  /\ Return(s)
  /\ UNCHANGED <<persistVars, origin, dedup, deletion, fetch, hiddenDB, hiddenRAM,
                 historyVars>>

\* Faulty: Check does not remember the clientId.
NoRecord(s) == dedup
\* Check records the clientId of a message it allows, before anything is accepted.
Recorded(s) == [dedup EXCEPT ![s] = send[s].at + DedupTTL]

\* Check allows the message.
SendCheck(s) ==
  /\ AtCheck(s) /\ ~Duplicate(s)
  /\ dedup' = Recorded(s)
  /\ Step(s, "checkBlock")
  /\ stranded' = stranded \ {s}
  /\ UNCHANGED <<persistVars, origin, deletion, fetch, hiddenDB, hiddenRAM, asked,
                 hideDone>>

\* The block check of a direct conversation: the pair is blocked (403), or the query
\* failed (500), and the dedup entry stays.
SendBlocked(s) ==
  /\ send[s].pc = "checkBlock"
  /\ Return(s)
  /\ stranded' = stranded \cup {s}
  /\ UNCHANGED <<persistVars, origin, dedup, deletion, fetch, hiddenDB, hiddenRAM, asked,
                 hideDone>>

SendAllowed(s) ==
  /\ send[s].pc = "checkBlock"
  /\ Step(s, "admit")
  /\ UNCHANGED <<persistVars, origin, dedup, deletion, fetch, hiddenDB,
                 hiddenRAM, historyVars>>

\* accept takes the message; the event, the push and the 201 follow from RAM.
SendAdmit(s) ==
  /\ send[s].pc = "admit"
  /\ Accept
  /\ origin' = [origin EXCEPT ![accepted'] = s]
  /\ asked' = [asked EXCEPT ![accepted'] = send[s].at]
  /\ Return(s)
  /\ UNCHANGED <<dedup, deletion, fetch, hiddenDB, hiddenRAM, stranded, hideDone>>

\* Faulty: the dedup entry of a refused message is kept.
ForgetNothing(s) == dedup
\* forgetMessageDedup
Forgotten(s) == [dedup EXCEPT ![s] = 0]

\* accept found no room: 503, and the client may try again.
SendRefused(s) ==
  /\ send[s].pc = "admit"
  /\ MutexFree
  /\ ~HasRoom
  /\ dedup' = Forgotten(s)
  /\ Return(s)
  /\ UNCHANGED <<persistVars, origin, deletion, fetch, hiddenDB, hiddenRAM,
                 historyVars>>

\* The limiter's cleanup drops an expired entry.
DropExpired(s) ==
  /\ dedup[s] \in 1 .. clock
  /\ dedup' = [dedup EXCEPT ![s] = 0]
  /\ UNCHANGED <<persistVars, origin, handlerVars, hiddenDB, hiddenRAM, historyVars>>

-----------------------------------------------------------------------------
(* listMessages                                                            *)

\* Faulty: the RAM copies are merged without asking whether they are hidden.
MergeAll(a, m) == pending[m] # "none"
\* Faulty: retracted copies are left to the query.
MergeText(a, m) == pending[m] = "text" /\ <<a, m>> \notin hiddenRAM
\* The RAM copies a may see.
Candidate(a, m) == pending[m] # "none" /\ <<a, m>> \notin hiddenRAM

\* The records the query selects for a.
Selected(a, m) == row[m] \in {"text", "retracted"} /\ <<a, m>> \notin hiddenDB

\* What the record shows: a deleted record has no body.
RecordShows(m) == IF row[m] = "text" THEN "text" ELSE "retracted"

\* The query runs.  History: the messages whose deletion for this account or for
\* everyone, or whose retraction, has succeeded so far, the messages accepted, and
\* from now on those whose record is created.
FetchRead(a) ==
  /\ fetch[a].pc = "idle"
  /\ fetch' = [fetch EXCEPT ![a] =
       [pc |-> "merge",
        page |-> [m \in Ids |-> IF Selected(a, m) THEN RecordShows(m) ELSE "none"],
        gone |-> {m \in Ids : erased[m] = "everyone" \/ <<a, m>> \in hideDone},
        bare |-> {m \in Ids : erased[m] = "retracted"},
        upTo |-> accepted,
        arrived |-> {}]]
  /\ UNCHANGED <<persistVars, origin, dedup, send, deletion, hiddenDB,
                 hiddenRAM, historyVars>>

SameClient(m, n) == origin[m][2] = origin[n][2]

\* The page listMessages answers with: the records read before, and the RAM copies
\* of now that have neither the id nor the clientId of a message already on it.
Merged(a) ==
  LET page == fetch[a].page
      New(m) == /\ Candidate(a, m)
                /\ ~ \E n \in Ids : page[n] # "none" /\ (n = m \/ SameClient(m, n))
                /\ ~ \E n \in Ids : n < m /\ Candidate(a, n) /\ SameClient(m, n)
  IN [m \in Ids |-> IF New(m) THEN pending[m] ELSE page[m]]

\* pending.List is merged and the page is answered.
FetchMerge(a) ==
  /\ fetch[a].pc = "merge"
  /\ fetch' = [fetch EXCEPT ![a] = NoFetch]
  /\ UNCHANGED <<persistVars, origin, dedup, send, deletion, hiddenDB,
                 hiddenRAM, historyVars>>

-----------------------------------------------------------------------------
(* deleteMessageForMe, deleteMessageForEveryone, retractMessage            *)

\* messageDeletionTarget looks the message up in the database.  Only its sender
\* gets past the check of the shared deletions.
DeleteLookup(a, m, kind) ==
  /\ deletion[a].pc = "idle"
  /\ m <= accepted
  /\ kind \in Modes => origin[m][1] = a
  /\ deletion' = [deletion EXCEPT ![a] =
       [pc |-> IF Stored(m) THEN "apply" ELSE "find", id |-> m, kind |-> kind]]
  /\ UNCHANGED <<persistVars, origin, dedup, send, fetch, hiddenDB, hiddenRAM,
                 historyVars>>

\* Not in the database: pending.Find, or 404.
DeleteFind(a) ==
  /\ deletion[a].pc = "find"
  /\ deletion' = [deletion EXCEPT ![a] =
       IF pending[@.id] # "none" THEN [@ EXCEPT !.pc = "apply"] ELSE NoRequest]
  /\ UNCHANGED <<persistVars, origin, dedup, send, fetch, hiddenDB, hiddenRAM,
                 historyVars>>

Applying(a, kinds) == deletion[a].pc = "apply" /\ deletion[a].kind \in kinds
Committed(a, kinds) == deletion[a].pc = "committed" /\ deletion[a].kind \in kinds
Commit(a) == deletion' = [deletion EXCEPT ![a].pc = "committed"]
Finish(a) == deletion' = [deletion EXCEPT ![a] = NoRequest]

\* store.hide commits.
HideCommit(a) ==
  /\ Applying(a, {"hide"})
  /\ hiddenDB' = hiddenDB \cup {<<a, deletion[a].id>>}
  /\ Commit(a)
  /\ UNCHANGED <<persistVars, origin, dedup, send, fetch, hiddenRAM, historyVars>>

HiddenInRAM(a) == hiddenRAM \cup {<<a, deletion[a].id>>}

\* pending.Hide, and 204.
HideDone(a) ==
  /\ Committed(a, {"hide"})
  /\ hiddenRAM' = HiddenInRAM(a)
  /\ hideDone' = hideDone \cup {<<a, deletion[a].id>>}
  /\ Finish(a)
  /\ UNCHANGED <<persistVars, origin, dedup, send, fetch, hiddenDB, asked, stranded>>

\* The answer of store.hide is lost: 500, and the RAM copy stays visible.
HideLost(a) ==
  /\ Committed(a, {"hide"})
  /\ Finish(a)
  /\ UNCHANGED <<persistVars, origin, dedup, send, fetch, hiddenDB, hiddenRAM,
                 historyVars>>

\* The shared deletions, under the persister's mutex.
EraseCommit(a) ==
  /\ Applying(a, Modes)
  /\ MarkCommit(deletion[a].id, deletion[a].kind)
  /\ Commit(a)
  /\ UNCHANGED <<origin, dedup, send, fetch, hiddenDB, hiddenRAM, historyVars>>

EraseDone(a) ==
  /\ Committed(a, Modes)
  /\ MarkDone
  /\ Finish(a)
  /\ UNCHANGED <<origin, dedup, send, fetch, hiddenDB, hiddenRAM, historyVars>>

EraseLost(a) ==
  /\ Committed(a, Modes)
  /\ MarkLost
  /\ Finish(a)
  /\ UNCHANGED <<origin, dedup, send, fetch, hiddenDB, hiddenRAM, historyVars>>

-----------------------------------------------------------------------------
(* The rest of the system.                                                 *)

\* The persister goroutine runs beside the handlers, and time passes.
Background ==
  /\ Take \/ PersistDone \/ PersistLost \/ Tick
  /\ UNCHANGED <<origin, dedup, handlerVars, hiddenDB, hiddenRAM, historyVars>>

\* Its write commits: the record is new to every listing whose query has run.
WriteCommit ==
  /\ PersistCommit
  /\ fetch' = [a \in Readers |->
       IF fetch[a].pc = "idle" THEN fetch[a]
       ELSE [fetch[a] EXCEPT
              !.arrived = @ \cup {m \in Ids : row[m] = "none" /\ row'[m] # "none"}]]
  /\ UNCHANGED <<origin, dedup, send, deletion, hiddenDB, hiddenRAM, historyVars>>

\* All RAM is lost, the limiter's included, and every handler with it.
ServiceCrash ==
  /\ Crash
  /\ dedup' = [s \in Sends |-> 0]
  /\ send' = [s \in Sends |-> NoSending]
  /\ deletion' = [a \in Deleters |-> NoRequest]
  /\ fetch' = [a \in Readers |-> NoFetch]
  /\ hiddenRAM' = {}
  /\ stranded' = {}
  /\ asked' = [m \in Ids |-> 0]
  /\ UNCHANGED <<origin, hiddenDB, hideDone>>

ServiceNext ==
  \/ \E s \in Sends : \/ SendBegin(s)
                      \/ SendDuplicate(s)
                      \/ SendLimited(s)
                      \/ SendCheck(s)
                      \/ SendBlocked(s)
                      \/ SendAllowed(s)
                      \/ SendAdmit(s)
                      \/ SendRefused(s)
                      \/ DropExpired(s)
  \/ \E a \in Readers : FetchRead(a) \/ FetchMerge(a)
  \/ \E a \in Deleters :
       \/ \E m \in Ids, kind \in Kinds : DeleteLookup(a, m, kind)
       \/ DeleteFind(a)
       \/ HideCommit(a) \/ HideDone(a) \/ HideLost(a)
       \/ EraseCommit(a) \/ EraseDone(a) \/ EraseLost(a)
  \/ Background
  \/ WriteCommit
  \/ ServiceCrash

ServiceSpec == ServiceInit /\ [][ServiceNext]_serviceVars

-----------------------------------------------------------------------------
(* Properties.                                                             *)

\* The accepted messages of this run of the process that were sent as s.
AcceptedAs(s) == {m \in Ids : boot < m /\ m <= accepted /\ origin[m] = s}

\* Within one run of the process no request gets past Check with the clientId of a message
\* of its account until DedupTTL after the reading by which that message was admitted,
\* however requests, refusals, retries and the cleanup interleave ("clientId dedup",
\* README line 88).  A restart forgets the entries.
OneMessagePerClientId ==
  \A s \in Sends : \A m \in AcceptedAs(s) :
    send[s].pc \in {"checkBlock", "admit"} => asked[m] + DedupTTL <= clock

\* A message refused for lack of room can be sent again: a clientId is only taken for
\* a duplicate while that of an accepted message, by the same reading, is remembered, or
\* when the block check of the last message that Check let pass has failed.
RefusedCanRetry ==
  \A s \in Sends : Duplicate(s) =>
    s \in stranded \/ \E m \in AcceptedAs(s) : asked[m] + DedupTTL > send[s].at

\* A listing that starts after a deletion was acknowledged does not show the
\* message: not at all to the account it is deleted for, without its body when it
\* is retracted, whatever the writer does between the query and the merge.  (With the
\* types of the variables.)
PageHidesErased ==
  /\ ServiceTypeOK
  /\ \A a \in Readers :
       fetch[a].pc = "merge" =>
         /\ \A m \in fetch[a].gone : Merged(a)[m] = "none"
         /\ \A m \in fetch[a].bare : Merged(a)[m] # "text"

\* messages.go:99: accepted messages "are immediately visible to both participants
\* while the durable SurrealDB write completes".  A message accepted before the listing
\* began, in this run of the process or with a record, is on the page, itself or another
\* with its clientId, unless it is deleted for everyone or hidden for the account: the
\* query or the merge has found it.  Excepted is what happens in between: its record was
\* created after the query, and its RAM copy removed before the merge.
PageMissesOnlyMoved ==
  \A a \in Readers :
    fetch[a].pc = "merge" =>
      \A m \in 1 .. fetch[a].upTo :
        /\ boot < m \/ Stored(m)
        /\ tombstone[m] # "everyone" /\ <<a, m>> \notin hiddenDB \cup hiddenRAM
        /\ ~(m \in fetch[a].arrived /\ pending[m] = "none")
        => \E n \in Ids : Merged(a)[n] # "none" /\ (n = m \/ SameClient(m, n))

\* A client that is told "sent" has a message that was accepted (README lines 87, 88).
SentIsAccepted == \A s \in Sends : Duplicate(s) => AcceptedAs(s) # {}
=============================================================================
