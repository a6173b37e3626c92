---------------------------- MODULE PushDevices ----------------------------
(***************************************************************************)
(* Accounts, their devices, and the notifications: requireAuth with the    *)
(* deletedAccounts of this process, updateMe, deleteAccount, the records   *)
(* of push_device with their Upsert in up to four queries, and the workers *)
(* of the bounded push queue, which delete the tokens that FCM refuses.    *)
(*                                                                         *)
(* All accounts are members of one conversation.  Access tokens are not    *)
(* modelled: a request comes from an account that has one, and one lives   *)
(* on after the deletion of its account.                                   *)
(***************************************************************************)
EXTENDS Naturals, Sequences, FiniteSets

CONSTANTS Accounts, Devices,
          Handlers,        \* requests that may run at once
          Workers,         \* goroutines in pushLoop, 4 in the program
          QueueCapacity,   \* cap(pushQueue), 1000 in the program
          MaxTokens,       \* bound: tokens FCM gives out
          MaxRecords       \* bound: records of push_device ever created

ASSUME DevicesAssumption ==
  /\ {QueueCapacity, MaxTokens, MaxRecords} \subseteq Nat \ {0}
  /\ IsFiniteSet(Devices) /\ Cardinality(Devices) <= MaxTokens

VARIABLES
  status,           \* database: account.status
  named,            \* database: the accounts whose record shows a name of their own
  device,           \* database: the push_device of each account and device id
  deletedAccounts,  \* RAM: Server.deletedAccounts
  op,               \* what each handler does
  pushQueue,        \* RAM: the senders of the queued jobs
  job,              \* what each worker does
  fcm,              \* external: the token FCM accepts for each device; older ones are dead
  records, tokens,  \* the counters of the bounds
  registered,       \* history: the devices whose last PUT was answered 200, their token since
  answered,         \* history: the deletions this process answered 204
  late              \* history: accounts a request wrote that was let in before that

vars == <<status, named, device, deletedAccounts, op, pushQueue, job, fcm,
          records, tokens, registered, answered, late>>
accountVars == <<status, named, deletedAccounts, answered, late>>
pushVars == <<pushQueue, job>>
deviceVars == <<device, records, registered>>

Keys == Accounts \X Devices
NoRecord == [id |-> 0, token |-> 0]
Ids == 0 .. MaxRecords
Tokens == 0 .. MaxTokens
None == [pc |-> "idle", account |-> "none", device |-> "none", token |-> 0, id |-> 0,
         early |-> FALSE, alone |-> FALSE]
NoJob == [pc |-> "idle", todo |-> {}, tokens |-> {}]

TypeOK ==
  /\ status \in [Accounts -> {"active", "deleted"}]
  /\ named \subseteq Accounts
  /\ device \in [Keys -> [id : Ids, token : Tokens]]
  /\ deletedAccounts \subseteq Accounts
  /\ op \in [Handlers -> [pc : {"idle", "find", "update", "create", "refind", "reupdate",
                                "delete", "rename", "close", "store"},
                          account : Accounts \cup {"none"}, device : Devices \cup {"none"},
                          token : Tokens, id : Ids, early : BOOLEAN, alone : BOOLEAN]]
  /\ pushQueue \in Seq(Accounts) /\ Len(pushQueue) <= QueueCapacity
  /\ job \in [Workers -> [pc : {"idle", "list", "send", "clean"},
                          todo : SUBSET Accounts, tokens : SUBSET Tokens]]
  /\ fcm \in [Devices -> Tokens]
  /\ records \in Ids /\ tokens \in Tokens
  /\ registered \subseteq Keys
  /\ answered \subseteq Accounts /\ late \subseteq Accounts

\* Every device begins with a token of its own and without a record.
Init ==
  /\ status = [a \in Accounts |-> "active"]
  /\ named = Accounts
  /\ device = [k \in Keys |-> NoRecord]
  /\ deletedAccounts = {}
  /\ op = [h \in Handlers |-> None]
  /\ pushQueue = << >>
  /\ job = [w \in Workers |-> NoJob]
  /\ fcm \in [Devices -> 1 .. Cardinality(Devices)]
  /\ \A d, e \in Devices : d # e => fcm[d] # fcm[e]
  /\ records = 0 /\ tokens = Cardinality(Devices)
  /\ registered = {} /\ answered = {} /\ late = {}

-----------------------------------------------------------------------------
(* Requests.                                                               *)

\* requireAuth: only the deletion itself may be repeated.
LetIn(a, pc) == a \notin deletedAccounts \/ pc = "close"

\* History: a request that names the device of another one overtakes it.
Overtaken(k) == [h \in Handlers |->
  IF <<op[h].account, op[h].device>> = k THEN [op[h] EXCEPT !.alone = FALSE] ELSE op[h]]

Begin(h, a, d, pc) ==
  LET k == <<a, d>>
      others == {g \in Handlers : <<op[g].account, op[g].device>> = k}
  IN /\ op[h] = None
     /\ LetIn(a, pc)
     /\ op' = [Overtaken(k) EXCEPT ![h] =
                 [None EXCEPT !.pc = pc, !.account = a, !.device = d,
                              !.token = IF pc = "find" THEN fcm[d] ELSE 0,
                              !.early = pc \in {"find", "rename"} /\ a \notin answered,
                              !.alone = pc = "find" /\ others = {}]]

\* putPushDevice with the token of the moment, deletePushDevice.
DeviceRequest(h, a, d, pc) ==
  /\ pc \in {"find", "delete"}
  /\ Begin(h, a, d, pc)
  /\ registered' = registered \ {<<a, d>>}
  /\ UNCHANGED <<accountVars, device, records, pushVars, fcm, tokens>>

\* updateMe after its checks, deleteAccount.
AccountRequest(h, a, pc) ==
  /\ pc \in {"rename", "close"}
  /\ Begin(h, a, "none", pc)
  /\ UNCHANGED <<accountVars, deviceVars, pushVars, fcm, tokens>>

Goto(h, pc, id) == op' = [op EXCEPT ![h].pc = pc, ![h].id = id]
End(h) == op' = [op EXCEPT ![h] = None]
KeyOf(h) == <<op[h].account, op[h].device>>
Written(h) == late' = IF status[op[h].account] = "deleted" /\ op[h].early
                      THEN late \cup {op[h].account} ELSE late

\* The answer 200: the client takes the device for registered, unless it has since done
\* something else about it, or has another token.
Answer200(h) ==
  registered' = IF op[h].alone /\ op[h].token = fcm[op[h].device]
                THEN registered \cup {KeyOf(h)} ELSE registered

\* A query fails and changes nothing: 500.
Fail(h) ==
  /\ op[h].pc # "idle"
  /\ op[h].pc # "store"
  /\ End(h)
  /\ UNCHANGED <<accountVars, deviceVars, pushVars, fcm, tokens>>

-----------------------------------------------------------------------------
(* pushStore.Upsert                                                        *)

UpsertFind(h) ==
  /\ op[h].pc = "find"
  /\ IF device[KeyOf(h)] = NoRecord THEN Goto(h, "create", 0)
     ELSE Goto(h, "update", device[KeyOf(h)].id)
  /\ UNCHANGED <<accountVars, deviceVars, pushVars, fcm, tokens>>

\* UPDATE by the id of the record, which is still the one that was read.
UpsertUpdate(h) ==
  /\ op[h].pc \in {"update", "reupdate"}
  /\ device[KeyOf(h)].id = op[h].id
  /\ device' = [device EXCEPT ![KeyOf(h)].token = op[h].token]
  /\ Written(h)
  /\ Answer200(h) \/ UNCHANGED registered
  /\ End(h)
  /\ UNCHANGED <<status, named, deletedAccounts, answered, records, pushVars,
                 fcm, tokens>>

\* The record is gone.  "Fallback fetch": 200 all the same, with what the first SELECT
\* had read or with the record that has come since; after a conflict an error.
UpsertMiss(h) ==
  /\ op[h].pc \in {"update", "reupdate"}
  /\ device[KeyOf(h)].id # op[h].id
  /\ End(h)
  /\ UNCHANGED <<accountVars, deviceVars, pushVars, fcm, tokens>>

\* CREATE: the unique index refuses a second record.
UpsertCreate(h) ==
  /\ op[h].pc = "create"
  /\ IF device[KeyOf(h)] # NoRecord
     THEN /\ Goto(h, "refind", 0)
          /\ UNCHANGED <<device, records, registered, late>>
     ELSE /\ records < MaxRecords
          /\ records' = records + 1
          /\ device' = [device EXCEPT ![KeyOf(h)] = [id |-> records', token |-> op[h].token]]
          /\ Written(h)
          /\ Answer200(h) \/ UNCHANGED registered
          /\ End(h)
  /\ UNCHANGED <<status, named, deletedAccounts, answered, pushVars, fcm, tokens>>

UpsertRefind(h) ==
  /\ op[h].pc = "refind"
  /\ IF device[KeyOf(h)] = NoRecord THEN End(h)
     ELSE Goto(h, "reupdate", device[KeyOf(h)].id)
  /\ UNCHANGED <<accountVars, deviceVars, pushVars, fcm, tokens>>

\* pushStore.Delete
DeviceDelete(h) ==
  /\ op[h].pc = "delete"
  /\ device' = [device EXCEPT ![KeyOf(h)] = NoRecord]
  /\ End(h)
  /\ UNCHANGED <<accountVars, records, registered, pushVars, fcm, tokens>>

-----------------------------------------------------------------------------
(* Accounts.                                                               *)

\* The UPDATE of updateMe looks at no status.
Rename(h) ==
  /\ op[h].pc = "rename"
  /\ named' = named \cup {op[h].account}
  /\ Written(h)
  /\ End(h)
  /\ UNCHANGED <<status, deletedAccounts, answered, deviceVars, pushVars, fcm, tokens>>

DevicesAfterClose(a) == [k \in Keys |-> IF k[1] = a THEN NoRecord ELSE device[k]]

\* deleteAccount: one transaction, whose answer may be lost.
CloseCommit(h) ==
  LET a == op[h].account IN
  /\ op[h].pc = "close"
  /\ status' = [status EXCEPT ![a] = "deleted"]
  /\ named' = named \ {a}
  /\ device' = DevicesAfterClose(a)
  /\ registered' = {k \in registered : k[1] # a}
  /\ late' = late \ {a}
  /\ LET others == [g \in Handlers |-> IF op[g].account = a
                                       THEN [op[g] EXCEPT !.alone = FALSE] ELSE op[g]]
     IN \E after \in {None, [op[h] EXCEPT !.pc = "store"]} : op' = [others EXCEPT ![h] = after]
  /\ UNCHANGED <<deletedAccounts, answered, records, pushVars, fcm, tokens>>

\* Faulty: the account is not remembered.
NotMarked(h) == deletedAccounts
Marked(h) == deletedAccounts \cup {op[h].account}

\* deletedAccounts.Store, 204.
CloseStore(h) ==
  /\ op[h].pc = "store"
  /\ deletedAccounts' = Marked(h)
  /\ answered' = answered \cup {op[h].account}
  /\ End(h)
  /\ UNCHANGED <<status, named, late, deviceVars, pushVars, fcm, tokens>>

-----------------------------------------------------------------------------
(* Notifications.                                                          *)

\* Faulty: the job waits its turn whatever the queue holds.
Unbounded(a) == Append(pushQueue, a)
\* A full queue drops the job.
Enqueued(a) == IF Len(pushQueue) < QueueCapacity THEN Append(pushQueue, a) ELSE pushQueue

\* triggerPushForMessage after a message of a.
Trigger(a) ==
  /\ a \notin deletedAccounts
  /\ pushQueue' = Enqueued(a)
  /\ UNCHANGED <<accountVars, deviceVars, op, job, fcm, tokens>>

PushTake(w) ==
  /\ job[w] = NoJob
  /\ pushQueue # << >>
  /\ job' = [job EXCEPT ![w] = [pc |-> "list", todo |-> Accounts \ {Head(pushQueue)},
                                tokens |-> {}]]
  /\ pushQueue' = Tail(pushQueue)
  /\ UNCHANGED <<accountVars, deviceVars, op, fcm, tokens>>

TokensOf(a) == {device[<<a, d>>].token : d \in Devices} \ {0}

\* ListByAccount of one recipient after the other; one that fails is skipped.
PushList(w) ==
  /\ job[w].pc = "list"
  /\ \E a \in job[w].todo : \E found \in {{}, TokensOf(a)} :
       LET listed == job[w].tokens \cup found IN
       job' = [job EXCEPT ![w] =
         IF job[w].todo # {a}
         THEN [pc |-> "list", todo |-> job[w].todo \ {a}, tokens |-> listed]
         ELSE IF listed = {} THEN NoJob
         ELSE [pc |-> "send", todo |-> {}, tokens |-> listed]]
  /\ UNCHANGED <<accountVars, deviceVars, op, pushQueue, fcm, tokens>>

Accepted == {fcm[d] : d \in Devices}
\* Faulty: whatever failure is taken for a dead token.
AllRefused(w) == job[w].tokens
\* The tokens whose error says that they are not registered.
Refused(w) == job[w].tokens \ Accepted

\* Pusher.Send; a batch that fails as a whole says nothing of its tokens.
PushSend(w) ==
  /\ job[w].pc = "send"
  /\ \E invalid \in {{}, Refused(w)} :
       job' = [job EXCEPT ![w] = IF invalid = {} THEN NoJob
                                 ELSE [pc |-> "clean", todo |-> {}, tokens |-> invalid]]
  /\ UNCHANGED <<accountVars, deviceVars, op, pushQueue, fcm, tokens>>

\* DeleteByTokens, for whatever account; its failure is only logged.
PushClean(w) ==
  /\ job[w].pc = "clean"
  /\ \/ device' = [k \in Keys |-> IF device[k].token \in job[w].tokens THEN NoRecord
                                  ELSE device[k]]
     \/ UNCHANGED device
  /\ job' = [job EXCEPT ![w] = NoJob]
  /\ UNCHANGED <<accountVars, records, registered, op, pushQueue, fcm,
                 tokens>>

\* External: the app is installed again, FCM gives out another token.
Rotate(d) ==
  /\ tokens < MaxTokens
  /\ tokens' = tokens + 1
  /\ fcm' = [fcm EXCEPT ![d] = tokens']
  /\ registered' = {k \in registered : k[2] # d}
  /\ UNCHANGED <<accountVars, device, records, pushVars, op>>

\* The process stops: the queue and deletedAccounts are lost.
Restart ==
  /\ deletedAccounts' = {} /\ answered' = {}
  /\ op' = [h \in Handlers |-> None]
  /\ pushQueue' = << >>
  /\ job' = [w \in Workers |-> NoJob]
  /\ UNCHANGED <<status, named, late, deviceVars, fcm, tokens>>

-----------------------------------------------------------------------------
Handle(h) ==
  \/ UpsertFind(h) \/ UpsertUpdate(h) \/ UpsertMiss(h) \/ UpsertCreate(h) \/ UpsertRefind(h)
  \/ DeviceDelete(h) \/ Rename(h) \/ CloseCommit(h) \/ CloseStore(h) \/ Fail(h)

Work(w) == PushTake(w) \/ PushList(w) \/ PushSend(w) \/ PushClean(w)

Next ==
  \/ \E h \in Handlers :
       \/ \E a \in Accounts, d \in Devices, pc \in {"find", "delete"} : DeviceRequest(h, a, d, pc)
       \/ \E a \in Accounts, pc \in {"rename", "close"} : AccountRequest(h, a, pc)
       \/ Handle(h)
  \/ \E a \in Accounts : Trigger(a)
  \/ \E w \in Workers : Work(w)
  \/ \E d \in Devices : Rotate(d)
  \/ Restart

Spec == Init /\ [][Next]_vars

-----------------------------------------------------------------------------
(* Properties.                                                             *)

\* A device whose PUT was answered 200 (README.md:224), with nothing done about it since
\* by its account, is notified: its record is there with that token as long as FCM accepts
\* it, whatever the workers clean up.  The exception is UpsertMiss: when the old record
\* goes between the SELECT and the UPDATE of Upsert the 200 is empty.
RegistrationSticks ==
  \A k \in registered : device[k].token = fcm[k[2]]

\* A deleted account has no name and no devices left (account_deletion.go), unless a
\* request wrote them that was let in before the deletion was answered, or by a process
\* that knows nothing of it (deletedAccounts is in RAM).
DeletedLeavesNoTrace ==
  \A a \in Accounts : status[a] = "deleted" /\ a \notin late =>
    a \notin named /\ \A d \in Devices : device[<<a, d>>] = NoRecord
=============================================================================
