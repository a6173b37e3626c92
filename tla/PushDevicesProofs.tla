-------------------------- MODULE PushDevicesProofs --------------------------
(***************************************************************************)
(* Proofs about PushDevices, for any accounts, devices, handlers, workers  *)
(* and sizes: what was registered is not cleaned up, and a deletion leaves *)
(* nothing but what requests wrote that were let in before it.             *)
(***************************************************************************)
EXTENDS PushDevices, FiniteSetTheorems, TLAPS

\* What a handler may be at, as in TypeOK.
Ops == [pc : {"idle", "find", "update", "create", "refind", "reupdate", "delete", "rename",
              "close", "store"},
        account : Accounts \cup {"none"}, device : Devices \cup {"none"},
        token : Tokens, id : Ids, early : BOOLEAN, alone : BOOLEAN]

\* What a worker may be at.
Jobs == [pc : {"idle", "list", "send", "clean"}, todo : SUBSET Accounts,
         tokens : SUBSET Tokens]

DevicePcs == {"find", "update", "create", "refind", "reupdate", "delete"}
Asks(h) == op[h].pc \in DevicePcs
Writes(h) == op[h].pc \in (DevicePcs \ {"delete"}) \cup {"rename"}

\* Every token in the program came from FCM, and a worker deletes none that FCM accepts.
TokensAreOld ==
  /\ \A k \in Keys : device[k].token <= tokens
  /\ \A d \in Devices : fcm[d] <= tokens
  /\ \A h \in Handlers : op[h].token <= tokens
  /\ \A w \in Workers : \A t \in job[w].tokens : t <= tokens
  /\ \A w \in Workers : job[w].pc = "clean" => job[w].tokens \cap Accepted = {}

\* Whatever writes for an account was let in before its deletion was answered.
LetInEarly ==
  /\ answered \subseteq deletedAccounts
  /\ \A h \in Handlers : /\ Asks(h) => KeyOf(h) \in Keys
                         /\ op[h].pc # "idle" => op[h].account \in Accounts
                         /\ Writes(h) => op[h].early

\* A request that is alone has its device for itself, and nothing is under way about a
\* registered device.
OneAtADevice ==
  /\ \A h \in Handlers : op[h].alone =>
       /\ Asks(h)
       /\ \A g \in Handlers \ {h} : Asks(g) => KeyOf(g) # KeyOf(h)
  /\ \A k \in registered, h \in Handlers : Asks(h) => KeyOf(h) # k

PushInv ==
  TypeOK /\ TokensAreOld /\ LetInEarly /\ OneAtADevice
    /\ RegistrationSticks /\ DeletedLeavesNoTrace

LEMMA PushInit == Init => PushInv
  <1> SUFFICES ASSUME Init PROVE PushInv
    OBVIOUS
  <1>1. Cardinality(Devices) \in 0 .. MaxTokens
    BY DevicesAssumption, FS_CardinalityType
  <1>2. TypeOK
    BY <1>1, DevicesAssumption
    DEF Init, TypeOK, NoRecord, None, NoJob, Ids, Tokens
  <1>3. TokensAreOld
    BY <1>1 DEF Init, TokensAreOld, NoRecord, None, NoJob
  <1>4. LetInEarly /\ OneAtADevice
    BY DEF Init, LetInEarly, OneAtADevice, Asks, Writes, DevicePcs, None
  <1>5. RegistrationSticks /\ DeletedLeavesNoTrace
    BY DEF Init, RegistrationSticks, DeletedLeavesNoTrace
  <1> QED BY <1>2, <1>3, <1>4, <1>5 DEF PushInv

-----------------------------------------------------------------------------
(* What becomes of a request.                                              *)

\* The parts of the invariant that speak of the requests alone.
OpInv ==
  /\ op \in [Handlers -> Ops]
  /\ \A h \in Handlers : /\ op[h].token <= tokens
                         /\ Asks(h) => KeyOf(h) \in Keys
                         /\ op[h].pc # "idle" => op[h].account \in Accounts
                         /\ Writes(h) => op[h].early
                         /\ op[h].alone =>
                              /\ Asks(h)
                              /\ \A g \in Handlers \ {h} : Asks(g) => KeyOf(g) # KeyOf(h)

LEMMA OpInvHolds == PushInv => OpInv
  BY DEF PushInv, TypeOK, TokensAreOld, LetInEarly, OneAtADevice, OpInv, Ops

LEMMA EndKeeps ==
  ASSUME OpInv, DevicesAssumption, tokens \in Nat, tokens' = tokens,
         NEW h \in Handlers, End(h)
  PROVE  /\ OpInv'
         /\ \A g \in Handlers : Asks(g)' => g # h /\ Asks(g) /\ KeyOf(g)' = KeyOf(g)
  <1>1. None \in Ops /\ None.token = 0 /\ ~None.alone /\ None.pc = "idle"
    BY DEF None, Ops, Tokens, Ids
  <1>2. op' = [op EXCEPT ![h] = None]
    BY DEF End
  <1> HIDE DEF None
  <1> QED BY <1>1, <1>2 DEF OpInv, Asks, Writes, KeyOf, DevicePcs

LEMMA GotoKeeps ==
  ASSUME OpInv, tokens' = tokens, NEW h \in Handlers, NEW id \in Ids, Asks(h),
         op[h].pc # "delete",
         NEW pc \in {"find", "update", "create", "refind", "reupdate"}, Goto(h, pc, id)
  PROVE  /\ OpInv'
         /\ \A g \in Handlers : /\ Asks(g)' <=> Asks(g)
                                /\ KeyOf(g)' = KeyOf(g)
  <1>1. /\ op' \in [Handlers -> Ops]
        /\ \A g \in Handlers : g # h => op'[g] = op[g]
        /\ op'[h].pc = pc /\ op'[h].account = op[h].account /\ op'[h].device = op[h].device
        /\ op'[h].token = op[h].token /\ op'[h].early = op[h].early
        /\ op'[h].alone = op[h].alone
    <2> DEFINE moved == [op[h] EXCEPT !.pc = pc, !.id = id]
    <2>1. op[h] \in Ops
      BY DEF OpInv
    <2>2. /\ moved \in Ops /\ moved.pc = pc /\ moved.account = op[h].account
          /\ moved.device = op[h].device /\ moved.token = op[h].token
          /\ moved.early = op[h].early /\ moved.alone = op[h].alone
      BY <2>1 DEF Ops
    <2>3. op' = [op EXCEPT ![h] = moved]
      BY DEF Goto
    <2> HIDE DEF moved
    <2> QED BY <2>2, <2>3 DEF OpInv
  <1>2. Writes(h)
    BY DEF Asks, Writes, DevicePcs
  <1> QED BY <1>1, <1>2 DEF OpInv, Asks, Writes, KeyOf, DevicePcs

-----------------------------------------------------------------------------
(* Requests.                                                               *)

\* Begin: another request about the same device is no longer alone.
LEMMA BeginStep ==
  ASSUME PushInv, NEW h \in Handlers, NEW a \in Accounts, NEW d \in Devices \cup {"none"},
         NEW pc \in {"find", "delete", "rename", "close"}, Begin(h, a, d, pc),
         pc \in {"find", "delete"} => d \in Devices
  PROVE  /\ op' \in [Handlers -> Ops]
         /\ \A g \in Handlers : g # h =>
              /\ op'[g].pc = op[g].pc /\ op'[g].account = op[g].account
              /\ op'[g].device = op[g].device /\ op'[g].token = op[g].token
              /\ op'[g].early = op[g].early
              /\ op'[g].alone => op[g].alone /\ <<op[g].account, op[g].device>> # <<a, d>>
         /\ op'[h].pc = pc /\ op'[h].account = a /\ op'[h].device = d
         /\ op'[h].token = (IF pc = "find" THEN fcm[d] ELSE 0)
         /\ pc \in {"find", "rename"} => op'[h].early
         /\ op'[h].alone => /\ pc = "find"
                            /\ \A g \in Handlers : <<op[g].account, op[g].device>> # <<a, d>>
  <1> DEFINE token == IF pc = "find" THEN fcm[d] ELSE 0
             early == pc \in {"find", "rename"} /\ a \notin answered
             alone == /\ pc = "find"
                      /\ {g \in Handlers : <<op[g].account, op[g].device>> = <<a, d>>} = {}
             new == [pc |-> pc, account |-> a, device |-> d, token |-> token, id |-> 0,
                     early |-> early, alone |-> alone]
             rest(g) == IF <<op[g].account, op[g].device>> = <<a, d>>
                        THEN [op[g] EXCEPT !.alone = FALSE] ELSE op[g]
  <1>1. op' = [g \in Handlers |-> IF g = h THEN new ELSE rest(g)]
    <2>1. Overtaken(<<a, d>>) = [g \in Handlers |-> rest(g)]
      BY DEF Overtaken
    <2>2. op' = [Overtaken(<<a, d>>) EXCEPT ![h] =
                   [None EXCEPT !.pc = pc, !.account = a, !.device = d, !.token = token,
                                !.early = early, !.alone = alone]]
      BY Zenon DEF Begin
    <2>3. early \in BOOLEAN /\ alone \in BOOLEAN
      OBVIOUS
    <2>4. op' = [Overtaken(<<a, d>>) EXCEPT ![h] = new]
      <3> HIDE DEF early, alone, token
      <3> DEFINE made == [None EXCEPT !.pc = pc, !.account = a, !.device = d,
                                      !.token = token, !.early = early, !.alone = alone]
      <3>1. DOMAIN made = DOMAIN new
        BY DEF None
      <3>2. /\ made.pc = new.pc /\ made.account = new.account /\ made.device = new.device
            /\ made.token = new.token /\ made.id = new.id
        BY DEF None
      <3>3. made.early = new.early /\ made.alone = new.alone
        BY <2>3 DEF None
      <3>4. made = new
        BY <3>1, <3>2, <3>3 DEF None
      <3>5. op' = [Overtaken(<<a, d>>) EXCEPT ![h] = made]
        BY <2>2
      <3> HIDE DEF made, new
      <3> QED BY <3>4, <3>5, Zenon
    <2> HIDE DEF rest, new
    <2> QED BY <2>1, <2>4
  <1>2. pc \in {"find", "rename"} => a \notin answered
    BY DEF Begin, LetIn, PushInv, LetInEarly
  <1>3. fcm \in [Devices -> Tokens] /\ 0 \in Tokens /\ 0 \in Ids
    BY DevicesAssumption DEF PushInv, TypeOK, Tokens, Ids
  <1>4. \A g \in Handlers :
          op[g] \in Ops
    BY DEF PushInv, TypeOK, Ops
  <1>5. new \in Ops
    BY <1>3 DEF Ops
  <1>6. \A g \in Handlers :
          /\ rest(g) \in Ops
          /\ rest(g).pc = op[g].pc /\ rest(g).account = op[g].account
          /\ rest(g).device = op[g].device /\ rest(g).token = op[g].token
          /\ rest(g).early = op[g].early
          /\ rest(g).alone => op[g].alone /\ <<op[g].account, op[g].device>> # <<a, d>>
    BY <1>4 DEF Ops
  <1>7. /\ op'[h] = new
        /\ \A g \in Handlers : g # h => op'[g] = rest(g)
        /\ op' \in [Handlers -> Ops]
    <2> HIDE DEF rest, new
    <2> QED BY <1>1, <1>5, <1>6
  <1>8. new.alone => \A g \in Handlers : <<op[g].account, op[g].device>> # <<a, d>>
    OBVIOUS
  <1>9. /\ new.pc = pc /\ new.account = a /\ new.device = d
        /\ new.token = (IF pc = "find" THEN fcm[d] ELSE 0)
        /\ pc \in {"find", "rename"} => new.early
        /\ new.alone => pc = "find"
    BY <1>2
  <1> HIDE DEF rest, new
  <1> QED BY <1>6, <1>7, <1>8, <1>9

LEMMA RequestStep ==
  ASSUME PushInv, NEW h \in Handlers, NEW a \in Accounts,
         \/ \E d \in Devices, pc \in {"find", "delete"} : DeviceRequest(h, a, d, pc)
         \/ \E pc \in {"rename", "close"} : AccountRequest(h, a, pc)
  PROVE  PushInv'
  <1>1. PICK d \in Devices \cup {"none"}, pc \in {"find", "delete", "rename", "close"} :
          /\ Begin(h, a, d, pc)
          /\ pc \in {"find", "delete"} => d \in Devices
          /\ IF pc \in {"find", "delete"} THEN registered' = registered \ {<<a, d>>}
             ELSE registered' = registered
    BY DEF DeviceRequest, AccountRequest, deviceVars
  <1>2. UNCHANGED <<accountVars, device, records, pushVars, fcm, tokens>>
    BY DEF DeviceRequest, AccountRequest, deviceVars
  <1> USE DEF accountVars, pushVars
  <1>3. TypeOK'
    BY <1>1, <1>2, BeginStep DEF PushInv, TypeOK, Keys, Ops
  <1>4. TokensAreOld'
    <2>1. tokens \in Nat /\ \A e \in Devices : fcm[e] <= tokens
      BY DevicesAssumption DEF PushInv, TypeOK, TokensAreOld, Tokens
    <2>2. \A g \in Handlers : op'[g].token <= tokens
      BY <2>1, <1>1, BeginStep DEF PushInv, TokensAreOld
    <2> QED BY <1>2, <2>2 DEF PushInv, TokensAreOld, Accepted
  <1>5. LetInEarly'
    BY <1>1, <1>2, BeginStep DEF PushInv, LetInEarly, Asks, Writes, KeyOf, DevicePcs, Keys
  <1>6. OneAtADevice'
    <2>1. \A g \in Handlers : op'[g].alone =>
            Asks(g)' /\ \A f \in Handlers \ {g} : Asks(f)' => KeyOf(f)' # KeyOf(g)'
      <3> SUFFICES ASSUME NEW g \in Handlers, op'[g].alone
                   PROVE  /\ Asks(g)'
                          /\ \A f \in Handlers \ {g} : Asks(f)' => KeyOf(f)' # KeyOf(g)'
        OBVIOUS
      <3>1. CASE g = h
        BY <1>1, <3>1, BeginStep DEF Asks, KeyOf, DevicePcs
      <3>2. CASE g # h
        <4>1. /\ op[g].alone /\ KeyOf(g) # <<a, d>> /\ KeyOf(g)' = KeyOf(g)
              /\ KeyOf(h)' = <<a, d>> /\ Asks(g)' = Asks(g)
          BY <1>1, <3>2, BeginStep DEF KeyOf, Asks
        <4>2. \A f \in Handlers \ {h} : KeyOf(f)' = KeyOf(f) /\ Asks(f)' = Asks(f)
          BY <1>1, BeginStep DEF KeyOf, Asks
        <4> QED BY <4>1, <4>2 DEF PushInv, OneAtADevice
      <3> QED BY <3>1, <3>2
    <2>2. \A k \in registered', g \in Handlers : Asks(g)' => KeyOf(g)' # k
      BY <1>1, BeginStep DEF PushInv, OneAtADevice, Asks, KeyOf, DevicePcs
    <2> QED BY <2>1, <2>2 DEF OneAtADevice
  <1>7. RegistrationSticks' /\ DeletedLeavesNoTrace'
    BY <1>1, <1>2 DEF PushInv, RegistrationSticks, DeletedLeavesNoTrace
  <1> QED BY <1>3, <1>4, <1>5, <1>6, <1>7 DEF PushInv

-----------------------------------------------------------------------------
(* Upsert.                                                                 *)

LEMMA TokensNat == PushInv => tokens \in Nat
  BY DevicesAssumption DEF PushInv, TypeOK, Tokens

\* A step of a request that changes nothing but where it is.
LEMMA OpOnly ==
  ASSUME PushInv, OpInv', NEW h \in Handlers,
         \A g \in Handlers : Asks(g)' => Asks(g) /\ KeyOf(g)' = KeyOf(g),
         UNCHANGED <<accountVars, deviceVars, pushVars, fcm, tokens>>
  PROVE  PushInv'
  <1> USE DEF accountVars, deviceVars, pushVars
  <1>1. TypeOK'
    BY DEF PushInv, TypeOK, OpInv, Ops
  <1>2. \A k \in registered', g \in Handlers : Asks(g)' => KeyOf(g)' # k
    BY DEF PushInv, OneAtADevice
  <1> QED
    BY <1>1, <1>2
    DEF PushInv, OpInv, TokensAreOld, LetInEarly, OneAtADevice, RegistrationSticks,
        DeletedLeavesNoTrace, Accepted

LEMMA EndStep ==
  ASSUME PushInv, NEW h \in Handlers, End(h),
         UNCHANGED <<accountVars, deviceVars, pushVars, fcm, tokens>>
  PROVE  PushInv'
  BY OpInvHolds, EndKeeps, OpOnly, TokensNat, DevicesAssumption

LEMMA LookStep ==
  ASSUME PushInv, NEW h \in Handlers,
         UpsertFind(h) \/ UpsertRefind(h) \/ (UpsertCreate(h) /\ device[KeyOf(h)] # NoRecord)
  PROVE  PushInv'
  <1>1. Asks(h) /\ op[h].pc # "delete" /\ KeyOf(h) \in Keys
    BY DEF UpsertFind, UpsertRefind, UpsertCreate, Asks, DevicePcs, PushInv, LetInEarly
  <1>2. UNCHANGED <<accountVars, deviceVars, pushVars, fcm, tokens>>
    BY DEF UpsertFind, UpsertRefind, UpsertCreate, accountVars, deviceVars
  <1>3. device[KeyOf(h)].id \in Ids /\ 0 \in Ids
    BY <1>1, DevicesAssumption DEF PushInv, TypeOK, Ids
  <1>4. CASE End(h)
    BY <1>2, <1>4, EndStep
  <1>5. ASSUME NEW pc \in {"create", "update", "reupdate", "refind"}, NEW id \in Ids,
               Goto(h, pc, id)
        PROVE  PushInv'
    BY <1>1, <1>2, <1>5, OpInvHolds, GotoKeeps, OpOnly
  <1> QED
    BY <1>3, <1>4, <1>5 DEF UpsertFind, UpsertRefind, UpsertCreate

\* What Upsert writes: the request is alone at its device when it is answered, and was let
\* in early when its account is deleted.
LEMMA WriteStep ==
  ASSUME PushInv, NEW h \in Handlers, op[h].pc \in {"update", "reupdate", "create"},
         NEW id \in Ids,
         device' = [device EXCEPT ![KeyOf(h)] = [id |-> id, token |-> op[h].token]],
         Written(h), Answer200(h) \/ UNCHANGED registered, End(h), records' \in Ids,
         UNCHANGED <<status, named, deletedAccounts, answered, pushVars, fcm, tokens>>
  PROVE  PushInv'
  <1> USE DEF pushVars
  <1>1. /\ Asks(h) /\ KeyOf(h) \in Keys /\ op[h].early
        /\ op[h].account \in Accounts /\ op[h].token \in Tokens /\ op[h].token <= tokens
    BY OpInvHolds DEF Asks, Writes, DevicePcs, OpInv, Ops
  <1>2. \A k \in Keys : device'[k] = IF k = KeyOf(h) THEN [id |-> id, token |-> op[h].token]
                                    ELSE device[k]
    BY <1>1 DEF PushInv, TypeOK
  <1>3. device' \in [Keys -> [id : Ids, token : Tokens]]
    BY <1>1 DEF PushInv, TypeOK
  <1>4. /\ OpInv'
        /\ \A g \in Handlers : Asks(g)' => g # h /\ Asks(g) /\ KeyOf(g)' = KeyOf(g)
    BY OpInvHolds, EndKeeps, TokensNat, DevicesAssumption
  <1>5. TypeOK'
    <2>1. late' \subseteq Accounts /\ registered' \subseteq Keys
      BY <1>1 DEF Written, Answer200, PushInv, TypeOK
    <2> QED BY <1>3, <1>4, <2>1 DEF PushInv, TypeOK, OpInv, Ops
  <1>6. \A k \in registered', g \in Handlers : Asks(g)' => KeyOf(g)' # k
    BY <1>4 DEF Answer200, PushInv, OneAtADevice
  <1>7. RegistrationSticks'
    <2>1. ASSUME NEW k \in registered'
          PROVE  device'[k].token = fcm'[k[2]]
      <3>1. CASE k \in registered
        <4>1. k # KeyOf(h) /\ k \in Keys
          BY <1>1, <3>1 DEF PushInv, OneAtADevice, TypeOK
        <4> QED BY <1>2, <3>1, <4>1 DEF PushInv, RegistrationSticks
      <3>2. CASE k \notin registered
        <4>1. k = KeyOf(h) /\ op[h].token = fcm[op[h].device] /\ k[2] = op[h].device
          BY <3>2 DEF Answer200, KeyOf
        <4> QED BY <1>1, <1>2, <4>1
      <3> QED BY <3>1, <3>2
    <2> QED BY <2>1 DEF RegistrationSticks
  <1>8. DeletedLeavesNoTrace'
    <2>1. ASSUME NEW a \in Accounts, status[a] = "deleted", a \notin late'
          PROVE  a # op[h].account /\ a \notin late
      BY <1>1, <2>1 DEF Written
    <2>2. ASSUME NEW a \in Accounts, NEW d \in Devices, a # op[h].account
          PROVE  device'[<<a, d>>] = device[<<a, d>>]
      BY <1>2, <2>2 DEF Keys, KeyOf
    <2> QED BY <2>1, <2>2 DEF PushInv, DeletedLeavesNoTrace
  <1>9. \A k \in Keys : device'[k].token <= tokens'
    BY <1>1, <1>2 DEF PushInv, TokensAreOld
  <1> QED
    BY <1>4, <1>5, <1>6, <1>7, <1>8, <1>9
    DEF PushInv, OpInv, TokensAreOld, LetInEarly, OneAtADevice, Accepted

LEMMA UpsertStep ==
  ASSUME PushInv, NEW h \in Handlers,
         UpsertFind(h) \/ UpsertUpdate(h) \/ UpsertMiss(h) \/ UpsertCreate(h)
           \/ UpsertRefind(h) \/ Fail(h)
  PROVE  PushInv'
  <1>1. CASE UpsertUpdate(h)
    <2>1. op[h].pc \in {"update", "reupdate"} /\ KeyOf(h) \in Keys
      BY <1>1 DEF UpsertUpdate, PushInv, LetInEarly, Asks, DevicePcs
    <2>2. PICK id \in Ids :
            device' = [device EXCEPT ![KeyOf(h)] = [id |-> id, token |-> op[h].token]]
      <3>1. device[KeyOf(h)] \in [id : Ids, token : Tokens]
        BY <2>1 DEF PushInv, TypeOK
      <3>2. [device[KeyOf(h)] EXCEPT !.token = op[h].token]
              = [id |-> device[KeyOf(h)].id, token |-> op[h].token]
        BY <3>1
      <3>3. device' = [device EXCEPT ![KeyOf(h)] =
                         [device[KeyOf(h)] EXCEPT !.token = op[h].token]]
        BY <1>1 DEF UpsertUpdate
      <3> QED BY <3>1, <3>2, <3>3
    <2>3. records' \in Ids
      BY <1>1 DEF UpsertUpdate, PushInv, TypeOK
    <2> QED BY <1>1, <2>1, <2>2, <2>3, WriteStep DEF UpsertUpdate
  <1>2. CASE UpsertCreate(h) /\ device[KeyOf(h)] = NoRecord
    <2>1. records' \in Ids
      BY <1>2, DevicesAssumption DEF UpsertCreate, PushInv, TypeOK, Ids
    <2> QED BY <1>2, <2>1, WriteStep DEF UpsertCreate
  <1>3. CASE UpsertMiss(h) \/ Fail(h)
    BY <1>3, EndStep DEF UpsertMiss, Fail
  <1> QED BY <1>1, <1>2, <1>3, LookStep

-----------------------------------------------------------------------------
(* The other writes.                                                       *)

LEMMA DeleteStep ==
  ASSUME PushInv, NEW h \in Handlers, DeviceDelete(h)
  PROVE  PushInv'
  <1> USE DEF accountVars, pushVars
  <1>1. Asks(h) /\ KeyOf(h) \in Keys
    BY DEF DeviceDelete, Asks, DevicePcs, PushInv, LetInEarly
  <1>2. /\ device' = [device EXCEPT ![KeyOf(h)] = NoRecord]
        /\ UNCHANGED <<accountVars, records, registered, pushVars, fcm, tokens>>
    BY DEF DeviceDelete
  <1>3. NoRecord \in [id : Ids, token : Tokens] /\ NoRecord.token <= tokens
    BY TokensNat, DevicesAssumption DEF NoRecord, Ids, Tokens
  <1>4. /\ OpInv'
        /\ \A g \in Handlers : Asks(g)' => g # h /\ Asks(g) /\ KeyOf(g)' = KeyOf(g)
    BY OpInvHolds, EndKeeps, TokensNat, DevicesAssumption DEF DeviceDelete
  <1>5. TypeOK'
    BY <1>2, <1>3, <1>4 DEF PushInv, TypeOK, OpInv, Ops
  <1>6. \A k \in registered', g \in Handlers : Asks(g)' => KeyOf(g)' # k
    BY <1>2, <1>4 DEF PushInv, OneAtADevice
  <1>7. \A k \in Keys : device'[k] = IF k = KeyOf(h) THEN NoRecord ELSE device[k]
    BY <1>1, <1>2 DEF PushInv, TypeOK
  <1>8. RegistrationSticks'
    <2>1. \A k \in registered : k \in Keys /\ k # KeyOf(h)
      BY <1>1 DEF PushInv, TypeOK, OneAtADevice
    <2> QED BY <1>2, <1>7, <2>1 DEF PushInv, RegistrationSticks
  <1>9. DeletedLeavesNoTrace'
    BY <1>2, <1>7 DEF PushInv, DeletedLeavesNoTrace, Keys
  <1>10. \A k \in Keys : device'[k].token <= tokens'
    BY <1>2, <1>3, <1>7 DEF PushInv, TokensAreOld
  <1> QED
    BY <1>2, <1>4, <1>5, <1>6, <1>8, <1>9, <1>10
    DEF PushInv, OpInv, TokensAreOld, LetInEarly, OneAtADevice, Accepted

LEMMA RenameStep ==
  ASSUME PushInv, NEW h \in Handlers, Rename(h)
  PROVE  PushInv'
  <1> USE DEF deviceVars, pushVars
  <1>1. op[h].account \in Accounts /\ op[h].early
    BY DEF Rename, Writes, PushInv, LetInEarly
  <1>2. /\ named' = named \cup {op[h].account} /\ Written(h)
        /\ UNCHANGED <<status, deletedAccounts, answered, deviceVars, pushVars, fcm, tokens>>
    BY DEF Rename
  <1>3. /\ OpInv'
        /\ \A g \in Handlers : Asks(g)' => g # h /\ Asks(g) /\ KeyOf(g)' = KeyOf(g)
    BY OpInvHolds, EndKeeps, TokensNat, DevicesAssumption DEF Rename
  <1>4. TypeOK'
    <2>1. named' \subseteq Accounts /\ late' \subseteq Accounts
      BY <1>1, <1>2 DEF Written, PushInv, TypeOK
    <2> QED BY <1>2, <1>3, <2>1 DEF PushInv, TypeOK, OpInv, Ops
  <1>5. \A k \in registered', g \in Handlers : Asks(g)' => KeyOf(g)' # k
    BY <1>2, <1>3 DEF PushInv, OneAtADevice
  <1>6. DeletedLeavesNoTrace'
    BY <1>1, <1>2 DEF Written, PushInv, DeletedLeavesNoTrace
  <1> QED
    BY <1>2, <1>3, <1>4, <1>5, <1>6
    DEF PushInv, OpInv, TokensAreOld, LetInEarly, OneAtADevice, RegistrationSticks, Accepted

\* The deletion takes the devices of the account with it, and leaves no request alone.
LEMMA CloseStep ==
  ASSUME PushInv, NEW h \in Handlers, CloseCommit(h)
  PROVE  PushInv'
  <1> DEFINE a == op[h].account
             other(g) == IF op[g].account = a THEN [op[g] EXCEPT !.alone = FALSE] ELSE op[g]
  <1> USE DEF pushVars
  <1>1. a \in Accounts /\ op[h].pc = "close" /\ ~Asks(h)
    BY DEF CloseCommit, PushInv, LetInEarly, Asks, DevicePcs
  <1>2. /\ status' = [status EXCEPT ![a] = "deleted"] /\ named' = named \ {a}
        /\ device' = DevicesAfterClose(a) /\ late' = late \ {a}
        /\ registered' = {k \in registered : k[1] # a}
        /\ UNCHANGED <<deletedAccounts, answered, records, pushVars, fcm, tokens>>
    BY DEF CloseCommit
  <1>3. NoRecord \in [id : Ids, token : Tokens] /\ NoRecord.token <= tokens
    BY TokensNat, DevicesAssumption DEF NoRecord, Ids, Tokens
  <1>4. \A k \in Keys : device'[k] = NoRecord \/ (device'[k] = device[k] /\ k[1] # a)
    BY <1>2 DEF DevicesAfterClose
  <1>5. \A g \in Handlers :
          /\ op[g] \in Ops /\ other(g) \in Ops /\ other(g).pc = op[g].pc
          /\ other(g).account = op[g].account /\ other(g).device = op[g].device
          /\ other(g).token = op[g].token /\ other(g).early = op[g].early
          /\ other(g).alone => op[g].alone
    <2> SUFFICES ASSUME NEW g \in Handlers
                 PROVE  /\ op[g] \in Ops /\ other(g) \in Ops /\ other(g).pc = op[g].pc
                        /\ other(g).account = op[g].account
                        /\ other(g).device = op[g].device
                        /\ other(g).token = op[g].token /\ other(g).early = op[g].early
                        /\ other(g).alone => op[g].alone
      OBVIOUS
    <2>1. op[g] \in Ops
      BY OpInvHolds DEF OpInv
    <2>2. other(g) = op[g] \/ other(g) = [op[g] EXCEPT !.alone = FALSE]
      OBVIOUS
    <2> QED BY <2>1, <2>2 DEF Ops
  <1>6. PICK last \in {None, [op[h] EXCEPT !.pc = "store"]} :
          op' = [g \in Handlers |-> IF g = h THEN last ELSE other(g)]
    <2>1. PICK last \in {None, [op[h] EXCEPT !.pc = "store"]} :
            op' = [[g \in Handlers |-> other(g)] EXCEPT ![h] = last]
      BY DEF CloseCommit
    <2> HIDE DEF other
    <2> QED BY <2>1
  <1>7. /\ last \in Ops /\ last.pc \in {"idle", "store"} /\ last.token <= tokens
        /\ ~last.alone
        /\ last.pc # "idle" => last.account = a
    <2>1. CASE last = None
      BY <2>1, TokensNat, DevicesAssumption DEF None, Ops, Ids, Tokens
    <2>2. CASE last = [op[h] EXCEPT !.pc = "store"]
      <3>1. ~op[h].alone
        BY <1>1 DEF PushInv, OneAtADevice
      <3> QED BY <1>5, <2>2, <3>1 DEF Ops, PushInv, TokensAreOld
    <2> QED BY <2>1, <2>2
  <1> HIDE DEF other
  <1>8. /\ op' \in [Handlers -> Ops] /\ op'[h] = last
        /\ \A g \in Handlers : g # h => op'[g] = other(g)
    BY <1>5, <1>6, <1>7
  <1>9. \A g \in Handlers : Asks(g)' => g # h /\ Asks(g) /\ KeyOf(g)' = KeyOf(g)
    BY <1>5, <1>7, <1>8 DEF Asks, KeyOf, DevicePcs
  <1>10. OpInv'
    <2>1. \A g \in Handlers :
            /\ op'[g].token <= tokens
            /\ op'[g].pc # "idle" => op'[g].account \in Accounts
            /\ Writes(g)' => op'[g].early
            /\ op'[g].alone => g # h /\ op[g].alone
      <3> SUFFICES ASSUME NEW g \in Handlers
                   PROVE  /\ op'[g].token <= tokens
                          /\ op'[g].pc # "idle" => op'[g].account \in Accounts
                          /\ Writes(g)' => op'[g].early
                          /\ op'[g].alone => g # h /\ op[g].alone
        OBVIOUS
      <3>1. CASE g = h
        <4>1. op'[g] = last /\ last.pc \notin (DevicePcs \ {"delete"}) \cup {"rename"}
          BY <1>7, <1>8, <3>1 DEF DevicePcs
        <4>2. op'[g].token <= tokens /\ ~op'[g].alone /\ ~Writes(g)'
          BY <1>7, <4>1 DEF Writes
        <4>3. op'[g].pc # "idle" => op'[g].account \in Accounts
          BY <1>1, <1>7, <4>1
        <4> QED BY <4>2, <4>3
      <3>2. CASE g # h
        BY <1>5, <1>8, <3>2, OpInvHolds DEF OpInv, Writes
      <3> QED BY <3>1, <3>2
    <2>2. \A g \in Handlers : g # h => (Asks(g)' <=> Asks(g)) /\ KeyOf(g)' = KeyOf(g)
      BY <1>5, <1>8 DEF Asks, KeyOf
    <2> QED BY <1>2, <1>8, <1>9, <2>1, <2>2, OpInvHolds DEF OpInv
  <1>11. TypeOK'
    <2>1. device' \in [Keys -> [id : Ids, token : Tokens]]
      BY <1>2, <1>3 DEF DevicesAfterClose, PushInv, TypeOK
    <2>2. status' \in [Accounts -> {"active", "deleted"}]
      BY <1>2 DEF PushInv, TypeOK
    <2> QED BY <1>2, <1>8, <2>1, <2>2 DEF PushInv, TypeOK, Ops
  <1>12. \A k \in registered', g \in Handlers : Asks(g)' => KeyOf(g)' # k
    BY <1>2, <1>9 DEF PushInv, OneAtADevice
  <1>13. RegistrationSticks'
    BY <1>2 DEF DevicesAfterClose, PushInv, RegistrationSticks, TypeOK
  <1>14. DeletedLeavesNoTrace'
    <2>1. \A b \in Accounts : b # a => status'[b] = status[b]
      BY <1>2 DEF PushInv, TypeOK
    <2>2. \A b \in Accounts, d \in Devices :
            device'[<<b, d>>] = IF b = a THEN NoRecord ELSE device[<<b, d>>]
      BY <1>2 DEF DevicesAfterClose, Keys
    <2> QED BY <1>2, <2>1, <2>2 DEF PushInv, DeletedLeavesNoTrace
  <1>15. \A k \in Keys : device'[k].token <= tokens'
    BY <1>2, <1>3, <1>4 DEF PushInv, TokensAreOld
  <1> QED
    BY <1>2, <1>10, <1>11, <1>12, <1>13, <1>14, <1>15
    DEF PushInv, OpInv, TokensAreOld, LetInEarly, OneAtADevice, Accepted

LEMMA StoreStep ==
  ASSUME PushInv, NEW h \in Handlers, CloseStore(h)
  PROVE  PushInv'
  <1> USE DEF deviceVars, pushVars
  <1>1. op[h].account \in Accounts
    BY DEF CloseStore, PushInv, LetInEarly
  <1>2. /\ OpInv'
        /\ \A g \in Handlers : Asks(g)' => g # h /\ Asks(g) /\ KeyOf(g)' = KeyOf(g)
    BY OpInvHolds, EndKeeps, TokensNat, DevicesAssumption DEF CloseStore
  <1>3. /\ deletedAccounts' = deletedAccounts \cup {op[h].account}
        /\ answered' = answered \cup {op[h].account}
        /\ UNCHANGED <<status, named, late, deviceVars, pushVars, fcm, tokens>>
    BY DEF CloseStore, Marked
  <1>4. TypeOK'
    BY <1>1, <1>2, <1>3 DEF PushInv, TypeOK, OpInv, Ops
  <1>5. \A k \in registered', g \in Handlers : Asks(g)' => KeyOf(g)' # k
    BY <1>2, <1>3 DEF PushInv, OneAtADevice
  <1>6. answered' \subseteq deletedAccounts'
    BY <1>3 DEF PushInv, LetInEarly
  <1> QED
    BY <1>2, <1>3, <1>4, <1>5, <1>6
    DEF PushInv, OpInv, TokensAreOld, LetInEarly, OneAtADevice, RegistrationSticks,
        DeletedLeavesNoTrace, Accepted

-----------------------------------------------------------------------------
(* Notifications, new tokens and restarts.                                 *)

\* A worker carries tokens of records, and deletes those that FCM accepts no longer.
LEMMA WorkStep ==
  ASSUME PushInv, NEW w \in Workers, Work(w)
  PROVE  PushInv'
  <1> DEFINE fit(n) == /\ n \in Jobs
                       /\ \A t \in n.tokens : t <= tokens
                       /\ n.pc = "clean" => n.tokens \cap Accepted = {}
  <1> USE DEF accountVars
  <1>1. UNCHANGED <<accountVars, records, registered, op, fcm, tokens>>
    BY DEF Work, PushTake, PushList, PushSend, PushClean, deviceVars
  <1>2. pushQueue' \in Seq(Accounts) /\ Len(pushQueue') <= QueueCapacity
    <2>1. /\ pushQueue \in Seq(Accounts) /\ Len(pushQueue) <= QueueCapacity
          /\ QueueCapacity \in Nat
      BY DevicesAssumption DEF PushInv, TypeOK
    <2>2. pushQueue' = pushQueue \/ (pushQueue # << >> /\ pushQueue' = Tail(pushQueue))
      BY DEF Work, PushTake, PushList, PushSend, PushClean
    <2>3. pushQueue # << >> => /\ Tail(pushQueue) \in Seq(Accounts)
                              /\ Len(Tail(pushQueue)) <= Len(pushQueue)
      BY <2>1
    <2> QED BY <2>1, <2>2, <2>3
  <1>3. job[w] \in Jobs /\ \A t \in job[w].tokens : t <= tokens
    BY DEF PushInv, TypeOK, TokensAreOld, Jobs
  <1>4. \A a \in Accounts : TokensOf(a) \subseteq Tokens /\ \A t \in TokensOf(a) : t <= tokens
    <2>1. \A a \in Accounts, d \in Devices :
            device[<<a, d>>].token \in Tokens /\ device[<<a, d>>].token <= tokens
      BY DEF Keys, PushInv, TypeOK, TokensAreOld
    <2> QED BY <2>1 DEF TokensOf
  <1>5. \E new : fit(new) /\ job' = [job EXCEPT ![w] = new]
    <2>0. fit(NoJob)
      BY DEF NoJob, Jobs
    <2>1. CASE PushTake(w)
      <3> DEFINE new == [pc |-> "list", todo |-> Accounts \ {Head(pushQueue)}, tokens |-> {}]
      <3>1. fit(new)
        BY DEF Jobs
      <3>2. job' = [job EXCEPT ![w] = new]
        BY <2>1 DEF PushTake
      <3> HIDE DEF fit, new
      <3> QED BY <3>1, <3>2
    <2>2. CASE PushList(w)
      <3> DEFINE listed(f) == job[w].tokens \cup f
                 skip(a, f) == [pc |-> "list", todo |-> job[w].todo \ {a},
                               tokens |-> listed(f)]
                 full(f) == [pc |-> "send", todo |-> {}, tokens |-> listed(f)]
      <3>1. PICK a \in job[w].todo : \E f \in {{}, TokensOf(a)} :
              job' = [job EXCEPT ![w] = IF job[w].todo # {a} THEN skip(a, f)
                                        ELSE IF listed(f) = {} THEN NoJob ELSE full(f)]
        BY <2>2 DEF PushList
      <3>2. PICK f \in {{}, TokensOf(a)} :
              job' = [job EXCEPT ![w] = IF job[w].todo # {a} THEN skip(a, f)
                                        ELSE IF listed(f) = {} THEN NoJob ELSE full(f)]
        BY <3>1
      <3>3. job[w].pc = "list" /\ a \in Accounts
        BY <1>3, <2>2 DEF PushList, Jobs
      <3>4. listed(f) \subseteq Tokens /\ \A t \in listed(f) : t <= tokens
        BY <1>3, <1>4, <3>3 DEF Jobs
      <3>5. fit(full(f))
        BY <3>4 DEF Jobs
      <3>6. fit(skip(a, f))
        BY <1>3, <3>3, <3>4 DEF Jobs
      <3> HIDE DEF fit, full, skip, listed
      <3> QED BY <2>0, <3>2, <3>5, <3>6
    <2>3. CASE PushSend(w)
      <3> DEFINE clean == [pc |-> "clean", todo |-> {}, tokens |-> Refused(w)]
      <3>1. fit(clean)
        <4>1. Refused(w) \subseteq job[w].tokens /\ Refused(w) \cap Accepted = {}
          BY DEF Refused
        <4> QED BY <1>3, <4>1 DEF Jobs
      <3>2. job' = [job EXCEPT ![w] = NoJob] \/ job' = [job EXCEPT ![w] = clean]
        BY <2>3 DEF PushSend
      <3> HIDE DEF fit, clean
      <3> QED BY <2>0, <3>1, <3>2
    <2>4. CASE PushClean(w)
      <3> HIDE DEF fit
      <3> QED BY <2>0, <2>4 DEF PushClean
    <2> QED BY <2>1, <2>2, <2>3, <2>4 DEF Work
  <1>5a. PICK new : fit(new) /\ job' = [job EXCEPT ![w] = new]
    BY <1>5
  <1>6. device' = device \/ /\ job[w].pc = "clean"
                            /\ device' = [k \in Keys |-> IF device[k].token \in job[w].tokens
                                                         THEN NoRecord ELSE device[k]]
    BY DEF Work, PushTake, PushList, PushSend, PushClean, deviceVars
  <1>7. NoRecord \in [id : Ids, token : Tokens] /\ NoRecord.token <= tokens
    BY TokensNat, DevicesAssumption DEF NoRecord, Ids, Tokens
  <1>8. \A k \in Keys : /\ device'[k] \in {device[k], NoRecord}
                        /\ k \in registered => device'[k] = device[k]
    <2>1. \A k \in registered : k \in Keys /\ device[k].token \in Accepted
      BY DEF PushInv, RegistrationSticks, TypeOK, Keys, Accepted
    <2>2. job[w].pc = "clean" => job[w].tokens \cap Accepted = {}
      BY DEF PushInv, TokensAreOld
    <2> QED BY <1>6, <2>1, <2>2
  <1>9. TypeOK'
    <2>1. device' \in [Keys -> [id : Ids, token : Tokens]]
      BY <1>6, <1>7 DEF PushInv, TypeOK
    <2> QED BY <1>1, <1>2, <1>5a, <2>1 DEF PushInv, TypeOK, Jobs
  <1>10. TokensAreOld'
    BY <1>1, <1>5a, <1>7, <1>8 DEF PushInv, TypeOK, TokensAreOld, Accepted
  <1>11. LetInEarly' /\ OneAtADevice'
    BY <1>1 DEF PushInv, LetInEarly, OneAtADevice, Asks, Writes, KeyOf
  <1>12. RegistrationSticks'
    BY <1>1, <1>8 DEF PushInv, RegistrationSticks, TypeOK
  <1>13. DeletedLeavesNoTrace'
    BY <1>1, <1>8 DEF PushInv, DeletedLeavesNoTrace, Keys
  <1> QED BY <1>9, <1>10, <1>11, <1>12, <1>13 DEF PushInv

LEMMA TriggerStep ==
  ASSUME PushInv, NEW a \in Accounts, Trigger(a)
  PROVE  PushInv'
  <1> USE DEF accountVars, deviceVars
  <1>1. UNCHANGED <<accountVars, deviceVars, op, job, fcm, tokens>>
    BY DEF Trigger
  <1>2. pushQueue' \in Seq(Accounts) /\ Len(pushQueue') <= QueueCapacity
    BY DevicesAssumption DEF Trigger, Enqueued, PushInv, TypeOK
  <1>3. TypeOK'
    BY <1>1, <1>2 DEF PushInv, TypeOK
  <1>4. TokensAreOld' /\ LetInEarly' /\ OneAtADevice'
    BY <1>1
    DEF PushInv, TokensAreOld, Accepted, LetInEarly, OneAtADevice, Asks, Writes, KeyOf
  <1> QED BY <1>1, <1>3, <1>4 DEF PushInv, RegistrationSticks, DeletedLeavesNoTrace

\* A new token is in no record and no job.
LEMMA RotateStep ==
  ASSUME PushInv, NEW d \in Devices, Rotate(d)
  PROVE  PushInv'
  <1> USE DEF accountVars, pushVars
  <1>1. /\ tokens \in Nat /\ tokens' = tokens + 1 /\ tokens' \in Tokens
        /\ fcm' = [fcm EXCEPT ![d] = tokens + 1]
        /\ registered' = {k \in registered : k[2] # d}
        /\ UNCHANGED <<accountVars, device, records, pushVars, op>>
    BY TokensNat, DevicesAssumption DEF Rotate, Tokens
  <1>2. TypeOK'
    BY <1>1 DEF PushInv, TypeOK
  <1>3. TokensAreOld'
    <2>1. /\ \A k \in Keys : device[k].token \in Nat
          /\ \A e \in Devices : fcm[e] \in Nat
          /\ \A h \in Handlers : op[h].token \in Nat
          /\ \A w \in Workers : job[w].tokens \subseteq Nat
      BY OpInvHolds DEF PushInv, TypeOK, Tokens, OpInv, Ops
    <2>2. \A t \in Accepted' : t \in Accepted \/ t = tokens + 1
      BY <1>1 DEF Accepted, PushInv, TypeOK
    <2>3. \A w \in Workers : job[w].pc = "clean" => job[w].tokens \cap Accepted' = {}
      BY <1>1, <2>1, <2>2 DEF PushInv, TokensAreOld
    <2>4. \A e \in Devices : fcm'[e] <= tokens'
      BY <1>1, <2>1 DEF PushInv, TokensAreOld, TypeOK
    <2> QED BY <1>1, <2>1, <2>3, <2>4 DEF PushInv, TokensAreOld
  <1>4. LetInEarly' /\ OneAtADevice'
    BY <1>1 DEF PushInv, LetInEarly, OneAtADevice, Asks, Writes, KeyOf
  <1>5. RegistrationSticks'
    BY <1>1 DEF PushInv, RegistrationSticks, TypeOK, Keys
  <1> QED BY <1>1, <1>2, <1>3, <1>4, <1>5 DEF PushInv, DeletedLeavesNoTrace

LEMMA RestartStep ==
  ASSUME PushInv, Restart
  PROVE  PushInv'
  <1> USE DEF deviceVars
  <1>1. /\ op' = [h \in Handlers |-> None] /\ job' = [w \in Workers |-> NoJob]
        /\ deletedAccounts' = {} /\ answered' = {} /\ pushQueue' = << >>
        /\ UNCHANGED <<status, named, late, deviceVars, fcm, tokens>>
    BY DEF Restart
  <1>2. TypeOK'
    BY <1>1, DevicesAssumption DEF PushInv, TypeOK, None, NoJob, Ids, Tokens
  <1>3. TokensAreOld'
    BY <1>1, TokensNat DEF PushInv, TokensAreOld, Accepted, None, NoJob
  <1>4. LetInEarly' /\ OneAtADevice'
    BY <1>1 DEF LetInEarly, OneAtADevice, Asks, Writes, DevicePcs, None
  <1> QED BY <1>1, <1>2, <1>3, <1>4 DEF PushInv, RegistrationSticks, DeletedLeavesNoTrace

LEMMA PushStep == PushInv /\ [Next]_vars => PushInv'
  <1> SUFFICES ASSUME PushInv, [Next]_vars
               PROVE  PushInv'
    OBVIOUS
  <1>1. CASE UNCHANGED vars
    <2>1. TypeOK' /\ TokensAreOld' /\ LetInEarly' /\ OneAtADevice'
      BY <1>1
      DEF vars, PushInv, TypeOK, TokensAreOld, Accepted, LetInEarly, OneAtADevice, Asks,
          Writes, KeyOf
    <2> QED BY <1>1, <2>1 DEF vars, PushInv, RegistrationSticks, DeletedLeavesNoTrace
  <1>2. ASSUME NEW h \in Handlers, Handle(h)
        PROVE  PushInv'
    BY <1>2, UpsertStep, DeleteStep, RenameStep, CloseStep, StoreStep DEF Handle
  <1> QED
    BY <1>1, <1>2, RequestStep, TriggerStep, WorkStep, RotateStep, RestartStep DEF Next

LEMMA PushInvariance == Spec => []PushInv
  BY PushInit, PushStep, PTL DEF Spec

\* Every variable keeps its type, and the queue its limit, for any number of workers.
THEOREM PushTypes == Spec => []TypeOK
  <1>1. PushInv => TypeOK
    BY DEF PushInv
  <1> QED BY <1>1, PushInvariance, PTL

\* Neither the cleanup of dead tokens nor another request takes away what an answered
\* registration left (pushStore.Upsert, DeleteByTokens).
THEOREM RegistrationsStick == Spec => []RegistrationSticks
  <1>1. PushInv => RegistrationSticks
    BY DEF PushInv
  <1> QED BY <1>1, PushInvariance, PTL

\* A deleted account keeps neither name nor device, but for requests let in before the
\* deletion was answered or before a restart forgot it (requireAuth, deleteAccount).
THEOREM DeletionLeavesNoTrace == Spec => []DeletedLeavesNoTrace
  <1>1. PushInv => DeletedLeavesNoTrace
    BY DEF PushInv
  <1> QED BY <1>1, PushInvariance, PTL
=============================================================================
