------------------------- MODULE GroupRequestsProofs -------------------------
(***************************************************************************)
(* Proofs about GroupMembership and GroupRequests, for any accounts,       *)
(* handlers, requests and failures: an unhindered handler leaves the group *)
(* its owner, the cached list follows the members, and requests are found  *)
(* and used as often as overlapping handlers allow, and no more.           *)
(***************************************************************************)
EXTENDS GroupRequests, FiniteSetTheorems, SequenceTheorems, TLAPS

\* What a handler of GroupMembership is about, once it has begun.
Kept(o) ==
  /\ o.kind \in Departures \cup RoleChanges \cup {"join"}
  /\ o.actor \in Accounts /\ o.target \in Accounts
  /\ o.target = o.actor <=> o.kind \in {"leave", "join"}

\* What it has read and still goes by: an owner leaves only after another owner was
\* found (which only a race in the past explains), and what is done to another member,
\* the role of that member allows.
Informed(o, past) ==
  /\ o.pc = "owners" => Kept(o) /\ o.kind = "leave" /\ o.own = "owner"
  /\ o.pc = "target" => Kept(o) /\ o.kind \in RoleChanges \cup {"remove"}
  /\ o.pc = "commit" =>
       /\ Kept(o)
       /\ o.kind = "leave" => o.own # "none" /\ (o.own = "owner" => past)
       /\ o.kind \in RoleChanges \cup {"remove"} => Allowed(o.kind, o.own, o.seen)
  /\ o.pc \in {"target", "commit"} /\ o.kind \in RoleChanges => o.own = "owner"

OneOwner == \E a \in Accounts : Owners = {a}

\* A list that is read and not yet cached is that of the database, or known to be old.
Fresh(h) == op[h].pc = "fill" => h \in outdated \/ op[h].list = Members

OwnerInv ==
  /\ TypeOK
  /\ \A h \in Handlers : Fresh(h)
  /\ \A h \in Handlers : Informed(op[h], raced)
  /\ ~raced => OneOwner

\* An old list in the cache is one of the known ways, or about to be discarded.
Discarding(h) == op[h].pc = "delete"
ListInv == cache \in {NoCache, Members} \/ stale \/ \E h \in Handlers : Discarding(h)

-----------------------------------------------------------------------------
(* The group.                                                              *)

LEMMA FiniteAccounts == \A S \in SUBSET Accounts : IsFiniteSet(S)
  BY FounderAssumption, FS_Subset

LEMMA CountOwner == OneOwner <=> Owners \subseteq Accounts /\ Cardinality(Owners) = 1
  BY FiniteAccounts, FS_Singleton DEF OneOwner, Owners

LEMMA GroupInit == Init => OwnerInv /\ ListInv
  <1> SUFFICES ASSUME Init PROVE OwnerInv /\ ListInv
    OBVIOUS
  <1> USE FounderAssumption DEF Init
  <1>1. TypeOK
    BY DEF TypeOK, Roles, None, NoAccount
  <1>2. Owners = {Founder} /\ Members = {Founder}
    BY DEF Owners, Members
  <1>3. \A h \in Handlers : Informed(op[h], raced)
    BY DEF Informed, None
  <1>4. \A h \in Handlers : Fresh(h)
    BY DEF Fresh, None
  <1> QED BY <1>1, <1>2, <1>3, <1>4 DEF OwnerInv, OneOwner, ListInv

\* A step of a handler changes its own entry only.
Entries == 
  [pc : {"idle", "owners", "target", "commit", "delete", "publish", "fill"},
   kind : Departures \cup RoleChanges \cup {"join", "none"},
   actor : Accounts \cup {NoAccount}, target : Accounts \cup {NoAccount},
   own : Roles, seen : Roles, list : SUBSET Accounts]

LEMMA EntryStep ==
  ASSUME OwnerInv, NEW h \in Handlers, NEW o \in Entries, op' = [op EXCEPT ![h] = o],
         o.pc = "idle" => o = None, Informed(o, raced'), raced => raced'
  PROVE  /\ op' \in [Handlers -> Entries]
         /\ \A g \in Handlers : /\ op'[g].pc = "idle" => op'[g] = None
                                /\ Informed(op'[g], raced')
  <1>1. op \in [Handlers -> Entries] /\ raced \in BOOLEAN
    BY DEF OwnerInv, TypeOK, Entries
  <1>2. ASSUME NEW g \in Handlers, g # h
        PROVE  op'[g] = op[g] /\ Informed(op'[g], raced')
    BY <1>1, <1>2 DEF OwnerInv, Informed, Allowed, Kept
  <1> QED BY <1>1, <1>2 DEF OwnerInv, TypeOK

\* A handler that only reads: roles, cache and histories stay as they are.
LEMMA ReadStep ==
  ASSUME OwnerInv, NEW h \in Handlers, NEW o \in Entries, op' = [op EXCEPT ![h] = o],
         o.pc = "idle" => o = None, Informed(o, raced), ~Discarding(h),
         op[h].pc # "fill", o.pc = "fill" => o.list = Members,
         UNCHANGED <<role, cache, raced, outdated, stale>>
  PROVE  OwnerInv' /\ (ListInv => ListInv')
  <1>1. OwnerInv'
    <2>1. op \in [Handlers -> Entries] /\ h \notin outdated
      BY DEF OwnerInv, TypeOK, Entries
    <2>2. outdated' \subseteq {g \in Handlers : op'[g].pc = "fill"}
      BY <2>1 DEF OwnerInv, TypeOK
    <2>3. \A g \in Handlers : Fresh(g)'
      BY <2>1 DEF OwnerInv, Fresh, Members
    <2> QED BY <2>2, <2>3, EntryStep DEF OwnerInv, OneOwner, Owners, TypeOK, Entries
  <1>2. ASSUME ListInv
        PROVE  ListInv'
    <2>1. \A g \in Handlers : Discarding(g) => Discarding(g)'
      BY DEF Discarding, OwnerInv, TypeOK
    <2> QED BY <1>2, <2>1 DEF ListInv, Members
  <1> QED BY <1>1, <1>2

\* What the transactions leave of the roles, for a handler that is informed.
LEMMA WriteStep ==
  ASSUME OwnerInv, NEW h \in Handlers, Write(h)
  PROVE  /\ role' \in [Accounts -> Roles] /\ raced' \in BOOLEAN /\ (raced => raced')
         /\ ~raced' => OneOwner'
         /\ op[h].kind \in RoleChanges => Members' = Members
  <1> DEFINE o == op[h]
  <1>1. /\ role \in [Accounts -> Roles] /\ raced \in BOOLEAN
        /\ Kept(o) /\ Informed(o, raced) /\ o.pc = "commit"
        /\ role' = RoleAfter(o) /\ raced' = (raced \/ Overtaken(o))
        /\ raced' \in BOOLEAN /\ o = op[h]
    BY DEF OwnerInv, TypeOK, Informed, Write, Overtaken
  <1> HIDE DEF o
  <1>2. CASE o.kind \in Departures
    <2>1. role' = [role EXCEPT ![o.target] = IF @ = "none" THEN @ ELSE "none"]
      BY <1>1, <1>2 DEF RoleAfter, SetActive, Departures
    <2>2. ASSUME ~raced' PROVE role[o.target] # "owner"
      BY <1>1, <1>2, <2>2
      DEF Overtaken, Kept, Informed, Allowed, Departures, RoleChanges
    <2>3. ~raced' => Owners' = Owners
      BY <1>1, <2>1, <2>2 DEF Owners, Kept
    <2> QED
      BY <1>1, <1>2, <2>1, <2>3
      DEF OwnerInv, OneOwner, Kept, Roles, Departures, RoleChanges
  <1>3. CASE o.kind = "transfer"
    <2>1. role' = [[role EXCEPT ![o.target] = IF @ = "none" THEN @ ELSE "owner"]
                     EXCEPT ![o.actor] = IF @ = "none" THEN @ ELSE "admin"]
      BY <1>1, <1>3 DEF RoleAfter, SetActive, Transferred, Departures
    <2>2. o.actor \in Accounts /\ o.target \in Accounts /\ o.actor # o.target
      BY <1>1, <1>3 DEF Kept
    <2>3. \A a \in Accounts : role'[a] = "none" <=> role[a] = "none"
      BY <1>1, <2>1, <2>2
    <2>4. ASSUME ~raced' PROVE Owners' = {o.target}
      <3>1. role[o.actor] = "owner" /\ role[o.target] # "none"
        BY <1>1, <1>3, <2>2, <2>4
        DEF Overtaken, Informed, Allowed, RoleChanges
      <3>2. Owners = {o.actor}
        BY <1>1, <2>2, <2>4, <3>1 DEF OwnerInv, OneOwner, Owners
      <3> QED BY <1>1, <2>1, <2>2, <3>1, <3>2 DEF Owners
    <2> QED
      BY <1>1, <2>1, <2>2, <2>3, <2>4 DEF OneOwner, Roles, Members
  <1>4. CASE o.kind \in {"admin", "member"}
    <2>1. role' = [role EXCEPT ![o.target] = IF @ = "none" THEN @ ELSE o.kind]
      BY <1>1, <1>4 DEF RoleAfter, SetActive, Departures
    <2>2. o.target \in Accounts /\ o.actor # o.target
      BY <1>1, <1>4 DEF Kept
    <2>3. \A a \in Accounts : role'[a] = "none" <=> role[a] = "none"
      BY <1>1, <1>4, <2>1, <2>2
    <2>4. ASSUME ~raced' PROVE Owners' = Owners
      <3>1. role[o.target] # "owner"
        BY <1>1, <1>4, <2>2, <2>4 DEF Overtaken, Informed, Allowed, RoleChanges
      <3> QED BY <1>1, <1>4, <2>1, <2>2, <3>1 DEF Owners
    <2> QED
      BY <1>1, <1>4, <2>1, <2>2, <2>3, <2>4 DEF OwnerInv, OneOwner, Roles, Members
  <1>5. CASE o.kind = "join"
    <2>1. role' = [role EXCEPT ![o.actor] = IF @ = "none" THEN "member" ELSE @]
      BY <1>1, <1>5 DEF RoleAfter, Departures
    <2>2. Owners' = Owners
      BY <1>1, <2>1 DEF Owners, Kept
    <2> QED
      BY <1>1, <1>5, <2>1, <2>2 DEF OwnerInv, OneOwner, Roles, Kept, RoleChanges
  <1> QED
    BY <1>1, <1>2, <1>3, <1>4, <1>5 DEF Kept, RoleChanges, o

\* A change of the members makes the lists old that are read and not yet cached.
LEMMA OutdateStep ==
  ASSUME OwnerInv, Outdate, op' \in [Handlers -> Entries],
         \A h \in Handlers : op[h].pc = "fill" => op'[h] = op[h],
         \A h \in Handlers : op[h].pc # "fill" => op'[h].pc # "fill"
  PROVE  /\ outdated' \subseteq {h \in Handlers : op'[h].pc = "fill"}
         /\ \A h \in Handlers : Fresh(h)'
  <1>1. outdated \subseteq {h \in Handlers : op[h].pc = "fill"}
    BY DEF OwnerInv, TypeOK
  <1>2. CASE Members' = Members
    BY <1>1, <1>2 DEF OwnerInv, Outdate, Fresh
  <1>3. CASE Members' # Members
    BY <1>3 DEF Outdate, Fresh
  <1> QED BY <1>2, <1>3

LEMMA CommitStep ==
  ASSUME OwnerInv, NEW h \in Handlers, Commit(h) \/ CommitLost(h)
  PROVE  OwnerInv' /\ (ListInv => ListInv')
  <1>1. /\ Write(h) /\ cache' = cache /\ op[h].pc = "commit"
        /\ op[h].kind \in Departures \cup RoleChanges \cup {"join"}
    BY DEF Commit, CommitLost, Write, OwnerInv, Informed, Kept
  <1>2. PICK pc \in {"idle", "publish", "delete"} :
          /\ op' = [op EXCEPT ![h] = [None EXCEPT !.pc = pc]]
          /\ pc = "idle" => CommitLost(h)
          /\ pc # "idle" => pc = AfterWrite(op[h].kind) /\ Commit(h)
    <2>1. CASE Commit(h)
      BY <2>1 DEF Commit, AfterWrite
    <2>2. CASE CommitLost(h)
      <3>1. None = [None EXCEPT !.pc = "idle"]
        BY DEF None
      <3> QED BY <2>2, <3>1 DEF CommitLost
    <2> QED BY <2>1, <2>2
  <1>3. DEFINE o == [None EXCEPT !.pc = pc]
  <1>4. o \in Entries /\ (o.pc = "idle" => o = None) /\ Informed(o, raced')
    BY DEF Entries, None, Roles, Informed
  <1>5. /\ op' \in [Handlers -> Entries]
        /\ \A g \in Handlers : /\ op'[g].pc = "idle" => op'[g] = None
                               /\ Informed(op'[g], raced')
    <2> HIDE DEF o
    <2> QED BY <1>2, <1>4, WriteStep, <1>1, EntryStep DEF o
  <1>6. stale' \in BOOLEAN
    BY DEF Commit, CommitLost, OwnerInv, TypeOK
  <1>7. OwnerInv'
    <2>1. /\ op \in [Handlers -> Entries] /\ op'[h].pc # "fill" /\ Outdate
          /\ \A g \in Handlers : g # h => op'[g] = op[g]
      BY <1>1, <1>2 DEF OwnerInv, TypeOK, Entries, Write, None
    <2>2. /\ outdated' \subseteq {g \in Handlers : op'[g].pc = "fill"}
          /\ \A g \in Handlers : Fresh(g)'
      BY <1>1, <1>5, <2>1, OutdateStep
    <2> QED BY <1>1, <1>5, <1>6, <2>2, WriteStep DEF OwnerInv, TypeOK, Entries
  <1>8. ASSUME ListInv
        PROVE  ListInv'
    <2>1. \A g \in Handlers : Discarding(g) => Discarding(g)'
      BY <1>1, <1>2 DEF Discarding, OwnerInv, TypeOK
    <2>2. CASE op[h].kind \in RoleChanges
      <3>1. Members' = Members
        BY <1>1, <2>2, WriteStep
      <3>2. stale => stale'
        BY DEF Commit, CommitLost
      <3> QED BY <1>1, <1>8, <2>1, <3>1, <3>2 DEF ListInv
    <2>3. CASE op[h].kind \notin RoleChanges /\ Commit(h)
      <3>1. Discarding(h)'
        BY <2>3 DEF Commit, AfterWrite, Discarding, None, OwnerInv, TypeOK
      <3> QED BY <3>1 DEF ListInv
    <2>4. CASE op[h].kind \notin RoleChanges /\ CommitLost(h)
      BY <1>8, <2>1, <2>4 DEF CommitLost, AfterWrite, ListInv
    <2> QED BY <2>2, <2>3, <2>4
  <1> QED BY <1>7, <1>8

\* A handler begins with an entry of its own.
Begun(h) == \E o \in Entries : /\ op' = [op EXCEPT ![h] = o]
                               /\ o.pc \notin {"idle", "fill"} /\ Informed(o, raced)

LEMMA BeginStep ==
  ASSUME OwnerInv, NEW h \in Handlers, NEW a \in Accounts, NEW t \in Accounts,
         \/ LeaveStart(h, a) \/ JoinStart(h, a) \/ RemoveStart(h, a, t)
         \/ \E kind \in RoleChanges : RoleStart(h, kind, a, t)
  PROVE  OwnerInv' /\ (ListInv => ListInv')
  <1>1. op[h] = None /\ UNCHANGED <<role, cache, raced, outdated, stale>>
    BY DEF LeaveStart, JoinStart, RemoveStart, RoleStart, historyVars
  <1>2. role[a] \in Roles
    BY DEF OwnerInv, TypeOK
  <1>3. Begun(h)
    <2>1. CASE LeaveStart(h, a)
      <3> DEFINE o == [None EXCEPT !.pc = IF role[a] = "owner" THEN "owners" ELSE "commit",
                                   !.kind = "leave", !.actor = a, !.target = a,
                                   !.own = role[a]]
      <3>1. op' = [op EXCEPT ![h] = o]
        BY <2>1 DEF LeaveStart, Begin
      <3>2. o \in Entries /\ o.pc \notin {"idle", "fill"} /\ Informed(o, raced)
        BY <1>2, <2>1
        DEF LeaveStart, Entries, None, Roles, Informed, Kept, Departures, RoleChanges
      <3> HIDE DEF o
      <3> QED BY <3>1, <3>2 DEF Begun
    <2>2. CASE JoinStart(h, a)
      <3> DEFINE o == [None EXCEPT !.pc = "commit", !.kind = "join", !.actor = a,
                                   !.target = a, !.own = role[a]]
      <3>1. op' = [op EXCEPT ![h] = o]
        BY <2>2 DEF JoinStart, Begin
      <3>2. o \in Entries /\ o.pc \notin {"idle", "fill"} /\ Informed(o, raced)
        BY <1>2 DEF Entries, None, Roles, Informed, Kept, Departures, RoleChanges
      <3> HIDE DEF o
      <3> QED BY <3>1, <3>2 DEF Begun
    <2>3. ASSUME NEW kind \in RoleChanges \cup {"remove"}, t # a,
                 kind \in RoleChanges => role[a] = "owner", Begin(h, kind, a, t, "target")
          PROVE  Begun(h)
      <3> DEFINE o == [None EXCEPT !.pc = "target", !.kind = kind, !.actor = a,
                                   !.target = t, !.own = role[a]]
      <3>1. op' = [op EXCEPT ![h] = o]
        BY <2>3 DEF Begin
      <3>2. o \in Entries /\ o.pc \notin {"idle", "fill"} /\ Informed(o, raced)
        BY <1>2, <2>3 DEF Entries, None, Roles, Informed, Kept, Departures, RoleChanges
      <3> HIDE DEF o
      <3> QED BY <3>1, <3>2 DEF Begun
    <2>4. CASE RemoveStart(h, a, t)
      BY <2>3, <2>4 DEF RemoveStart, RoleChanges
    <2>5. ASSUME NEW kind \in RoleChanges, RoleStart(h, kind, a, t)
          PROVE  Begun(h)
      BY <2>3, <2>5 DEF RoleStart
    <2> QED BY <2>1, <2>2, <2>4, <2>5
  <1>4. PICK o \in Entries : /\ op' = [op EXCEPT ![h] = o]
                             /\ o.pc \notin {"idle", "fill"} /\ Informed(o, raced)
    BY <1>3 DEF Begun
  <1>5. ~Discarding(h) /\ op[h].pc # "fill"
    BY <1>1 DEF Discarding, None
  <1> QED BY <1>1, <1>4, <1>5, ReadStep

LEMMA GoOnStep ==
  ASSUME OwnerInv, NEW h \in Handlers,
         \/ LeaveCount(h) \/ ReadTarget(h) \/ Abort(h) \/ PublishDone(h)
         \/ PublishRead(h) \/ UseRead(h)
  PROVE  OwnerInv' /\ (ListInv => ListInv')
  <1>1. /\ UNCHANGED <<role, cache, raced, outdated, stale>>
        /\ op[h] \in Entries /\ Informed(op[h], raced) /\ role \in [Accounts -> Roles]
    BY DEF OwnerInv, TypeOK, Entries, LeaveCount, ReadTarget, Abort, PublishDone,
           PublishRead, UseRead, historyVars
  <1>2. None \in Entries /\ Informed(None, raced) /\ None.pc = "idle"
    BY DEF Entries, None, Roles, Informed
  <1>3. ~Discarding(h) /\ op[h].pc # "fill"
    BY DEF Discarding, LeaveCount, ReadTarget, Abort, PublishDone, PublishRead, UseRead,
           None
  <1>4. CASE op' = [op EXCEPT ![h] = None]
    BY <1>1, <1>2, <1>3, <1>4, ReadStep
  <1>5. CASE LeaveCount(h) /\ AnotherOwner
    <2> DEFINE o == [op[h] EXCEPT !.pc = "commit"]
    <2>1. raced
      BY <1>5, CountOwner DEF AnotherOwner, OwnerInv
    <2>2. op' = [op EXCEPT ![h] = o]
      BY <1>5 DEF LeaveCount
    <2>3. o \in Entries /\ o.pc \notin {"idle", "fill"}
      BY <1>1 DEF Entries
    <2>4. Informed(o, raced)
      BY <1>1, <1>5, <2>1 DEF LeaveCount, Informed, Kept, Entries, RoleChanges, Departures
    <2> QED BY <1>1, <1>3, <2>2, <2>3, <2>4, ReadStep
  <1>6. CASE /\ ReadTarget(h)
             /\ Allowed(op[h].kind, op[h].own, role[op[h].target])
    <2> DEFINE o == [op[h] EXCEPT !.pc = "commit", !.seen = role[op[h].target]]
    <2>1. op' = [op EXCEPT ![h] = o]
      BY <1>6 DEF ReadTarget
    <2>2. Kept(op[h]) /\ op[h].kind \in RoleChanges \cup {"remove"} /\ op[h].pc = "target"
      BY <1>1, <1>6 DEF ReadTarget, Informed
    <2>3. o \in Entries /\ o.pc \notin {"idle", "fill"}
      BY <1>1, <2>2 DEF Entries, Kept
    <2>4. Informed(o, raced)
      BY <1>1, <1>6, <2>2 DEF Informed, Kept, Entries, RoleChanges
    <2> QED BY <1>1, <1>3, <2>1, <2>3, <2>4, ReadStep
  <1>7. CASE PublishRead(h) \/ UseRead(h)
    <2>1. PICK o \in {[op[h] EXCEPT !.pc = "fill", !.list = Members],
                      [None EXCEPT !.pc = "fill", !.list = Members]} :
            op' = [op EXCEPT ![h] = o]
      BY <1>7 DEF PublishRead, UseRead
    <2>2. o \in Entries /\ o.pc = "fill" /\ o.list = Members
      BY <1>1, <1>2, <2>1 DEF Entries, Members
    <2>3. Informed(o, raced)
      BY <2>2 DEF Informed
    <2> QED BY <1>1, <1>3, <2>1, <2>2, <2>3, ReadStep
  <1> QED
    BY <1>4, <1>5, <1>6, <1>7 DEF LeaveCount, ReadTarget, Abort, PublishDone, Answer

LEMMA CacheStep ==
  ASSUME OwnerInv, Evict \/ \E h \in Handlers : DiscardCache(h) \/ Fill(h)
  PROVE  OwnerInv' /\ (ListInv => ListInv')
  <1>1. /\ UNCHANGED <<role, raced>> /\ stale' \in BOOLEAN
        /\ cache' \in {NoCache} \cup SUBSET Accounts
    <2>1. op \in [Handlers -> Entries] /\ cache \in {NoCache} \cup SUBSET Accounts
      BY DEF OwnerInv, TypeOK, Entries
    <2>2. \A h \in Handlers : op[h].list \in SUBSET Accounts /\ (h \in outdated) \in BOOLEAN
      BY <2>1 DEF Entries
    <2> QED BY <2>2 DEF Evict, DiscardCache, Fill
  <1>2. CASE Evict
    BY <1>1, <1>2 DEF Evict, OwnerInv, OneOwner, Owners, TypeOK, ListInv, Fresh, Members
  <1>3. ASSUME NEW h \in Handlers, DiscardCache(h) \/ Fill(h)
        PROVE  OwnerInv' /\ (ListInv => ListInv')
    <2>1. op[h] \in Entries
      BY DEF OwnerInv, TypeOK, Entries
    <2>2. PICK o \in {[op[h] EXCEPT !.pc = "publish"], None} :
            op' = [op EXCEPT ![h] = o]
      BY <1>3 DEF DiscardCache, Fill, Answer
    <2>3. o \in Entries /\ (o.pc = "idle" => o = None) /\ Informed(o, raced')
      BY <2>1, <2>2 DEF Entries, None, Roles, Informed
    <2>4. /\ outdated' \subseteq {g \in Handlers : op'[g].pc = "fill"}
          /\ \A g \in Handlers : Fresh(g)'
      <3>1. op \in [Handlers -> Entries] /\ Members' = Members
        BY <1>1 DEF OwnerInv, TypeOK, Entries, Members
      <3>2. outdated' = outdated \ {h} /\ op'[h].pc # "fill"
        BY <1>3, <2>2, <3>1 DEF DiscardCache, Fill, OwnerInv, TypeOK, None
      <3> QED BY <2>2, <3>1, <3>2 DEF OwnerInv, TypeOK, Fresh
    <2>5. OwnerInv'
      BY <1>1, <2>2, <2>3, <2>4, EntryStep DEF OwnerInv, OneOwner, Owners, TypeOK, Entries
    <2>6. ListInv'
      <3>1. CASE DiscardCache(h)
        BY <3>1 DEF DiscardCache, ListInv
      <3>2. CASE Fill(h)
        BY <1>1, <3>2 DEF Fill, ListInv, Members, OwnerInv, Fresh
      <3> QED BY <1>3, <3>1, <3>2
    <2> QED BY <2>5, <2>6
  <1> QED BY <1>2, <1>3

LEMMA GroupStepKeeps ==
  ASSUME OwnerInv, [Next]_vars
  PROVE  OwnerInv' /\ (ListInv => ListInv')
  <1>1. CASE UNCHANGED vars
    BY <1>1 DEF vars, historyVars, OwnerInv, OneOwner, Owners, TypeOK, ListInv, Members,
                Discarding, Fresh
  <1>2. ASSUME NEW h \in Handlers, NEW a \in Accounts, NEW t \in Accounts,
               \/ LeaveStart(h, a) \/ JoinStart(h, a) \/ RemoveStart(h, a, t)
               \/ \E kind \in RoleChanges : RoleStart(h, kind, a, t)
        PROVE  OwnerInv' /\ (ListInv => ListInv')
    BY <1>2, BeginStep
  <1>3. ASSUME NEW h \in Handlers,
               \/ LeaveCount(h) \/ ReadTarget(h) \/ Abort(h) \/ PublishDone(h)
               \/ PublishRead(h) \/ UseRead(h)
        PROVE  OwnerInv' /\ (ListInv => ListInv')
    BY <1>3, GoOnStep
  <1>4. ASSUME NEW h \in Handlers, Commit(h) \/ CommitLost(h)
        PROVE  OwnerInv' /\ (ListInv => ListInv')
    BY <1>4, CommitStep
  <1>5. CASE Evict \/ \E h \in Handlers : DiscardCache(h) \/ Fill(h)
    BY <1>5, CacheStep
  <1> QED BY <1>1, <1>2, <1>3, <1>4, <1>5 DEF Next

LEMMA GroupInvariance == Spec => [](OwnerInv /\ ListInv)
  BY GroupInit, GroupStepKeeps, PTL DEF Spec

\* Leaving, removal, transfer and role changes keep exactly one owner, unless a handler
\* wrote by roles that had changed since it read them (group_members.go); and every
\* variable of the group keeps its type.
THEOREM OwnerIsKept == Spec => []OneOwnerUnlessRaced
  <1>1. OwnerInv => OneOwnerUnlessRaced
    BY CountOwner DEF OwnerInv, OneOwnerUnlessRaced
  <1> QED BY <1>1, GroupInvariance, PTL

\* The cached list that decides who sends and reads is that of the database, but for a
\* change still to discard it and the two known ways to leave an old one (cache.go).
THEOREM CacheIsFollowed == Spec => []CacheFollows
  <1>1. ListInv => CacheFollows
    BY DEF ListInv, CacheFollows, Discarding
  <1> QED BY <1>1, GroupInvariance, PTL

-----------------------------------------------------------------------------
(* Invitations and join requests.                                          *)

Records == [kind : Kinds, sender : Accounts, account : Accounts,
            status : {"pending", "accepted"} \cup Refusals]
Asks == [pc : {"idle", "find", "create", "add", "update"}, kind : Kinds,
         sender : Accounts \cup {NoAccount}, account : Accounts \cup {NoAccount},
         id : 0 .. MaxRequests, answer : {"pending", "accepted", "rejected"},
         entered : BOOLEAN]

\* What a handler of group_requests.go is about.
Asked(q) ==
  /\ q.pc \in {"find", "create"} => q.sender \in Accounts /\ q.account \in Accounts
  /\ q.pc = "add" => q.answer = "accepted"
  /\ q.pc = "update" => q.answer \in {"accepted", "rejected"}
  /\ q.entered => q.pc = "update" /\ q.answer = "accepted"

Adding(i) == {h \in Handlers : ask[h].pc = "add" /\ ask[h].id = i}
Accepting(h) == ask[h].pc = "update" /\ ask[h].answer = "accepted"
Updating(i) == {h \in Handlers : Accepting(h) /\ ask[h].id = i}

\* As long as a request is pending, who was admitted by it is accounted for: the handler
\* is about to update it, or has failed to.  Afterwards only those can come in for whom a
\* handler had read it before, and one handler is not among them: the one that ended it.
UsedOnce(i) ==
  /\ requests[i].status = "pending" =>
       late[i] = 0 /\ admitted[i] <= Cardinality(Updating(i)) + failures
  /\ requests[i].status # "pending" =>
       /\ admitted[i] + Cardinality(Adding(i)) <= Cardinality(Handlers) + failures
       /\ late[i] + Cardinality(Adding(i)) < Cardinality(Handlers)

\* An old list is as in ListInv, or an answer that made a member is about to discard it.
Entered(h) == ask[h].entered
EntryListInv == ListInv \/ \E h \in Handlers : Entered(h)

RequestInv ==
  /\ OwnerInv /\ RequestsTypeOK
  /\ \A h \in Handlers : Asked(ask[h])
  /\ FewPending
  /\ \A i \in Ids : UsedOnce(i)
  /\ \A i \in 1 .. MaxRequests : i > Len(requests) => admitted[i] = 0 /\ late[i] = 0
  /\ EntryListInv

LEMMA CountHandlers ==
  /\ Cardinality(Handlers) \in Nat \ {0}
  /\ \A S \in SUBSET Handlers :
       /\ Cardinality(S) \in Nat /\ Cardinality(S) <= Cardinality(Handlers)
       /\ S # Handlers => Cardinality(S) < Cardinality(Handlers)
       /\ \A h \in Handlers : /\ h \notin S => Cardinality(S \cup {h}) = Cardinality(S) + 1
                              /\ h \in S => Cardinality(S \ {h}) = Cardinality(S) - 1
       /\ \A T \in SUBSET Handlers : S \cap T = {} =>
            Cardinality(S) + Cardinality(T) <= Cardinality(Handlers)
  <1>1. \A S \in SUBSET Handlers :
          /\ IsFiniteSet(S) /\ Cardinality(S) \in Nat
          /\ Cardinality(S) <= Cardinality(Handlers)
          /\ S # Handlers => Cardinality(S) < Cardinality(Handlers)
    BY RequestsAssumption, FS_Subset, FS_CardinalityType
  <1>2. Cardinality(Handlers) # 0
    BY RequestsAssumption, FS_EmptySet
  <1>3. ASSUME NEW S \in SUBSET Handlers, NEW h \in Handlers
        PROVE  /\ h \notin S => Cardinality(S \cup {h}) = Cardinality(S) + 1
               /\ h \in S => Cardinality(S \ {h}) = Cardinality(S) - 1
    BY <1>1, FS_AddElement, FS_RemoveElement
  <1>4. ASSUME NEW S \in SUBSET Handlers, NEW T \in SUBSET Handlers, S \cap T = {}
        PROVE  Cardinality(S) + Cardinality(T) <= Cardinality(Handlers)
    <2>1. Cardinality(S \cup T) = Cardinality(S) + Cardinality(T) - Cardinality(S \cap T)
      BY <1>1, FS_Union
    <2>2. Cardinality(S \cup T) <= Cardinality(Handlers)
      BY <1>1
    <2> QED BY <1>1, <1>4, <2>1, <2>2, FS_EmptySet
  <1> QED BY <1>1, <1>2, <1>3, <1>4

LEMMA RequestsArray ==
  ASSUME RequestsTypeOK
  PROVE  /\ Len(requests) \in 0 .. MaxRequests /\ requests \in [Ids -> Records]
         /\ requests \in Seq(Records) /\ Ids \subseteq 1 .. MaxRequests
         /\ \A S \in SUBSET Ids : IsFiniteSet(S) /\ Cardinality(S) \in Nat
  <1>1. requests \in Seq(Records)
    BY DEF RequestsTypeOK, Records
  <1>2. Len(requests) \in Nat /\ requests \in [Ids -> Records]
    BY <1>1, LenProperties DEF Ids
  <1>3. Len(requests) \in 0 .. MaxRequests
    BY <1>2, RequestsAssumption DEF RequestsTypeOK
  <1>4. IsFiniteSet(Ids)
    BY <1>2, FS_Interval, 1 \in Int, Len(requests) \in Int DEF Ids
  <1>5. \A S \in SUBSET Ids : IsFiniteSet(S) /\ Cardinality(S) \in Nat
    BY <1>4, FS_Subset, FS_CardinalityType
  <1>6. Ids \subseteq 1 .. MaxRequests
    BY <1>3, RequestsAssumption DEF Ids
  <1> QED BY <1>1, <1>2, <1>3, <1>5, <1>6

\* A change of the status of one request.
LEMMA StatusStep ==
  ASSUME RequestsTypeOK, NEW i \in Ids, NEW st \in {"pending", "accepted"} \cup Refusals,
         requests' = [requests EXCEPT ![i].status = st]
  PROVE  /\ requests' \in Seq(Records) /\ Len(requests') = Len(requests)
         /\ \A j \in Ids : /\ requests'[j].kind = requests[j].kind
                           /\ requests'[j].account = requests[j].account
                           /\ requests'[j].status = IF j = i THEN st ELSE requests[j].status
  <1> DEFINE e == [requests[i] EXCEPT !.status = st]
  <1>1. requests \in Seq(Records) /\ requests[i] \in Records
    BY RequestsArray DEF RequestsTypeOK, Records
  <1>2. e \in Records /\ requests' = [requests EXCEPT ![i] = e]
    BY <1>1 DEF Records
  <1>3. i \in 1 .. Len(requests)
    BY DEF Ids
  <1>4. /\ requests' \in Seq(Records) /\ Len(requests') = Len(requests)
        /\ \A j \in 1 .. Len(requests) : requests'[j] = IF j = i THEN e ELSE requests[j]
    <2> HIDE DEF e
    <2> QED BY <1>1, <1>2, <1>3, ExceptSeq
  <1> QED BY <1>1, <1>4 DEF Ids, Records

LEMMA RequestInit == RequestsInit => RequestInv
  <1> SUFFICES ASSUME RequestsInit PROVE RequestInv
    OBVIOUS
  <1>1. OwnerInv /\ ListInv /\ TypeOK
    BY GroupInit DEF RequestsInit, OwnerInv
  <1>2. Ids = {} /\ requests \in Seq(Records) /\ Len(requests) = 0
    BY EmptySeq DEF RequestsInit, Ids
  <1>3. RequestsTypeOK
    BY <1>1, <1>2, RequestsAssumption
    DEF RequestsInit, RequestsTypeOK, Idle, Kinds, Refusals, Records
  <1>4. \A kind \in Kinds, a \in Accounts : PendingOf(kind, a) = {} /\ Creating(kind, a) = {}
    BY <1>2 DEF RequestsInit, PendingOf, Creating, Idle
  <1>5. FewPending
    BY <1>4, FS_EmptySet, CountHandlers DEF FewPending
  <1>6. \A h \in Handlers : Asked(ask[h])
    BY DEF RequestsInit, Asked, Idle
  <1> QED
    BY <1>1, <1>2, <1>3, <1>5, <1>6 DEF RequestsInit, RequestInv, EntryListInv

\* A handler changes its own entry only.
LEMMA AskStep ==
  ASSUME RequestInv, NEW h \in Handlers, NEW q \in Asks, Asked(q),
         ask' = [ask EXCEPT ![h] = q]
  PROVE  /\ ask' \in [Handlers -> Asks] /\ ask'[h] = q
         /\ \A g \in Handlers : Asked(ask'[g]) /\ (g # h => ask'[g] = ask[g])
  <1>1. ask \in [Handlers -> Asks]
    BY DEF RequestInv, RequestsTypeOK, Asks
  <1> QED BY <1>1 DEF RequestInv

LEMMA IdleAsks == Idle \in Asks /\ Asked(Idle) /\ Idle.pc = "idle"
  BY RequestsAssumption DEF Idle, Asks, Asked, Kinds

\* Fewer pending requests and fewer handlers about to create one.
LEMMA FewerPending ==
  ASSUME RequestInv, NEW kind \in Kinds, NEW a \in Accounts,
         PendingOf(kind, a)' \subseteq PendingOf(kind, a),
         Creating(kind, a)' \subseteq Creating(kind, a)
  PROVE  Cardinality(PendingOf(kind, a)') + Cardinality(Creating(kind, a)')
           <= Cardinality(Handlers)
  <1>1. PendingOf(kind, a) \in SUBSET Ids /\ Creating(kind, a) \in SUBSET Handlers
    BY DEF PendingOf, Creating
  <1>2. /\ IsFiniteSet(PendingOf(kind, a)) /\ Cardinality(PendingOf(kind, a)) \in Nat
        /\ Cardinality(PendingOf(kind, a)') \in Nat
    BY <1>1, RequestsArray DEF RequestInv
  <1>3. /\ IsFiniteSet(Creating(kind, a)) /\ Cardinality(Creating(kind, a)) \in Nat
        /\ Cardinality(Creating(kind, a)') \in Nat
    BY <1>1, CountHandlers, FS_Subset, RequestsAssumption
  <1>4. Cardinality(PendingOf(kind, a)') <= Cardinality(PendingOf(kind, a))
    BY <1>2, FS_Subset
  <1>5. Cardinality(Creating(kind, a)') <= Cardinality(Creating(kind, a))
    BY <1>3, FS_Subset
  <1>6. Cardinality(PendingOf(kind, a)) + Cardinality(Creating(kind, a))
           <= Cardinality(Handlers)
    BY DEF RequestInv, FewPending
  <1> QED BY <1>2, <1>3, <1>4, <1>5, <1>6, CountHandlers

\* A handler that looks up and reads: only its own entry changes.
LEMMA LookStep ==
  ASSUME RequestInv, NEW h \in Handlers, NEW q \in Asks, Asked(q), ~Accepting(h),
         ask' = [ask EXCEPT ![h] = q], op[h] = None \/ q = Idle,
         q.pc \in {"add", "update"} => q.id \in Ids /\ requests[q.id].status = "pending",
         q.pc = "create" => PendingOf(q.kind, q.account) = {},
         UNCHANGED <<vars, requests, answerHistory>>
  PROVE  RequestInv'
  <1>1. OwnerInv' /\ (ListInv => ListInv')
    BY GroupStepKeeps DEF RequestInv
  <1>2. /\ UNCHANGED <<role, cache, op, raced, stale, requests, admitted, late, failures>>
        /\ Ids' = Ids /\ OwnerInv
    BY DEF vars, historyVars, answerHistory, Ids, RequestInv
  <1>3. RequestsTypeOK'
    BY <1>1, <1>2, AskStep DEF RequestInv, RequestsTypeOK, OwnerInv, Asks
  <1>4. ASSUME NEW kind \in Kinds, NEW a \in Accounts
        PROVE  Cardinality(PendingOf(kind, a)') + Cardinality(Creating(kind, a)')
                 <= Cardinality(Handlers)
    <2>1. PendingOf(kind, a)' = PendingOf(kind, a)
      BY <1>2 DEF PendingOf
    <2>2. CASE q.pc = "create" /\ q.kind = kind /\ q.account = a
      <3>1. Cardinality(PendingOf(kind, a)') = 0
        BY <2>1, <2>2, FS_EmptySet
      <3>2. Creating(kind, a)' \in SUBSET Handlers
        BY DEF Creating
      <3> QED BY <3>1, <3>2, CountHandlers
    <2>3. CASE ~(q.pc = "create" /\ q.kind = kind /\ q.account = a)
      <3>1. Creating(kind, a)' \subseteq Creating(kind, a)
        BY <2>3, AskStep DEF Creating
      <3> QED BY <2>1, <3>1, FewerPending
    <2> QED BY <2>2, <2>3
  <1>5. ASSUME NEW i \in Ids
        PROVE  UsedOnce(i)'
    <2>1. i \in 1 .. MaxRequests
      BY RequestsArray DEF RequestInv
    <2>2. /\ Adding(i) \in SUBSET Handlers /\ Updating(i) \in SUBSET Handlers
          /\ Adding(i)' \in SUBSET Handlers /\ Updating(i)' \in SUBSET Handlers
      BY DEF Adding, Updating
    <2>3. Updating(i) \subseteq Updating(i)'
      BY <2>1, AskStep DEF Updating, Accepting
    <2>4. requests[i].status # "pending" => Adding(i)' \subseteq Adding(i)
      BY <2>1, AskStep DEF Adding
    <2>5. /\ Cardinality(Updating(i)) <= Cardinality(Updating(i)')
          /\ requests[i].status # "pending" =>
               Cardinality(Adding(i)') <= Cardinality(Adding(i))
      BY <2>2, <2>3, <2>4, FS_Subset, RequestsAssumption
    <2>6. /\ admitted[i] \in Nat /\ late[i] \in Nat /\ failures \in Nat
          /\ Cardinality(Handlers) \in Nat
      BY <2>1, CountHandlers, RequestsAssumption DEF RequestInv, RequestsTypeOK
    <2>7. /\ Cardinality(Adding(i)) \in Nat /\ Cardinality(Updating(i)) \in Nat
          /\ Cardinality(Adding(i)') \in Nat /\ Cardinality(Updating(i)') \in Nat
      BY <2>2, CountHandlers
    <2>8. UsedOnce(i)
      BY DEF RequestInv
    <2> QED BY <1>2, <2>5, <2>6, <2>7, <2>8 DEF UsedOnce
  <1>6. EntryListInv'
    <2>1. ~Entered(h)
      BY DEF RequestInv, Asked, Accepting, Entered
    <2> QED BY <1>1, <2>1, AskStep DEF RequestInv, EntryListInv, Entered
  <1> QED
    BY <1>1, <1>2, <1>3, <1>4, <1>5, <1>6, AskStep DEF RequestInv, FewPending

\* The search for a pending request, the reading of one, and a query that fails.
LEMMA SearchStep ==
  ASSUME RequestInv, NEW h \in Handlers, NEW kind \in Kinds, NEW sender \in Accounts,
         NEW a \in Accounts, Search(h, kind, sender, a)
  PROVE  RequestInv'
  <1> DEFINE q == [Idle EXCEPT !.pc = "find", !.kind = kind, !.sender = sender,
                               !.account = a]
  <1>1. q \in Asks /\ Asked(q) /\ q.pc = "find"
    <2>1. q \in [pc : {"find"}, kind : Kinds, sender : Accounts, account : Accounts,
                 id : {0}, answer : {"pending"}, entered : {FALSE}]
      BY DEF Idle
    <2>2. 0 \in 0 .. MaxRequests
      BY RequestsAssumption
    <2> HIDE DEF q
    <2> QED BY <2>1, <2>2 DEF Asks, Asked
  <1>2. ask' = [ask EXCEPT ![h] = q] /\ op[h] = None
    BY DEF Search, Free
  <1>3. ~Accepting(h) /\ UNCHANGED <<vars, requests, answerHistory>>
    BY DEF Search, Free, Idle, Accepting
  <1> HIDE DEF q
  <1> QED BY <1>1, <1>2, <1>3, LookStep

LEMMA FindStep ==
  ASSUME RequestInv, NEW h \in Handlers, FindPending(h) \/ AskFails(h)
  PROVE  RequestInv'
  <1>1. ask[h] \in Asks /\ Asked(ask[h]) /\ UNCHANGED <<vars, requests, answerHistory>>
    BY DEF FindPending, AskFails, RequestInv, RequestsTypeOK, Asks
  <1>2. ~Accepting(h)
    BY DEF FindPending, AskFails, Accepting
  <1>3. CASE ask' = [ask EXCEPT ![h] = Idle]
    BY <1>1, <1>2, <1>3, IdleAsks, LookStep
  <1>4. CASE FindPending(h) /\ ~Pending(ask[h].kind, ask[h].account)
    <2> DEFINE q == [ask[h] EXCEPT !.pc = "create"]
    <2>1. /\ q \in Asks /\ Asked(q) /\ q.pc = "create"
          /\ q.kind = ask[h].kind /\ q.account = ask[h].account
      BY <1>1, <1>4 DEF FindPending, Asks, Asked
    <2>2. ask' = [ask EXCEPT ![h] = q] /\ op[h] = None
      BY <1>4 DEF FindPending, RequestInv, RequestsTypeOK, Idle
    <2>3. PendingOf(ask[h].kind, ask[h].account) = {}
      BY <1>4 DEF Pending, PendingOf
    <2> HIDE DEF q
    <2> QED BY <1>1, <1>2, <2>1, <2>2, <2>3, LookStep
  <1> QED BY <1>3, <1>4 DEF FindPending, AskFails

LEMMA ReadRequestStep ==
  ASSUME RequestInv, NEW h \in Handlers, NEW a \in Accounts, NEW i \in Ids,
         NEW answer \in {"accepted", "rejected"}, ReadRequest(h, a, i, answer)
  PROVE  RequestInv'
  <1> DEFINE q == [Idle EXCEPT !.pc = IF answer = "accepted" THEN "add" ELSE "update",
                               !.id = i, !.answer = answer]
  <1>1. ask' = [ask EXCEPT ![h] = q] /\ op[h] = None /\ requests[i].status = "pending"
    BY DEF ReadRequest, Free, Answerable
  <1>2. UNCHANGED <<vars, requests, answerHistory>> /\ ~Accepting(h)
    BY DEF ReadRequest, Free, Idle, Accepting
  <1>3. i \in 0 .. MaxRequests
    BY RequestsArray, RequestsAssumption DEF RequestInv
  <1>4. q \in Asks /\ Asked(q) /\ q.id = i /\ q.pc # "create"
    BY <1>3 DEF Idle, Asks, Asked, Kinds
  <1> HIDE DEF q
  <1> QED BY <1>1, <1>2, <1>4, LookStep

\* Leaving, joining and the cached list, while requests are as they are.
LEMMA RestStep ==
  ASSUME RequestInv, Evict \/ \E h \in Handlers : GroupStep(h),
         UNCHANGED <<requests, ask, answerHistory>>
  PROVE  RequestInv'
  <1>1. Next
    BY DEF Next, GroupStep
  <1>2. OwnerInv' /\ (ListInv => ListInv')
    BY <1>1, GroupStepKeeps DEF RequestInv
  <1>3. UNCHANGED <<requests, ask, admitted, late, failures>> /\ Ids' = Ids
    BY DEF answerHistory, Ids
  <1>4. \A h \in Handlers : op'[h] = None \/ ask[h] = Idle
    <2>1. CASE Evict
      BY <2>1 DEF Evict, RequestInv, RequestsTypeOK
    <2>2. ASSUME NEW h \in Handlers, GroupStep(h)
          PROVE  ask[h] = Idle /\ \A g \in Handlers : g # h => op'[g] = op[g]
      <3>1. Free(h) \/ op[h].pc # "idle"
        BY <2>2
        DEF GroupStep, LeaveCount, Abort, Commit, CommitLost, Write, DiscardCache,
            PublishDone, PublishRead, Fill
      <3>2. ask[h] = Idle
        BY <3>1 DEF Free, RequestInv, RequestsTypeOK, None
      <3>3. \A g \in Handlers : g # h => op'[g] = op[g]
        <4>1. op \in [Handlers -> Entries]
          BY DEF RequestInv, OwnerInv, TypeOK, Entries
        <4> QED
          BY <2>2, <4>1
          DEF GroupStep, LeaveStart, JoinStart, Begin, LeaveCount, Abort, Commit,
              CommitLost, DiscardCache, PublishDone, PublishRead, Fill, UseRead, Answer
      <3> QED BY <3>2, <3>3
    <2> QED BY <2>1, <2>2 DEF RequestInv, RequestsTypeOK
  <1>5. RequestsTypeOK'
    BY <1>2, <1>3, <1>4 DEF RequestInv, RequestsTypeOK, OwnerInv
  <1>6. FewPending'
    BY <1>3 DEF RequestInv, FewPending, PendingOf, Creating
  <1>7. \A i \in Ids : UsedOnce(i)'
    BY <1>3 DEF RequestInv, UsedOnce, Adding, Updating, Accepting
  <1>8. EntryListInv'
    BY <1>2, <1>3 DEF RequestInv, EntryListInv, Entered
  <1> QED BY <1>2, <1>3, <1>5, <1>6, <1>7, <1>8 DEF RequestInv

\* A request is created: another pending one, and one handler less that creates one.
LEMMA CreateStep ==
  ASSUME RequestInv, NEW h \in Handlers, CreateRequest(h)
  PROVE  RequestInv'
  <1> DEFINE r == [kind |-> ask[h].kind, sender |-> ask[h].sender,
                   account |-> ask[h].account, status |-> "pending"]
             n == Len(requests) + 1
  <1>1. OwnerInv' /\ (ListInv => ListInv')
    BY GroupStepKeeps DEF RequestInv, CreateRequest
  <1>2. /\ UNCHANGED <<role, cache, op, raced, stale, admitted, late, failures>>
        /\ ask' = [ask EXCEPT ![h] = Idle] /\ ask[h].pc = "create"
    BY DEF CreateRequest, vars, historyVars, answerHistory
  <1>3. r \in Records
    <2>1. ask[h] \in Asks /\ Asked(ask[h])
      BY DEF RequestInv, RequestsTypeOK, Asks
    <2> QED BY <1>2, <2>1 DEF Records, Asks, Asked
  <1>4. /\ requests' \in Seq(Records) /\ Len(requests') = n /\ n \in 1 .. MaxRequests
        /\ requests'[n] = r /\ \A i \in Ids : requests'[i] = requests[i]
    <2>1. requests \in Seq(Records) /\ Len(requests) \in 0 .. MaxRequests
      BY RequestsArray DEF RequestInv
    <2>2. requests' = Append(requests, r) /\ Len(requests) < MaxRequests
      BY DEF CreateRequest
    <2> HIDE DEF r
    <2> QED BY <1>3, <2>1, <2>2, AppendProperties, RequestsAssumption DEF Ids
  <1>5. Ids' = Ids \cup {n} /\ n \notin Ids /\ Ids \subseteq 1 .. MaxRequests
    BY <1>4, RequestsArray DEF Ids, RequestInv
  <1>6. /\ requests'[n].kind = ask[h].kind /\ requests'[n].account = ask[h].account
         /\ requests'[n].status = "pending"
    <2>1. r.kind = ask[h].kind /\ r.account = ask[h].account /\ r.status = "pending"
      OBVIOUS
    <2> HIDE DEF r
    <2> QED BY <1>4, <2>1
  <1> HIDE DEF r, n
  <1>7. RequestsTypeOK'
    BY <1>1, <1>2, <1>4, <1>5, AskStep, IdleAsks
    DEF RequestInv, RequestsTypeOK, OwnerInv, Records, Asks
  <1>8. ASSUME NEW kind \in Kinds, NEW a \in Accounts
        PROVE  Cardinality(PendingOf(kind, a)') + Cardinality(Creating(kind, a)')
                 <= Cardinality(Handlers)
    <2>1. CASE ask[h].kind = kind /\ ask[h].account = a
      <3>1. PendingOf(kind, a)' = PendingOf(kind, a) \cup {n}
        BY <1>4, <1>5, <1>6, <2>1 DEF PendingOf
      <3>2. h \in Creating(kind, a) /\ Creating(kind, a)' = Creating(kind, a) \ {h}
        BY <1>2, <2>1, AskStep, IdleAsks DEF Creating
      <3>3. n \notin PendingOf(kind, a) /\ PendingOf(kind, a) \in SUBSET Ids
        BY <1>5 DEF PendingOf
      <3>4. /\ Cardinality(PendingOf(kind, a)) \in Nat
            /\ Cardinality(PendingOf(kind, a)') = Cardinality(PendingOf(kind, a)) + 1
        BY <3>1, <3>3, RequestsArray, FS_AddElement DEF RequestInv
      <3>5. Creating(kind, a) \in SUBSET Handlers
        BY DEF Creating
      <3>6. /\ Cardinality(Creating(kind, a)) \in Nat
            /\ Cardinality(Creating(kind, a)') = Cardinality(Creating(kind, a)) - 1
        BY <3>2, <3>5, CountHandlers
      <3>7. Cardinality(PendingOf(kind, a)) + Cardinality(Creating(kind, a))
              <= Cardinality(Handlers)
        BY DEF RequestInv, FewPending
      <3> QED BY <3>4, <3>6, <3>7, CountHandlers
    <2>2. CASE ~(ask[h].kind = kind /\ ask[h].account = a)
      <3>1. PendingOf(kind, a)' = PendingOf(kind, a)
        BY <1>4, <1>5, <1>6, <2>2 DEF PendingOf
      <3>2. Creating(kind, a)' \subseteq Creating(kind, a)
        BY <1>2, AskStep, IdleAsks DEF Creating
      <3> QED BY <3>1, <3>2, FewerPending
    <2> QED BY <2>1, <2>2
  <1>9. ASSUME NEW i \in Ids'
        PROVE  UsedOnce(i)'
    <2>1. Adding(i)' = Adding(i) /\ Updating(i)' = Updating(i)
      BY <1>2, AskStep, IdleAsks DEF Adding, Updating, Accepting
    <2>2. CASE i \in Ids
      <3>1. UsedOnce(i) /\ requests'[i] = requests[i]
        BY <1>4, <2>2 DEF RequestInv
      <3> QED BY <1>2, <2>1, <3>1 DEF UsedOnce
    <2>3. CASE i = n
      <3>1. requests'[i].status = "pending" /\ admitted[i] = 0 /\ late[i] = 0
        BY <1>4, <1>6, <2>3, RequestsArray DEF RequestInv, n
      <3>2. failures \in Nat /\ Updating(i) \in SUBSET Handlers
        BY RequestsAssumption DEF RequestInv, RequestsTypeOK, Updating
      <3>3. Cardinality(Updating(i)) \in Nat
        BY <3>2, CountHandlers
      <3> QED BY <1>2, <2>1, <3>1, <3>2, <3>3 DEF UsedOnce
    <2> QED BY <1>5, <2>2, <2>3
  <1>10. EntryListInv'
    <2>1. ~Entered(h)
      BY <1>2 DEF RequestInv, Asked, Entered
    <2> QED BY <1>1, <1>2, <2>1, AskStep, IdleAsks DEF RequestInv, EntryListInv, Entered
  <1>11. \A i \in 1 .. MaxRequests : i > Len(requests') => admitted'[i] = 0 /\ late'[i] = 0
    BY <1>2, <1>4, RequestsArray, RequestsAssumption DEF RequestInv, n
  <1> QED
    BY <1>1, <1>7, <1>8, <1>9, <1>10, <1>11, AskStep, IdleAsks, <1>2
    DEF RequestInv, FewPending

\* A request that gets its answer is pending no more, and whoever ended it does not admit.
LEMMA AnsweredStep ==
  ASSUME RequestInv, NEW h \in Handlers, NEW i \in Ids,
         NEW st \in {"accepted"} \cup Refusals,
         ask' = [ask EXCEPT ![h] = Idle], ask[h].pc # "add", Accepting(h) => ask[h].id = i,
         \/ requests' = [requests EXCEPT ![i].status = st]
         \/ requests' = requests /\ requests[i].status # "pending",
         UNCHANGED answerHistory
  PROVE  /\ requests' \in Seq(Records) /\ Len(requests') = Len(requests)
         /\ FewPending' /\ \A j \in Ids : UsedOnce(j)'
  <1>1. requests \in Seq(Records) /\ RequestsTypeOK
    BY RequestsArray DEF RequestInv
  <1>2. /\ requests' \in Seq(Records) /\ Len(requests') = Len(requests)
        /\ requests'[i].status # "pending"
        /\ \A j \in Ids :
             /\ requests'[j].kind = requests[j].kind
             /\ requests'[j].account = requests[j].account
             /\ j # i => requests'[j].status = requests[j].status
    BY <1>1, StatusStep DEF Refusals
  <1>3. FewPending'
    <2> SUFFICES ASSUME NEW kind \in Kinds, NEW a \in Accounts
                 PROVE  Cardinality(PendingOf(kind, a)') + Cardinality(Creating(kind, a)')
                          <= Cardinality(Handlers)
      BY DEF FewPending
    <2>1. PendingOf(kind, a)' \subseteq PendingOf(kind, a)
      BY <1>2 DEF PendingOf, Ids
    <2>2. Creating(kind, a)' \subseteq Creating(kind, a)
      BY AskStep, IdleAsks DEF Creating
    <2> QED BY <2>1, <2>2, FewerPending
  <1>4. ASSUME NEW j \in Ids
        PROVE  UsedOnce(j)'
    <2>1. UsedOnce(j) /\ UNCHANGED <<admitted, late, failures>> /\ j \in 1 .. MaxRequests
      BY <1>1, RequestsArray DEF RequestInv, answerHistory
    <2>2. /\ admitted[j] \in Nat /\ late[j] \in Nat /\ failures \in Nat
          /\ Cardinality(Handlers) \in Nat \ {0}
      BY <2>1, CountHandlers, RequestsAssumption DEF RequestInv, RequestsTypeOK
    <2>3. Adding(j)' = Adding(j) /\ h \notin Adding(j) /\ (j # i => Updating(j)' = Updating(j))
      BY AskStep, IdleAsks DEF Adding, Updating, Accepting
    <2>4. /\ Adding(j) \in SUBSET Handlers /\ Updating(j) \in SUBSET Handlers
          /\ Adding(j) \cap Updating(j) = {} /\ Adding(j) # Handlers
      BY <2>3 DEF Adding, Updating, Accepting
    <2>5. /\ Cardinality(Adding(j)) \in Nat /\ Cardinality(Updating(j)) \in Nat
          /\ Cardinality(Adding(j)) < Cardinality(Handlers)
          /\ Cardinality(Adding(j)) + Cardinality(Updating(j)) <= Cardinality(Handlers)
      BY <2>4, CountHandlers
    <2>6. CASE j = i
      <3>1. /\ admitted[j] + Cardinality(Adding(j)) <= Cardinality(Handlers) + failures
            /\ late[j] + Cardinality(Adding(j)) < Cardinality(Handlers)
        BY <2>1, <2>2, <2>5 DEF UsedOnce
      <3> QED BY <1>2, <2>1, <2>3, <2>6, <3>1 DEF UsedOnce
    <2>7. CASE j # i
      BY <1>2, <2>1, <2>3, <2>7 DEF UsedOnce
    <2> QED BY <2>6, <2>7
  <1> QED BY <1>2, <1>3, <1>4

LEMMA CancelStep ==
  ASSUME RequestInv, NEW h \in Handlers, NEW a \in Accounts, NEW i \in Ids, Cancel(h, a, i)
  PROVE  RequestInv'
  <1>1. OwnerInv' /\ (ListInv => ListInv')
    BY GroupStepKeeps DEF RequestInv, Cancel
  <1>2. /\ UNCHANGED <<role, cache, op, raced, stale, ask, admitted, late, failures>>
        /\ ask[h] = Idle /\ requests' = [requests EXCEPT ![i].status = "cancelled"]
    BY DEF Cancel, Free, vars, historyVars, answerHistory
  <1>3. ask' = [ask EXCEPT ![h] = Idle] /\ UNCHANGED answerHistory
    BY <1>2 DEF RequestInv, RequestsTypeOK, answerHistory
  <1>4. ask[h].pc # "add" /\ ~Accepting(h)
    BY <1>2 DEF Idle, Accepting
  <1>5. /\ requests' \in Seq(Records) /\ Len(requests') = Len(requests)
        /\ FewPending' /\ \A j \in Ids : UsedOnce(j)'
    BY <1>2, <1>3, <1>4, AnsweredStep DEF Refusals
  <1>6. RequestsTypeOK'
    BY <1>1, <1>2, <1>5 DEF RequestInv, RequestsTypeOK, OwnerInv, Ids, Records
  <1>7. EntryListInv'
    BY <1>1, <1>2 DEF RequestInv, EntryListInv, Entered
  <1> QED BY <1>1, <1>2, <1>5, <1>6, <1>7 DEF RequestInv, Ids

\* The UPDATE takes effect, and the cached list is about to be discarded or known to be old.
LEMMA UpdateStep ==
  ASSUME RequestInv, NEW h \in Handlers, UpdateRequest(h) \/ UpdateLost(h)
  PROVE  RequestInv'
  <1> DEFINE i == ask[h].id
  <1>1. /\ UNCHANGED <<role, cache, raced, outdated, admitted, late, failures>>
        /\ UNCHANGED answerHistory
        /\ ask[h].pc = "update" /\ ask' = [ask EXCEPT ![h] = Idle] /\ requests' = Updated(h)
        /\ OwnerInv /\ RequestsTypeOK
    BY DEF UpdateRequest, UpdateLost, answerHistory, historyVars, RequestInv
  <1>2. i \in Ids /\ ask[h].answer \in {"accepted"} \cup Refusals
    BY <1>1 DEF RequestInv, RequestsTypeOK, Asked, Refusals
  <1>3. PICK st \in {"accepted"} \cup Refusals :
          \/ requests' = [requests EXCEPT ![i].status = st]
          \/ requests' = requests /\ requests[i].status # "pending"
    <2>1. CASE requests[i].status = "pending"
      BY <1>1, <1>2, <2>1 DEF Updated
    <2>2. CASE requests[i].status # "pending"
      <3>1. requests' = [requests EXCEPT ![i].status = requests[i].status]
        BY <1>1, <2>2 DEF Updated
      <3>2. requests[i].status \in {"accepted"} \cup Refusals
        BY <1>1, <1>2, <2>2, RequestsArray DEF Records
      <3> QED BY <3>1, <3>2
    <2> QED BY <2>1, <2>2
  <1>4. /\ requests' \in Seq(Records) /\ Len(requests') = Len(requests)
        /\ FewPending' /\ \A j \in Ids : UsedOnce(j)'
    <2> HIDE DEF i
    <2>1. Accepting(h) => ask[h].id = i
      BY DEF i
    <2> QED BY <1>1, <1>2, <1>3, <2>1, AnsweredStep
  <1>5. op' \in [Handlers -> Entries] /\ (UpdateLost(h) => op' = op)
        /\ \A g \in Handlers : g # h => op'[g] = op[g]
    BY <1>1 DEF UpdateRequest, UpdateLost, ThenDiscard, None, Entries, Roles, OwnerInv,
                TypeOK
  <1>6. OwnerInv'
    <2>1. stale' \in BOOLEAN
      BY <1>1 DEF UpdateRequest, UpdateLost, Undiscarded, historyVars, OwnerInv, TypeOK
    <2>2. CASE op' = op
      BY <1>1, <2>1, <2>2 DEF OwnerInv, OneOwner, Owners, TypeOK, Fresh, Members
    <2>3. CASE UpdateRequest(h)
      <3> DEFINE o == ThenDiscard(h)
      <3>1. op' = [op EXCEPT ![h] = o]
        BY <2>3 DEF UpdateRequest
      <3>2. o \in Entries /\ o.pc # "idle" /\ Informed(o, raced')
        BY DEF ThenDiscard, None, Entries, Roles, Informed
      <3>3. o.pc # "fill" /\ op[h].pc # "fill"
        BY <1>1 DEF ThenDiscard, None, RequestsTypeOK, Idle
      <3> HIDE DEF o
      <3>4. /\ outdated' \subseteq {g \in Handlers : op'[g].pc = "fill"}
            /\ \A g \in Handlers : Fresh(g)'
        BY <1>1, <3>1, <3>3 DEF OwnerInv, TypeOK, Fresh, Members
      <3> QED BY <1>1, <2>1, <3>1, <3>2, <3>4, EntryStep
                 DEF OwnerInv, OneOwner, Owners, TypeOK, Entries
    <2> QED BY <1>5, <2>2, <2>3
  <1>7. RequestsTypeOK'
    <2>1. \A g \in Handlers : op'[g] = None \/ ask'[g] = Idle
      BY <1>1, <1>5, AskStep, IdleAsks DEF RequestsTypeOK
    <2> QED BY <1>1, <1>4, <1>6, <2>1, AskStep, IdleAsks
            DEF RequestsTypeOK, OwnerInv, Ids, Records, Asks
  <1>8. EntryListInv'
    <2>1. CASE UpdateRequest(h)
      <3>1. Discarding(h)'
        BY <1>1, <2>1 DEF UpdateRequest, ThenDiscard, None, Discarding, OwnerInv, TypeOK
      <3> QED BY <3>1 DEF EntryListInv, ListInv
    <2>2. CASE UpdateLost(h)
      <3>1. /\ op' = op /\ Members' = Members /\ cache' = cache
            /\ stale' = (stale \/ (Entered(h) /\ cache # NoCache))
        BY <1>1, <2>2 DEF UpdateLost, Undiscarded, Members, Entered
      <3>2. \A g \in Handlers : Entered(g) => g = h \/ Entered(g)'
        BY <1>1, AskStep, IdleAsks DEF Entered
      <3> QED BY <3>1, <3>2 DEF EntryListInv, ListInv, Discarding, RequestInv
    <2> QED BY <2>1, <2>2
  <1> QED
    BY <1>1, <1>4, <1>6, <1>7, <1>8, AskStep, IdleAsks DEF RequestInv, Ids

\* The account is added: it was none of the owners, and the request and the handler that
\* answers it account for the entry.
LEMMA AddRoles ==
  ASSUME RequestInv, NEW h \in Handlers, Add(h), stale' \in BOOLEAN
  PROVE  OwnerInv' /\ (Enters(h) \/ Members' = Members)
  <1>1. /\ OwnerInv /\ ask[h].id \in Ids /\ UNCHANGED <<cache, op, raced>>
        /\ role' = [role EXCEPT ![Candidate(h)] = IF Enters(h) THEN "member" ELSE @]
    BY DEF Add, RequestInv, RequestsTypeOK
  <1>2. Candidate(h) \in Accounts
    BY <1>1, RequestsArray DEF RequestInv, Candidate, Records
  <1>3. role \in [Accounts -> Roles] /\ role' \in [Accounts -> Roles]
    BY <1>1, <1>2 DEF OwnerInv, TypeOK, Roles
  <1>4. Owners' = Owners
    BY <1>1, <1>2, <1>3 DEF Owners, Enters
  <1>5. OwnerInv'
    <2>1. op \in [Handlers -> Entries] /\ Outdate
      BY <1>1 DEF OwnerInv, TypeOK, Entries, Add
    <2>2. /\ outdated' \subseteq {g \in Handlers : op'[g].pc = "fill"}
          /\ \A g \in Handlers : Fresh(g)'
      BY <1>1, <2>1, OutdateStep
    <2> QED BY <1>1, <1>3, <1>4, <2>2 DEF OwnerInv, TypeOK, OneOwner
  <1>6. ~Enters(h) => Members' = Members
    BY <1>1, <1>2, <1>3 DEF Members
  <1> QED BY <1>5, <1>6

LEMMA AddStep ==
  ASSUME RequestInv, NEW h \in Handlers, AddMember(h) \/ AddLost(h)
  PROVE  RequestInv'
  <1> DEFINE i == ask[h].id
             q == IF AddMember(h)
                  THEN [ask[h] EXCEPT !.pc = "update", !.entered = Enters(h)] ELSE Idle
  <1>1. /\ OwnerInv /\ RequestsTypeOK /\ Add(h) /\ UNCHANGED <<requests, cache, op>>
        /\ ask[h] \in Asks /\ ask[h].pc = "add" /\ ask[h].answer = "accepted"
        /\ i \in Ids /\ Ids \subseteq 1 .. MaxRequests /\ Ids' = Ids
    BY RequestsArray
    DEF AddMember, AddLost, Add, RequestInv, RequestsTypeOK, Asks, Asked, Ids
  <1>2. /\ ask' = [ask EXCEPT ![h] = q] /\ q \in Asks /\ Asked(q) /\ q.id \in {0, i}
        /\ q.pc \in {"idle", "update"} /\ (q.pc = "update" => q.id = i)
    <2>1. CASE AddMember(h)
      BY <1>1, <2>1 DEF AddMember, Asks, Asked, Enters
    <2>2. CASE ~AddMember(h)
      BY <2>2, IdleAsks DEF AddLost, StaysPending, Idle
    <2> QED BY <2>1, <2>2
  <1>3. /\ failures \in Nat /\ failures' \in 0 .. MaxFailures
        /\ IF AddMember(h) THEN /\ failures' = failures /\ stale' = stale
                                /\ q.pc = "update" /\ q.answer = "accepted" /\ q.id = i
                                /\ q.entered = Enters(h)
           ELSE /\ failures' = failures + 1 /\ q.pc = "idle"
                /\ stale' = (stale \/ (cache # NoCache /\ Enters(h)))
    BY <1>1, RequestsAssumption, IdleAsks
    DEF AddMember, AddLost, StaysPending, RequestsTypeOK, Asks
  <1> HIDE DEF q, i
  <1>4. OwnerInv' /\ (Enters(h) \/ Members' = Members)
    BY <1>1, <1>3, AddRoles DEF OwnerInv, TypeOK
  <1>5. /\ ask' \in [Handlers -> Asks] /\ ask'[h] = q
        /\ \A g \in Handlers : Asked(ask'[g]) /\ (g # h => ask'[g] = ask[g])
    BY <1>2, AskStep
  <1>6. /\ admitted' \in [1 .. MaxRequests -> Nat] /\ late' \in [1 .. MaxRequests -> Nat]
        /\ \A j \in 1 .. MaxRequests : j # i =>
             admitted'[j] = admitted[j] /\ late'[j] = late[j]
        /\ admitted'[i] \in {admitted[i], admitted[i] + 1}
        /\ late'[i] \in {late[i], late[i] + 1}
        /\ requests[i].status = "pending" => late'[i] = late[i]
    BY <1>1 DEF Add, RequestsTypeOK, i
  <1>7. RequestsTypeOK'
    <2>1. \A g \in Handlers : op'[g] = None \/ ask'[g] = Idle
      <3>1. op[h] = None
        BY <1>1 DEF RequestsTypeOK, Idle
      <3> QED BY <1>1, <1>5, <3>1 DEF RequestsTypeOK
    <2> QED BY <1>1, <1>2, <1>3, <1>4, <1>5, <1>6, <2>1
            DEF RequestsTypeOK, OwnerInv, Asks
  <1>8. FewPending'
    <2> SUFFICES ASSUME NEW kind \in Kinds, NEW a \in Accounts
                 PROVE  Cardinality(PendingOf(kind, a)') + Cardinality(Creating(kind, a)')
                          <= Cardinality(Handlers)
      BY DEF FewPending
    <2>1. PendingOf(kind, a)' = PendingOf(kind, a)
      BY <1>1 DEF PendingOf
    <2>2. Creating(kind, a)' \subseteq Creating(kind, a)
      BY <1>2, <1>5 DEF Creating
    <2> QED BY <2>1, <2>2, FewerPending
  <1>9. ASSUME NEW j \in Ids
        PROVE  UsedOnce(j)'
    <2>1. /\ UsedOnce(j) /\ j \in 1 .. MaxRequests /\ requests'[j] = requests[j]
          /\ admitted[j] \in Nat /\ late[j] \in Nat /\ Cardinality(Handlers) \in Nat
      BY <1>1, CountHandlers DEF RequestInv, RequestsTypeOK
    <2>2. Adding(j) \in SUBSET Handlers /\ Updating(j) \in SUBSET Handlers
      BY DEF Adding, Updating
    <2>3. Cardinality(Adding(j)) \in Nat /\ Cardinality(Updating(j)) \in Nat
      BY <2>2, CountHandlers
    <2>4. CASE j # i
      <3>1. Adding(j)' = Adding(j)
        BY <1>1, <1>2, <1>5, <2>4 DEF Adding, i
      <3>2. Updating(j)' = Updating(j)
        BY <1>1, <1>2, <1>5, <2>4 DEF Updating, Accepting
      <3>3. failures \in Nat /\ failures' \in Nat /\ failures <= failures'
        BY <1>3, RequestsAssumption
      <3>4. admitted'[j] = admitted[j] /\ late'[j] = late[j]
        BY <1>6, <2>1, <2>4
      <3>5. CASE requests[j].status = "pending"
        BY <2>1, <2>3, <3>2, <3>3, <3>4, <3>5 DEF UsedOnce
      <3>6. CASE requests[j].status # "pending"
        BY <2>1, <2>3, <3>1, <3>3, <3>4, <3>6 DEF UsedOnce
      <3> QED BY <3>5, <3>6
    <2>5. CASE j = i
      <3>1. h \in Adding(j) /\ Adding(j)' = Adding(j) \ {h}
        BY <1>1, <1>2, <1>5, <2>5 DEF Adding, i
      <3>2. /\ h \notin Updating(j)
            /\ Updating(j)' = IF AddMember(h) THEN Updating(j) \cup {h} ELSE Updating(j)
        BY <1>1, <1>3, <1>5, <2>5 DEF Updating, Accepting
      <3>3. /\ Cardinality(Adding(j)') = Cardinality(Adding(j)) - 1
            /\ Cardinality(Updating(j)') =
                 IF AddMember(h) THEN Cardinality(Updating(j)) + 1
                 ELSE Cardinality(Updating(j))
        BY <2>2, <3>1, <3>2, CountHandlers
      <3>4. /\ admitted'[j] \in {admitted[j], admitted[j] + 1}
            /\ late'[j] \in {late[j], late[j] + 1}
            /\ requests[j].status = "pending" => late'[j] = late[j]
        BY <1>6, <2>5
      <3>5. CASE requests[j].status = "pending"
        BY <1>3, <2>1, <2>3, <3>3, <3>4, <3>5 DEF UsedOnce
      <3>6. CASE requests[j].status # "pending"
        BY <1>3, <2>1, <2>3, <3>3, <3>4, <3>6 DEF UsedOnce
      <3> QED BY <3>5, <3>6
    <2> QED BY <2>4, <2>5
  <1>10. \A j \in 1 .. MaxRequests : j > Len(requests') => admitted'[j] = 0 /\ late'[j] = 0
    BY <1>1, <1>6, RequestsArray DEF RequestInv, Ids
  <1>11. EntryListInv'
    <2>1. ~Entered(h) /\ (\A g \in Handlers : Entered(g) => Entered(g)')
      BY <1>1, <1>5 DEF Entered, RequestInv, Asked
    <2>2. CASE Enters(h) /\ AddMember(h)
      <3>1. Entered(h)'
        BY <1>3, <1>5, <2>2 DEF Entered
      <3> QED BY <3>1 DEF EntryListInv
    <2>3. CASE Enters(h) /\ ~AddMember(h)
      BY <1>1, <1>3, <2>3 DEF EntryListInv, ListInv
    <2>4. CASE ~Enters(h)
      BY <1>1, <1>3, <1>4, <2>1, <2>4 DEF RequestInv, EntryListInv, ListInv, Discarding
    <2> QED BY <2>2, <2>3, <2>4
  <1> QED
    BY <1>1, <1>4, <1>5, <1>7, <1>8, <1>9, <1>10, <1>11 DEF RequestInv

\* The UPDATE fails: the request stays as it is, and the failure is counted.
LEMMA UpdateFailsStep ==
  ASSUME RequestInv, NEW h \in Handlers, UpdateFails(h)
  PROVE  RequestInv'
  <1>1. /\ OwnerInv /\ RequestsTypeOK /\ Ids' = Ids /\ Ids \subseteq 1 .. MaxRequests
        /\ UNCHANGED <<role, cache, op, raced, outdated, requests, admitted, late>>
        /\ ask' = [ask EXCEPT ![h] = Idle] /\ ask[h].pc = "update"
        /\ failures \in Nat /\ failures' = failures + 1 /\ failures' \in 0 .. MaxFailures
        /\ stale' = (stale \/ (Entered(h) /\ cache # NoCache))
    BY RequestsArray, RequestsAssumption
    DEF UpdateFails, StaysPending, Undiscarded, RequestInv, RequestsTypeOK, Ids, Entered
  <1>2. /\ ask' \in [Handlers -> Asks] /\ ask'[h] = Idle
        /\ \A g \in Handlers : Asked(ask'[g]) /\ (g # h => ask'[g] = ask[g])
    BY <1>1, AskStep, IdleAsks
  <1>3. OwnerInv' /\ Members' = Members
    BY <1>1 DEF OwnerInv, OneOwner, Owners, TypeOK, Members, Fresh
  <1>4. RequestsTypeOK'
    <2>1. \A g \in Handlers : op'[g] = None \/ ask'[g] = Idle
      BY <1>1, <1>2 DEF RequestsTypeOK
    <2> QED BY <1>1, <1>2, <1>3, <2>1, IdleAsks DEF RequestsTypeOK, OwnerInv, Asks
  <1>5. FewPending'
    <2> SUFFICES ASSUME NEW kind \in Kinds, NEW a \in Accounts
                 PROVE  Cardinality(PendingOf(kind, a)') + Cardinality(Creating(kind, a)')
                          <= Cardinality(Handlers)
      BY DEF FewPending
    <2>1. PendingOf(kind, a)' = PendingOf(kind, a)
      BY <1>1 DEF PendingOf
    <2>2. Creating(kind, a)' \subseteq Creating(kind, a)
      BY <1>2, IdleAsks DEF Creating
    <2> QED BY <2>1, <2>2, FewerPending
  <1>6. ASSUME NEW j \in Ids
        PROVE  UsedOnce(j)'
    <2>1. /\ UsedOnce(j) /\ j \in 1 .. MaxRequests /\ requests'[j] = requests[j]
          /\ admitted[j] \in Nat /\ late[j] \in Nat /\ Cardinality(Handlers) \in Nat
      BY <1>1, CountHandlers DEF RequestInv, RequestsTypeOK
    <2>2. Adding(j) \in SUBSET Handlers /\ Updating(j) \in SUBSET Handlers
      BY DEF Adding, Updating
    <2>3. /\ Adding(j)' = Adding(j)
          /\ \/ Updating(j)' = Updating(j)
             \/ h \in Updating(j) /\ Updating(j)' = Updating(j) \ {h}
      BY <1>1, <1>2, IdleAsks DEF Adding, Updating, Accepting
    <2>4. /\ Cardinality(Adding(j)) \in Nat /\ Cardinality(Updating(j)) \in Nat
          /\ Cardinality(Updating(j) \ {h}) \in Nat
          /\ h \in Updating(j) =>
               Cardinality(Updating(j) \ {h}) = Cardinality(Updating(j)) - 1
      BY <2>2, CountHandlers
    <2>5. /\ Cardinality(Updating(j)') \in Nat
          /\ Cardinality(Updating(j)') >= Cardinality(Updating(j)) - 1
      <3>1. CASE Updating(j)' = Updating(j)
        BY <2>4, <3>1
      <3>2. CASE h \in Updating(j) /\ Updating(j)' = Updating(j) \ {h}
        BY <2>4, <3>2
      <3> QED BY <2>3, <3>1, <3>2
    <2> QED BY <1>1, <2>1, <2>3, <2>4, <2>5 DEF UsedOnce
  <1>7. EntryListInv'
    <2>1. \A g \in Handlers : Entered(g) => g = h \/ Entered(g)'
      BY <1>2 DEF Entered
    <2> QED
      BY <1>1, <1>3, <2>1 DEF RequestInv, EntryListInv, ListInv, Discarding
  <1> QED BY <1>1, <1>2, <1>3, <1>4, <1>5, <1>6, <1>7 DEF RequestInv

LEMMA RequestStepKeeps ==
  ASSUME RequestInv, [RequestsNext]_requestVars
  PROVE  RequestInv'
  <1>1. CASE UNCHANGED requestVars
    <2>1. OwnerInv' /\ (ListInv => ListInv')
      BY <1>1, GroupStepKeeps DEF RequestInv, requestVars
    <2>2. UNCHANGED <<op, requests, ask, admitted, late, failures>> /\ Ids' = Ids
      BY <1>1 DEF requestVars, vars, answerHistory, Ids
    <2>3. RequestsTypeOK'
      BY <2>1, <2>2 DEF RequestInv, RequestsTypeOK, OwnerInv
    <2>4. FewPending'
      BY <2>2 DEF RequestInv, FewPending, PendingOf, Creating
    <2>5. \A i \in Ids : UsedOnce(i)'
      BY <2>2 DEF RequestInv, UsedOnce, Adding, Updating, Accepting
    <2>6. EntryListInv'
      BY <2>1, <2>2 DEF RequestInv, EntryListInv, Entered
    <2> QED BY <2>1, <2>2, <2>3, <2>4, <2>5, <2>6 DEF RequestInv
  <1>2. ASSUME NEW h \in Handlers, NEW a \in Accounts, NEW t \in Accounts,
               JoinRequestStart(h, a) \/ InviteStart(h, a, t)
        PROVE  RequestInv'
    BY <1>2, SearchStep DEF JoinRequestStart, InviteStart, Kinds
  <1>3. ASSUME NEW h \in Handlers, NEW a \in Accounts, NEW i \in Ids,
               \/ Cancel(h, a, i)
               \/ \E answer \in {"accepted", "rejected"} : ReadRequest(h, a, i, answer)
        PROVE  RequestInv'
    BY <1>3, CancelStep, ReadRequestStep
  <1>4. ASSUME NEW h \in Handlers,
               \/ FindPending(h) \/ CreateRequest(h) \/ AskFails(h)
               \/ AddMember(h) \/ AddLost(h)
               \/ UpdateRequest(h) \/ UpdateFails(h) \/ UpdateLost(h)
        PROVE  RequestInv'
    BY <1>4, FindStep, CreateStep, AddStep, UpdateStep, UpdateFailsStep
  <1>5. CASE /\ Evict \/ \E h \in Handlers : GroupStep(h)
             /\ UNCHANGED <<requests, ask, answerHistory>>
    BY <1>5, RestStep
  <1> QED BY <1>1, <1>2, <1>3, <1>4, <1>5 DEF RequestsNext

LEMMA RequestInvariance == RequestsSpec => []RequestInv
  BY RequestInit, RequestStepKeeps, PTL DEF RequestsSpec

\* A pending request is found again: only handlers that looked at the same time create
\* more than one, whatever is answered, cancelled and lost meanwhile (group_requests.go).
THEOREM RequestsAreFound == RequestsSpec => []FewPending
  <1>1. RequestInv => FewPending
    BY DEF RequestInv
  <1> QED BY <1>1, RequestInvariance, PTL

\* A request is good for one entry, but for answers that overlap or fail halfway, and
\* lets nobody in once it was rejected, cancelled or used, but for answers under way.
THEOREM RequestsAdmitOnce == RequestsSpec => []AdmissionsBounded
  <1>1. ASSUME RequestInv
        PROVE  AdmissionsBounded
    <2>1. ASSUME NEW i \in Ids
          PROVE  /\ admitted[i] <= Cardinality(Handlers) + failures
                 /\ late[i] < Cardinality(Handlers)
      <3>1. /\ UsedOnce(i) /\ i \in 1 .. MaxRequests /\ admitted[i] \in Nat
            /\ late[i] \in Nat /\ failures \in Nat
        BY <1>1, RequestsArray, RequestsAssumption DEF RequestInv, RequestsTypeOK
      <3>2. Adding(i) \in SUBSET Handlers /\ Updating(i) \in SUBSET Handlers
        BY DEF Adding, Updating
      <3>3. /\ Cardinality(Handlers) \in Nat \ {0} /\ Cardinality(Adding(i)) \in Nat
            /\ Cardinality(Updating(i)) \in Nat
            /\ Cardinality(Updating(i)) <= Cardinality(Handlers)
        BY <3>2, CountHandlers
      <3> QED BY <3>1, <3>3 DEF UsedOnce
    <2> QED BY <1>1, <2>1 DEF RequestInv, AdmissionsBounded
  <1> QED BY <1>1, RequestInvariance, PTL

\* An entry by a request discards the cached list like every other change of the members,
\* so the list that decides who sends and reads stays that of the database.
THEOREM EntriesAreFollowed == RequestsSpec => []CacheFollowsEntries
  <1>1. RequestInv => CacheFollowsEntries
    BY DEF RequestInv, EntryListInv, ListInv, Discarding, Entered, CacheFollowsEntries,
           CacheFollows
  <1> QED BY <1>1, RequestInvariance, PTL

=============================================================================
