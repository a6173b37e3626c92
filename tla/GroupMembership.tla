--------------------------- MODULE GroupMembership ---------------------------
(***************************************************************************)
(* The members of one group: their roles in the database, the copy of the  *)
(* member list in the memberCache, and the handlers that change or use     *)
(* them.  Handlers run concurrently; a step is one database query, which   *)
(* is one transaction, or one access to the cache.                         *)
(*                                                                         *)
(* Not here: invitations and join requests (GroupRequests), which end in   *)
(* the same addMember as joinGroup, and the event of publishConversation.  *)
(***************************************************************************)
EXTENDS Integers, FiniteSets

CONSTANTS Accounts, Founder,
          Handlers             \* the requests that may run at the same time

ASSUME FounderAssumption == Founder \in Accounts /\ IsFiniteSet(Accounts)

VARIABLES
  role,       \* conversation_member: the role of an active member
  cache,      \* RAM: the member list of the group, or NoCache
  op,         \* what each handler does and has read
  raced,      \* history: a handler acted on roles that were no longer those it read
  outdated,   \* history: the handlers with a list read before the members changed
  stale       \* history: such a list was cached, or a cached one not discarded after a change

vars == <<role, cache, op, raced, outdated, stale>>
historyVars == <<raced, outdated, stale>>

Roles == {"none", "member", "admin", "owner"}
Departures == {"leave", "remove"}
RoleChanges == {"transfer", "admin", "member"}  \* ownership, changeGroupRole's input
NoAccount == "nobody"
NoCache == {NoAccount}
None == [pc |-> "idle", kind |-> "none", actor |-> NoAccount, target |-> NoAccount,
         own |-> "none", seen |-> "none", list |-> {}]

Members == {a \in Accounts : role[a] # "none"}
Owners == {a \in Accounts : role[a] = "owner"}

\* The types; and a handler that has ended is no longer about anything.
TypeOK ==
  /\ role \in [Accounts -> Roles]
  /\ cache \in {NoCache} \cup SUBSET Accounts
  /\ op \in [Handlers ->
       [pc : {"idle", "owners", "target", "commit", "delete", "publish", "fill"},
        kind : Departures \cup RoleChanges \cup {"join", "none"},
        actor : Accounts \cup {NoAccount}, target : Accounts \cup {NoAccount},
        own : Roles, seen : Roles, list : SUBSET Accounts]]
  /\ \A h \in Handlers : op[h].pc = "idle" => op[h] = None
  /\ outdated \subseteq {h \in Handlers : op[h].pc = "fill"}
  /\ raced \in BOOLEAN /\ stale \in BOOLEAN

\* createGroup has answered.
Init ==
  /\ role = [a \in Accounts |-> IF a = Founder THEN "owner" ELSE "none"]
  /\ cache = {Founder}
  /\ op = [h \in Handlers |-> None]
  /\ raced = FALSE /\ outdated = {} /\ stale = FALSE

-----------------------------------------------------------------------------
(* What a handler reads before it acts.  A failed query ends it: Abort.    *)

Begin(h, kind, a, t, pc) ==
  op' = [op EXCEPT ![h] = [None EXCEPT !.pc = pc, !.kind = kind, !.actor = a,
                                       !.target = t, !.own = role[a]]]

\* groupRole: the actor is a member, and what the operation asks for.
LeaveStart(h, a) ==
  /\ op[h] = None
  /\ role[a] # "none"
  /\ Begin(h, "leave", a, a, IF role[a] = "owner" THEN "owners" ELSE "commit")
  /\ UNCHANGED <<role, cache, historyVars>>

RemoveStart(h, a, t) ==
  /\ op[h] = None
  /\ role[a] \in {"owner", "admin"} /\ t # a
  /\ Begin(h, "remove", a, t, "target")
  /\ UNCHANGED <<role, cache, historyVars>>

\* transferGroupOwnership and changeGroupRole
RoleStart(h, kind, a, t) ==
  /\ op[h] = None
  /\ role[a] = "owner" /\ t # a
  /\ Begin(h, kind, a, t, "target")
  /\ UNCHANGED <<role, cache, historyVars>>

\* joinGroup of an account that is no member: the group is open, or the password is
\* right.  The role is looked up before, and again inside addMember.
JoinStart(h, a) ==
  /\ op[h] = None
  /\ role[a] = "none"
  /\ Begin(h, "join", a, a, "commit")
  /\ UNCHANGED <<role, cache, historyVars>>

\* leaveGroup: an owner may leave when there is another.
AnotherOwner == Cardinality(Owners) > 1

\* A failed count of the owners counts none: 409, as without another owner.
LeaveCount(h) ==
  /\ op[h].pc = "owners"
  /\ op' = [op EXCEPT ![h] = IF AnotherOwner THEN [@ EXCEPT !.pc = "commit"] ELSE None]
  /\ UNCHANGED <<role, cache, historyVars>>

\* The role of the target decides: not a member (404), or protected (403).
Allowed(kind, own, seen) ==
  /\ seen # "none"
  /\ kind = "remove" => seen # "owner" /\ ~(own = "admin" /\ seen = "admin")
  /\ kind \in {"admin", "member"} => seen # "owner"

ReadTarget(h) ==
  LET seen == role[op[h].target]
  IN /\ op[h].pc = "target"
     /\ op' = [op EXCEPT ![h] = IF Allowed(@.kind, @.own, seen)
                                THEN [@ EXCEPT !.pc = "commit", !.seen = seen]
                                ELSE None]
     /\ UNCHANGED <<role, cache, historyVars>>

\* A query fails before it takes effect, or the request is refused after all.
Abort(h) ==
  /\ op[h].pc \in {"owners", "target", "commit"}
  /\ op' = [op EXCEPT ![h] = None]
  /\ UNCHANGED <<role, cache, historyVars>>

-----------------------------------------------------------------------------
(* What it writes: an UPDATE changes the rows of active members only.      *)

SetActive(f, a, r) == [f EXCEPT ![a] = IF @ = "none" THEN @ ELSE r]

\* Faulty: the old owner stays one.
TransferOnly(o) == SetActive(role, o.target, "owner")
\* The target becomes owner, then the actor admin, in one transaction.
Transferred(o) == SetActive(SetActive(role, o.target, "owner"), o.actor, "admin")

RoleAfter(o) ==
  CASE o.kind \in Departures -> SetActive(role, o.target, "none")
    [] o.kind = "transfer" -> Transferred(o)
    [] o.kind \in {"admin", "member"} -> SetActive(role, o.target, o.kind)
    [] o.kind = "join" ->
         [role EXCEPT ![o.actor] = IF @ = "none" THEN "member" ELSE @]

\* The roles it decided by have changed since.
Overtaken(o) ==
  /\ o.kind # "join"
  /\ \/ role[o.actor] # o.own
     \/ o.target # o.actor /\ role[o.target] # o.seen

\* Faulty: leaving does not discard the cached list.
AfterWriteKept(kind) == IF kind \in RoleChanges \cup {"leave"} THEN "publish" ELSE "delete"
\* s.members.Delete follows, for what changes the members and not only their roles.
AfterWrite(kind) == IF kind \in RoleChanges THEN "publish" ELSE "delete"

\* The members change: the lists that handlers have read and not cached yet are old.
Outdate ==
  outdated' = IF Members' = Members THEN outdated
              ELSE {h \in Handlers : op[h].pc = "fill"}

Write(h) ==
  /\ op[h].pc = "commit"
  /\ role' = RoleAfter(op[h])
  /\ raced' = (raced \/ Overtaken(op[h]))
  /\ Outdate

Commit(h) ==
  /\ Write(h)
  /\ op' = [op EXCEPT ![h] =
       [None EXCEPT !.pc = AfterWrite(op[h].kind)]]
  /\ UNCHANGED <<cache, stale>>

\* The answer of the query is lost: 500, and the cached list stays.
CommitLost(h) ==
  /\ Write(h)
  /\ op' = [op EXCEPT ![h] = None]
  /\ stale' = (stale \/ (cache # NoCache /\ AfterWrite(op[h].kind) = "delete"))
  /\ UNCHANGED cache

-----------------------------------------------------------------------------
(* The cached list.                                                        *)

DiscardCache(h) ==
  /\ op[h].pc = "delete"
  /\ cache' = NoCache
  /\ stale' = FALSE
  /\ op' = [op EXCEPT ![h].pc = "publish"]
  /\ UNCHANGED <<role, raced, outdated>>

\* The handler answers.
Answer(h) == op' = [op EXCEPT ![h] = None]

\* publishConversation finds the list in the cache, or its query fails.
PublishDone(h) ==
  /\ op[h].pc = "publish"
  /\ Answer(h)
  /\ UNCHANGED <<role, cache, historyVars>>

\* publishConversation finds no list and reads one from the database.
PublishRead(h) ==
  /\ op[h].pc = "publish"
  /\ cache = NoCache
  /\ op' = [op EXCEPT ![h].pc = "fill", ![h].list = Members]
  /\ UNCHANGED <<role, cache, historyVars>>

\* getMembersCached, for sendMessage and listMessages: a cached list decides as it
\* is, which changes nothing; without one the handler reads the database.
UseRead(h) ==
  /\ op[h] = None
  /\ cache = NoCache
  /\ op' = [op EXCEPT ![h] = [None EXCEPT !.pc = "fill", !.list = Members]]
  /\ UNCHANGED <<role, cache, historyVars>>

\* s.members.Set with the list read before.
Fill(h) ==
  /\ op[h].pc = "fill"
  /\ cache' = op[h].list
  /\ stale' = (h \in outdated)
  /\ outdated' = outdated \ {h}
  /\ Answer(h)
  /\ UNCHANGED <<role, raced>>

\* The cache evicts the list for another conversation's.
Evict ==
  /\ cache # NoCache
  /\ cache' = NoCache
  /\ stale' = FALSE
  /\ UNCHANGED <<role, op, raced, outdated>>

Next ==
  \/ \E h \in Handlers :
       \/ \E a \in Accounts :
            \/ LeaveStart(h, a) \/ JoinStart(h, a)
            \/ \E t \in Accounts :
                 \/ RemoveStart(h, a, t)
                 \/ \E kind \in RoleChanges : RoleStart(h, kind, a, t)
       \/ LeaveCount(h) \/ ReadTarget(h) \/ Abort(h)
       \/ Commit(h) \/ CommitLost(h)
       \/ DiscardCache(h) \/ PublishDone(h) \/ PublishRead(h)
       \/ UseRead(h) \/ Fill(h)
  \/ Evict

Spec == Init /\ [][Next]_vars

-----------------------------------------------------------------------------
(* Properties.                                                             *)

\* The group has exactly one owner, unless a handler acted on roles that had changed
\* since it read them: only the reads outside the transactions endanger the owner.
\* (With the types of the variables.)
OneOwnerUnlessRaced == TypeOK /\ (~raced => Cardinality(Owners) = 1)

\* The cached list is the members of the database, but for a change still to discard
\* it, and for the two ways the code has to leave an old list behind.
CacheFollows ==
  (cache # NoCache /\ ~stale /\ \A h \in Handlers : op[h].pc # "delete")
    => cache = Members

\* README line 194: the only owner cannot leave and an owner is not removed, so the
\* group keeps an owner.
OwnerExists == Owners # {}
=============================================================================
