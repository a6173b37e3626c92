---------------------------- MODULE GroupRequests ----------------------------
(***************************************************************************)
(* Invitations and join requests of the group of GroupMembership.  A       *)
(* request is found or created in two queries, and answered in three: it   *)
(* is read, the account is added, the request is updated; the cached list  *)
(* is discarded last.                                                      *)
(*                                                                         *)
(* A role that is read first and not looked at again is read in the step   *)
(* of the query after it: what changes in between might as well change     *)
(* after both.  The group's join rule may change at any time, so every way *)
(* to enter is open at any time.  Roles change in GroupMembership only,    *)
(* and a removal is a departure like leaving.                              *)
(***************************************************************************)
EXTENDS GroupMembership, Sequences

CONSTANTS MaxRequests,         \* bound: requests ever created
          MaxFailures          \* bound: answers that fail after the account was added

ASSUME RequestsAssumption ==
  /\ MaxRequests \in Nat /\ MaxFailures \in Nat
  /\ IsFiniteSet(Handlers) /\ Handlers # {}

VARIABLES
  requests,    \* group_invitation and group_join_request, in order of creation
  ask,         \* what a handler of group_requests.go does and has read
  admitted,    \* history: how often a request made its account a member
  late,        \* history: how often when it was no longer pending
  failures     \* history: how often a request stayed pending after the account was added

requestVars == <<vars, requests, ask, admitted, late, failures>>
answerHistory == <<admitted, late, failures>>

Kinds == {"invitation", "joinRequest"}
Refusals == {"rejected", "cancelled"}
Idle == [pc |-> "idle", kind |-> "invitation", sender |-> NoAccount, account |-> NoAccount,
         id |-> 0, answer |-> "pending", entered |-> FALSE]

Ids == 1 .. Len(requests)
Free(h) == op[h] = None /\ ask[h] = Idle
IsAdmin(a) == role[a] \in {"owner", "admin"}

RequestsTypeOK ==
  /\ TypeOK
  /\ requests \in Seq([kind : Kinds, sender : Accounts, account : Accounts,
                       status : {"pending", "accepted"} \cup Refusals])
  /\ Len(requests) <= MaxRequests
  /\ ask \in [Handlers ->
       [pc : {"idle", "find", "create", "add", "update"}, kind : Kinds,
        sender : Accounts \cup {NoAccount}, account : Accounts \cup {NoAccount},
        id : 0 .. MaxRequests, answer : {"pending", "accepted", "rejected"},
        entered : BOOLEAN]]
  /\ \A h \in Handlers : /\ op[h] = None \/ ask[h] = Idle
                         /\ ask[h].pc \in {"add", "update"} => ask[h].id \in Ids
  /\ admitted \in [1 .. MaxRequests -> Nat]
  /\ late \in [1 .. MaxRequests -> Nat]
  /\ failures \in 0 .. MaxFailures

RequestsInit ==
  /\ Init
  /\ requests = << >>
  /\ ask = [h \in Handlers |-> Idle]
  /\ admitted = [i \in 1 .. MaxRequests |-> 0]
  /\ late = [i \in 1 .. MaxRequests |-> 0]
  /\ failures = 0

-----------------------------------------------------------------------------
(* Creating a request.                                                     *)

Search(h, kind, sender, a) ==
  /\ Free(h)
  /\ role[a] = "none"
  /\ ask' = [ask EXCEPT ![h] = [Idle EXCEPT !.pc = "find", !.kind = kind,
                                            !.sender = sender, !.account = a]]
  /\ UNCHANGED <<vars, requests, answerHistory>>

\* sendGroupInvitation, as far as groupRole, the block check and the role of the invited.
InviteStart(h, sender, a) ==
  /\ IsAdmin(sender) /\ sender # a
  /\ Search(h, "invitation", sender, a)

\* sendGroupJoinRequest, and joinGroup when the rule is approval.
JoinRequestStart(h, a) ==
  Search(h, "joinRequest", a, a)

\* Faulty: the lookup finds nothing.
PendingUnseen(kind, a) == FALSE
Pending(kind, a) ==
  \E i \in Ids : requests[i].kind = kind /\ requests[i].account = a
                 /\ requests[i].status = "pending"

\* A pending request is answered with its id, and nothing is created.
FindPending(h) ==
  /\ ask[h].pc = "find"
  /\ ask' = [ask EXCEPT ![h] = IF Pending(@.kind, @.account) THEN Idle
                               ELSE [@ EXCEPT !.pc = "create"]]
  /\ UNCHANGED <<vars, requests, answerHistory>>

\* CREATE, whether or not its answer arrives.
CreateRequest(h) ==
  /\ ask[h].pc = "create"
  /\ Len(requests) < MaxRequests
  /\ requests' = Append(requests, [kind |-> ask[h].kind, sender |-> ask[h].sender,
                                   account |-> ask[h].account, status |-> "pending"])
  /\ ask' = [ask EXCEPT ![h] = Idle]
  /\ UNCHANGED <<vars, answerHistory>>

-----------------------------------------------------------------------------
(* Answering it.                                                           *)

\* Only the sender cancels, an invitation only as admin: one UPDATE of a pending request.
Cancel(h, a, i) ==
  /\ Free(h)
  /\ requests[i].sender = a /\ requests[i].status = "pending"
  /\ requests[i].kind = "invitation" => IsAdmin(a)
  /\ requests' = [requests EXCEPT ![i].status = "cancelled"]
  /\ UNCHANGED <<vars, ask, answerHistory>>

MayAnswer(a, i) ==
  IF requests[i].kind = "invitation" THEN requests[i].account = a ELSE IsAdmin(a)

\* Faulty: an answered request can be answered again.
AnswerableAlways(i) == requests[i].status \notin Refusals
Answerable(i) == requests[i].status = "pending"

\* respondGroupInvitation and respondGroupJoinRequest read the request.
ReadRequest(h, a, i, answer) ==
  /\ Free(h)
  /\ MayAnswer(a, i) /\ Answerable(i)
  /\ ask' = [ask EXCEPT ![h] =
       [Idle EXCEPT !.pc = IF answer = "accepted" THEN "add" ELSE "update",
                    !.id = i, !.answer = answer]]
  /\ UNCHANGED <<vars, requests, answerHistory>>

Candidate(h) == requests[ask[h].id].account
Enters(h) == role[Candidate(h)] = "none"

\* addMember, one transaction: an active member stays what it is.
Add(h) ==
  LET i == ask[h].id
      a == Candidate(h)
  IN /\ ask[h].pc = "add"
     /\ role' = [role EXCEPT ![a] = IF Enters(h) THEN "member" ELSE @]
     /\ admitted' = [admitted EXCEPT ![i] = IF Enters(h) THEN @ + 1 ELSE @]
     /\ late' = [late EXCEPT ![i] =
          IF Enters(h) /\ requests[i].status # "pending" THEN @ + 1 ELSE @]
     /\ Outdate
     /\ UNCHANGED <<cache, op, raced, requests>>

AddMember(h) ==
  /\ Add(h)
  /\ ask' = [ask EXCEPT ![h].pc = "update", ![h].entered = Enters(h)]
  /\ UNCHANGED <<stale, failures>>

\* 500 after the account was added: the request is as it was, and so is the cached list.
StaysPending(h) ==
  /\ failures < MaxFailures
  /\ failures' = failures + 1
  /\ ask' = [ask EXCEPT ![h] = Idle]

AddLost(h) ==
  /\ Add(h)
  /\ StaysPending(h)
  /\ stale' = (stale \/ (cache # NoCache /\ Enters(h)))

\* The UPDATE of a request that is still pending.
Updated(h) == [requests EXCEPT ![ask[h].id].status =
                 IF @ = "pending" THEN ask[h].answer ELSE @]

\* Faulty: an answer leaves the cached list alone.
ThenPublish(h) == [None EXCEPT !.pc = "publish"]
\* s.members.Delete and publishConversation follow, as after joinGroup.
ThenDiscard(h) == [None EXCEPT !.pc = "delete"]

UpdateRequest(h) ==
  /\ ask[h].pc = "update"
  /\ requests' = Updated(h)
  /\ ask' = [ask EXCEPT ![h] = Idle]
  /\ op' = [op EXCEPT ![h] = ThenDiscard(h)]
  /\ UNCHANGED <<role, cache, historyVars, answerHistory>>

\* The UPDATE fails or its answer is lost: members.Delete is not reached, and a list
\* cached since the account entered, or before, stays.
Undiscarded(h) == stale' = (stale \/ (ask[h].entered /\ cache # NoCache))

UpdateFails(h) ==
  /\ ask[h].pc = "update"
  /\ StaysPending(h)
  /\ Undiscarded(h)
  /\ UNCHANGED <<role, cache, op, raced, outdated, requests, admitted, late>>

UpdateLost(h) ==
  /\ ask[h].pc = "update"
  /\ requests' = Updated(h)
  /\ ask' = [ask EXCEPT ![h] = Idle]
  /\ Undiscarded(h)
  /\ UNCHANGED <<role, cache, op, raced, outdated, answerHistory>>

\* A query fails before anything was added.
AskFails(h) ==
  /\ ask[h].pc \in {"find", "create", "add"}
  /\ ask' = [ask EXCEPT ![h] = Idle]
  /\ UNCHANGED <<vars, requests, answerHistory>>

-----------------------------------------------------------------------------
(* The rest of the group.                                                  *)

GroupStep(h) ==
  \/ \E a \in Accounts :
       \/ Free(h) /\ LeaveStart(h, a)
       \/ Free(h) /\ JoinStart(h, a)
  \/ LeaveCount(h) \/ Abort(h) \/ Commit(h) \/ CommitLost(h)
  \/ DiscardCache(h) \/ PublishDone(h) \/ PublishRead(h) \/ Fill(h)
  \/ Free(h) /\ UseRead(h)

RequestsNext ==
  \/ \E h \in Handlers :
       \/ \E a \in Accounts :
            \/ JoinRequestStart(h, a)
            \/ \E t \in Accounts : InviteStart(h, a, t)
            \/ \E i \in Ids : \/ Cancel(h, a, i)
                              \/ \E answer \in {"accepted", "rejected"} :
                                   ReadRequest(h, a, i, answer)
       \/ FindPending(h) \/ CreateRequest(h) \/ AskFails(h)
       \/ AddMember(h) \/ AddLost(h)
       \/ UpdateRequest(h) \/ UpdateFails(h) \/ UpdateLost(h)
  \/ /\ Evict \/ \E h \in Handlers : GroupStep(h)
     /\ UNCHANGED <<requests, ask, answerHistory>>

RequestsSpec == RequestsInit /\ [][RequestsNext]_requestVars

-----------------------------------------------------------------------------
(* Properties.                                                             *)

PendingOf(kind, a) == {i \in Ids : /\ requests[i].kind = kind /\ requests[i].account = a
                                  /\ requests[i].status = "pending"}
Creating(kind, a) ==
  {h \in Handlers : ask[h].pc = "create" /\ ask[h].kind = kind /\ ask[h].account = a}

\* README line 193: a pending request is found again.  Only handlers that looked at the
\* same time can each create one, and while one is pending none of them is replaced.
FewPending ==
  \A kind \in Kinds, a \in Accounts :
    Cardinality(PendingOf(kind, a)) + Cardinality(Creating(kind, a)) <= Cardinality(Handlers)

\* A request is good for one entry: it makes a member again, after a departure, only for
\* an answer that overlapped another or one that failed after the account was added.  Who
\* was rejected or whose request was cancelled or used stays out, but for answers that had
\* read the request as pending before.  (With the types of the variables.)
AdmissionsBounded ==
  /\ RequestsTypeOK
  /\ \A i \in Ids : /\ admitted[i] <= Cardinality(Handlers) + failures
                  /\ late[i] < Cardinality(Handlers)

\* CacheFollows, with the answers to requests: an entry discards the cached list too.
CacheFollowsEntries == (\A h \in Handlers : ~ask[h].entered) => CacheFollows
=============================================================================
