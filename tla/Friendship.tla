------------------------------ MODULE Friendship ------------------------------
(***************************************************************************)
(* Two accounts: the friend requests between them, their friendship, who   *)
(* has blocked whom, and their direct conversation.  Everything is in the  *)
(* database; a handler checks in one query and writes in another.          *)
(*                                                                         *)
(* A step is one statement, or one query from BEGIN to COMMIT.  Both       *)
(* accounts are active and take friend requests from everyone.  Not here:  *)
(* members.Clear and the events, for which see GroupMembership and         *)
(* EventBroker.                                                            *)
(***************************************************************************)
EXTENDS Integers, FiniteSets

CONSTANTS
  Pair,            \* the two accounts
  Handlers,        \* the requests that may run at the same time
  FriendRequests,  \* bound: the friend requests that may be made
  MaxFriendships,  \* bound: edges between the two
  FriendsOnly      \* message_permission of both: 'friends', not 'everyone'

ASSUME FriendshipAssumption ==
  /\ Cardinality(Pair) = 2 /\ IsFiniteSet(Handlers) /\ IsFiniteSet(FriendRequests)
  /\ MaxFriendships \in Nat /\ FriendsOnly \in BOOLEAN

VARIABLES
  request,     \* friend_request
  friendships, \* how many friendship edges there are
  blocked,     \* blocked_account: the accounts that have blocked the other one
  direct,      \* how many direct conversations there are
  op,          \* what each handler does
  overtaken,   \* history: the handlers at work since whose start something was written
  raced        \* history: such a handler has written

bonds == <<request, friendships, blocked>>
history == <<overtaken, raced>>
vars == <<bonds, direct, op, history>>

Nobody == "nobody"
NoRequest == "norequest"
Idle == [pc |-> "idle", actor |-> Nobody, on |-> NoRequest, reply |-> "none"]
Pending == {r \in FriendRequests : request[r].status = "pending"}

\* The types; and a handler that answers a request answers one that was made.
TypeOK ==
  /\ request \in [FriendRequests ->
       [status : {"none", "pending", "accepted", "rejected", "cancelled"},
        sender : Pair \cup {Nobody}]]
  /\ friendships \in 0..MaxFriendships
  /\ blocked \subseteq Pair
  /\ direct \in Nat
  /\ op \in [Handlers ->
       [pc : {"idle", "create", "update", "relate", "lookup", "open"},
        actor : Pair \cup {Nobody}, on : FriendRequests \cup {NoRequest},
        reply : {"accepted", "rejected", "none"}]]
  /\ overtaken \subseteq Handlers /\ raced \in BOOLEAN
  /\ \A h \in Handlers :
       op[h].on # NoRequest => request[op[h].on].status # "none"

Init ==
  /\ request = [r \in FriendRequests |-> [status |-> "none", sender |-> Nobody]]
  /\ friendships = 0 /\ blocked = {} /\ direct = 0
  /\ op = [h \in Handlers |-> Idle]
  /\ overtaken = {} /\ raced = FALSE

Start(h, pc, a, r, reply) ==
  /\ op[h] = Idle
  /\ op' = [op EXCEPT ![h] = [pc |-> pc, actor |-> a, on |-> r, reply |-> reply]]
  /\ UNCHANGED <<bonds, direct, history>>

Goto(h, pc) == op' = [op EXCEPT ![h].pc = pc]
End(h) == op' = [op EXCEPT ![h] = Idle]

\* Something was written: every other handler at work has been overtaken.
Overtake(writer) == overtaken' = {g \in Handlers \ writer : op[g] # Idle}
Writes(h) == Overtake({h}) /\ raced' = (raced \/ h \in overtaken)

-----------------------------------------------------------------------------
(* createFriendRequest                                                     *)

\* Faulty: a request the other way round is overlooked.
AllowedOneWay(a) ==
  blocked = {} /\ friendships = 0 /\ \A r \in Pending : request[r].sender # a
\* Neither blocked nor friends, and no request is pending either way.
Allowed(a) == blocked = {} /\ friendships = 0 /\ Pending = {}

RequestCheck(h, a) ==
  /\ Allowed(a)
  /\ Start(h, "create", a, NoRequest, "none")

RequestCreate(h) ==
  /\ op[h].pc = "create"
  /\ \E r \in {x \in FriendRequests : request[x].status = "none"} :
       request' = [request EXCEPT ![r] = [status |-> "pending", sender |-> op[h].actor]]
  /\ Writes(h)
  /\ End(h)
  /\ UNCHANGED <<friendships, blocked, direct>>

-----------------------------------------------------------------------------
(* respondFriendRequest                                                    *)

\* Faulty: whatever the status of the request.
FoundAny(r, a) == request[r].sender # a
\* A pending request of which the account is the recipient.
Found(r, a) == request[r].status = "pending" /\ request[r].sender # a

RespondFind(h, a, r, reply) ==
  /\ Found(r, a)
  /\ Start(h, "update", a, r, reply)

\* The first statement sets the status, whatever it is by now.
RespondUpdate(h) ==
  LET r == op[h].on
  IN /\ op[h].pc = "update"
     /\ request' = [request EXCEPT ![r].status = op[h].reply]
     /\ Writes(h)
     /\ IF op[h].reply = "accepted" THEN Goto(h, "relate") ELSE End(h)
     /\ UNCHANGED <<friendships, blocked, direct>>

\* The second one makes them friends, whatever they are by now.
RespondRelate(h) ==
  /\ op[h].pc = "relate" /\ friendships < MaxFriendships
  /\ friendships' = friendships + 1
  /\ Writes(h)
  /\ op' = [op EXCEPT ![h] = [Idle EXCEPT !.pc = "lookup", !.actor = op[h].actor]]
  /\ UNCHANGED <<request, blocked, direct>>

-----------------------------------------------------------------------------
(* createDirectConversation and ensureDirectConversation, which an accepted *)
(* request calls too.                                                       *)

DirectCheck(h, a) ==
  /\ blocked = {} /\ (FriendsOnly => friendships > 0)
  /\ Start(h, "lookup", a, NoRequest, "none")

\* Faulty: an existing conversation is overlooked.
NoneExistsBlind == TRUE
NoneExists == direct = 0

DirectLookup(h) ==
  /\ op[h].pc = "lookup"
  /\ IF NoneExists THEN Goto(h, "open") /\ UNCHANGED overtaken
                   ELSE End(h) /\ overtaken' = overtaken \ {h}
  /\ UNCHANGED <<bonds, direct, raced>>

DirectOpen(h) ==
  /\ op[h].pc = "open"
  /\ direct' = direct + 1
  /\ End(h) /\ overtaken' = overtaken \ {h}
  /\ UNCHANGED <<bonds, raced>>

-----------------------------------------------------------------------------
(* unfriend, blockUser, unblockUser: one transaction each.                  *)

\* Faulty: the pending requests stay.
NothingCancelled == request
Cancelled ==
  [r \in FriendRequests |->
     IF r \in Pending THEN [request[r] EXCEPT !.status = "cancelled"] ELSE request[r]]

Unfriend ==
  /\ request' = Cancelled
  /\ friendships' = 0
  /\ Overtake({})
  /\ UNCHANGED <<blocked, direct, op, raced>>

\* For an account that has blocked already the transaction fails, and changes nothing.
Block(a) ==
  /\ a \notin blocked
  /\ blocked' = blocked \cup {a}
  /\ request' = Cancelled
  /\ friendships' = 0
  /\ Overtake({})
  /\ UNCHANGED <<direct, op, raced>>

\* It undoes its own block only, and restores nothing.
Unblock(a) ==
  /\ a \in blocked
  /\ blocked' = blocked \ {a}
  /\ Overtake({})
  /\ UNCHANGED <<request, friendships, direct, op, raced>>

\* A query fails, or the client is gone: what was written stays.
Abandon(h) ==
  /\ op[h] # Idle
  /\ End(h) /\ overtaken' = overtaken \ {h}
  /\ UNCHANGED <<bonds, direct, raced>>

Next ==
  \/ \E h \in Handlers :
       \/ \E a \in Pair :
            \/ RequestCheck(h, a) \/ DirectCheck(h, a)
            \/ \E r \in FriendRequests, reply \in {"accepted", "rejected"} :
                 RespondFind(h, a, r, reply)
       \/ RequestCreate(h) \/ RespondUpdate(h) \/ RespondRelate(h)
       \/ DirectLookup(h) \/ DirectOpen(h) \/ Abandon(h)
  \/ Unfriend
  \/ \E a \in Pair : Block(a) \/ Unblock(a)

Spec == Init /\ [][Next]_vars

-----------------------------------------------------------------------------
(* Properties.                                                              *)

\* Accounts one of which has blocked the other are no friends and have no pending
\* request, unless a handler wrote although something had been written since its check:
\* the checks miss nothing but what happens between them and the write.
BlockedStayApart == blocked # {} /\ ~raced => friendships = 0 /\ Pending = {}

\* But for such a handler there is one friendship and one pending request at most, and
\* a friendship is one that a recipient accepted.
OneBondByConsent ==
  ~raced =>
    /\ friendships <= 1 /\ Cardinality(Pending) <= 1
    /\ friendships = 1 => \E r \in FriendRequests : request[r].status = "accepted"

\* The lookup and the creation of a direct conversation are separate statements: each
\* request that can overlap makes one more at most, however often it is asked for.
FewConversations == direct <= Cardinality(Handlers)
=============================================================================
