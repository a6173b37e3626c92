-------------------------- MODULE FriendshipProofs --------------------------
(***************************************************************************)
(* Proofs about Friendship, for any number of handlers and requests: as    *)
(* long as no handler writes what something written since its check has    *)
(* made wrong, there is one bond at most, none beside a block; and each    *)
(* handler makes one direct conversation at most.                          *)
(***************************************************************************)
EXTENDS Friendship, FiniteSetTheorems, TLAPS

RequestRecords ==
  [status : {"none", "pending", "accepted", "rejected", "cancelled"},
   sender : Pair \cup {Nobody}]
Entries ==
  [pc : {"idle", "create", "update", "relate", "lookup", "open"},
   actor : Pair \cup {Nobody}, on : FriendRequests \cup {NoRequest},
   reply : {"accepted", "rejected", "none"}]

\* What a handler that answers a request has: the request, and the answer until it is
\* written.
About(o) ==
  /\ o.pc \in {"update", "relate"} => o.on \in FriendRequests
  /\ o.pc = "update" => o.reply \in {"accepted", "rejected"}

\* Nothing is between the two accounts.
Clear == blocked = {} /\ friendships = 0 /\ Pending = {}
Accepted == \E r \in FriendRequests : request[r].status = "accepted"

\* One bond at most, none beside a block, and a friendship was accepted.
BondInv ==
  /\ friendships <= 1
  /\ \A r, q \in Pending : r = q
  /\ friendships # 0 => Pending = {} /\ Accepted
  /\ blocked # {} => friendships = 0 /\ Pending = {}

\* What a handler found still holds if nothing was written since.
Fresh(o) ==
  /\ o.pc = "create" => Clear
  /\ o.pc = "update" => o.on \in Pending
  /\ o.pc = "relate" => Clear /\ request[o.on].status = "accepted"

\* Those about to open a direct conversation.
Openers(f) == {h \in Handlers : f[h].pc = "open"}

FriendshipInv ==
  /\ TypeOK
  /\ \A h \in Handlers : About(op[h])
  /\ ~raced => BondInv
  /\ ~raced => \A h \in Handlers \ overtaken : Fresh(op[h])
  /\ direct + Cardinality(Openers(op)) <= Cardinality(Handlers)

-----------------------------------------------------------------------------
(* Types.                                                                  *)

LEMMA FriendInit == Init => FriendshipInv
  <1> SUFFICES ASSUME Init PROVE FriendshipInv
    OBVIOUS
  <1> USE DEF Init
  <1>1. TypeOK
    <2>1. /\ request \in [FriendRequests -> RequestRecords]
          /\ op \in [Handlers -> Entries]
      BY DEF RequestRecords, Entries, Idle
    <2>2. friendships \in 0..MaxFriendships
      BY FriendshipAssumption
    <2> QED BY <2>1, <2>2 DEF TypeOK, RequestRecords, Entries, Idle
  <1>2. \A h \in Handlers : About(op[h]) /\ Fresh(op[h])
    BY DEF About, Fresh, Idle
  <1>3. Pending = {}
    BY DEF Pending
  <1>4. Openers(op) = {}
    BY DEF Openers, Idle
  <1>5. Cardinality(Openers(op)) = 0 /\ Cardinality(Handlers) \in Nat
    BY <1>4, FriendshipAssumption, FS_EmptySet, FS_CardinalityType
  <1> QED BY <1>1, <1>2, <1>3, <1>5 DEF FriendshipInv, BondInv

LEMMA Types ==
  TypeOK => /\ request \in [FriendRequests -> RequestRecords]
            /\ op \in [Handlers -> Entries]
            /\ friendships \in Nat /\ direct \in Nat
  BY FriendshipAssumption DEF TypeOK, RequestRecords, Entries

LEMMA IdleEntry == Idle \in Entries /\ About(Idle) /\ Fresh(Idle) /\ Idle.pc = "idle"
  BY DEF Idle, Entries, About, Fresh

\* What any step does to the handlers: at most one goes on, and what it works on then is
\* nothing, what it worked on before or a request that is pending.
Goes(o, h) ==
  /\ o \in Entries /\ About(o)
  /\ o.on = NoRequest \/ o.on = op[h].on \/ (o.on \in FriendRequests /\ o.on \in Pending)

LEMMA HandlerGoes ==
  ASSUME FriendshipInv, [Next]_vars
  PROVE  \/ op' = op
         \/ \E h \in Handlers, o \in Entries : Goes(o, h) /\ op' = [op EXCEPT ![h] = o]
  <1> DEFINE P == \E h \in Handlers, o \in Entries : Goes(o, h) /\ op' = [op EXCEPT ![h] = o]
  <1>1. op \in [Handlers -> Entries] /\ \A h \in Handlers : About(op[h])
    BY Types DEF FriendshipInv
  <1>2. ASSUME NEW h \in Handlers, End(h)
        PROVE  P
    BY <1>2, IdleEntry DEF End, Goes, Idle
  <1>3. ASSUME NEW h \in Handlers, NEW at \in {"relate", "open"}, Goto(h, at),
               at = "relate" => op[h].pc = "update"
        PROVE  P
    <2> DEFINE o == [op[h] EXCEPT !.pc = at]
    <2>1. o \in Entries /\ o.on = op[h].on /\ o.pc = at
      BY <1>1, <1>3 DEF Entries
    <2>2. About(o)
      BY <1>1, <1>3, <2>1 DEF About
    <2>3. op' = [op EXCEPT ![h] = o]
      BY <1>1, <1>3 DEF Goto
    <2> HIDE DEF o
    <2> QED BY <2>1, <2>2, <2>3 DEF Goes
  <1>4. ASSUME NEW h \in Handlers, NEW a \in Pair,
               NEW at \in {"create", "lookup"}, Start(h, at, a, NoRequest, "none")
        PROVE  P
    <2> DEFINE o == [pc |-> at, actor |-> a, on |-> NoRequest, reply |-> "none"]
    <2>1. o \in Entries /\ About(o) /\ o.on = NoRequest
      BY DEF Entries, About
    <2>2. op' = [op EXCEPT ![h] = o]
      BY <1>4 DEF Start
    <2> HIDE DEF o
    <2> QED BY <2>1, <2>2 DEF Goes
  <1>5. ASSUME NEW h \in Handlers, NEW a \in Pair, NEW r \in FriendRequests,
               NEW answer \in {"accepted", "rejected"}, RespondFind(h, a, r, answer)
        PROVE  P
    <2> DEFINE o == [pc |-> "update", actor |-> a, on |-> r, reply |-> answer]
    <2>1. o \in Entries /\ About(o) /\ o.on = r
      BY DEF Entries, About
    <2>2. op' = [op EXCEPT ![h] = o] /\ r \in Pending
      BY <1>5 DEF RespondFind, Found, Start, Pending
    <2> HIDE DEF o
    <2> QED BY <2>1, <2>2 DEF Goes
  <1>6. ASSUME NEW h \in Handlers, RespondRelate(h)
        PROVE  P
    <2> DEFINE o == [Idle EXCEPT !.pc = "lookup", !.actor = op[h].actor]
    <2>1. o \in Entries /\ About(o) /\ o.on = NoRequest
      BY <1>1 DEF Entries, About, Idle
    <2>2. op' = [op EXCEPT ![h] = o]
      BY <1>6 DEF RespondRelate
    <2> HIDE DEF o
    <2> QED BY <2>1, <2>2 DEF Goes
  <1>7. ASSUME NEW h \in Handlers,
               \/ RequestCreate(h) \/ RespondUpdate(h)
               \/ DirectLookup(h) \/ DirectOpen(h) \/ Abandon(h)
        PROVE  P
    <2>1. \/ End(h)
          \/ op[h].pc = "update" /\ Goto(h, "relate")
          \/ Goto(h, "open")
      BY <1>7 DEF RequestCreate, RespondUpdate, DirectLookup, DirectOpen, Abandon
    <2> QED BY <1>2, <1>3, <2>1
  <1>8. ASSUME NEW h \in Handlers, NEW a \in Pair, RequestCheck(h, a) \/ DirectCheck(h, a)
        PROVE  P
    BY <1>4, <1>8 DEF RequestCheck, DirectCheck
  <1>9. CASE UNCHANGED vars \/ Unfriend \/ \E a \in Pair : Block(a) \/ Unblock(a)
    BY <1>9 DEF vars, Unfriend, Block, Unblock
  <1> QED BY <1>5, <1>6, <1>7, <1>8, <1>9 DEF Next

\* One friend request gets another status: that of the function's other values stays.
LEMMA Asked ==
  ASSUME FriendshipInv, NEW r \in FriendRequests, NEW q \in RequestRecords,
         request' = [request EXCEPT ![r] = q]
  PROVE  /\ request' \in [FriendRequests -> RequestRecords] /\ request'[r] = q
         /\ \A x \in FriendRequests : x # r => request'[x] = request[x]
  BY Types DEF FriendshipInv

LEMMA Cancels ==
  ASSUME FriendshipInv, request' = Cancelled
  PROVE  /\ request' \in [FriendRequests -> RequestRecords]
         /\ \A x \in FriendRequests :
              request'[x].status = IF x \in Pending THEN "cancelled" ELSE request[x].status
  <1>1. request \in [FriendRequests -> RequestRecords]
    BY Types DEF FriendshipInv
  <1> QED BY <1>1 DEF Cancelled, RequestRecords

\* The first statement of an answer.
LEMMA Answered ==
  ASSUME FriendshipInv, NEW h \in Handlers, RespondUpdate(h)
  PROVE  /\ op[h].on \in FriendRequests /\ op[h].reply \in {"accepted", "rejected"}
         /\ request' \in [FriendRequests -> RequestRecords]
         /\ request'[op[h].on].status = op[h].reply
         /\ \A x \in FriendRequests : x # op[h].on => request'[x] = request[x]
  <1>1. /\ op[h].on \in FriendRequests /\ op[h].reply \in {"accepted", "rejected"}
        /\ request' = [request EXCEPT ![op[h].on].status = op[h].reply]
        /\ request \in [FriendRequests -> RequestRecords]
    BY Types DEF FriendshipInv, About, RespondUpdate
  <1> DEFINE r == op[h].on
             q == [request[r] EXCEPT !.status = op[h].reply]
  <1>2. q \in RequestRecords /\ q.status = op[h].reply /\ request' = [request EXCEPT ![r] = q]
    BY <1>1 DEF RequestRecords
  <1> HIDE DEF q, r
  <1>3. r \in FriendRequests
    BY <1>1 DEF r
  <1>4. /\ request' \in [FriendRequests -> RequestRecords] /\ request'[r] = q
        /\ \A x \in FriendRequests : x # r => request'[x] = request[x]
    BY <1>2, <1>3, Asked
  <1> QED BY <1>1, <1>2, <1>4 DEF r

\* A new request takes a record that no request has.
LEMMA Created ==
  ASSUME FriendshipInv, NEW h \in Handlers, RequestCreate(h)
  PROVE  /\ request' \in [FriendRequests -> RequestRecords]
         /\ \E r \in FriendRequests :
              /\ request[r].status = "none" /\ request'[r].status = "pending"
              /\ \A x \in FriendRequests : x # r => request'[x] = request[x]
  <1>1. PICK r \in FriendRequests :
          /\ request[r].status = "none"
          /\ request' = [request EXCEPT ![r] = [status |-> "pending", sender |-> op[h].actor]]
    BY DEF RequestCreate
  <1> DEFINE q == [status |-> "pending", sender |-> op[h].actor]
  <1>2. q \in RequestRecords /\ q.status = "pending"
    BY Types DEF FriendshipInv, RequestRecords, Entries
  <1>3. request' = [request EXCEPT ![r] = q]
    BY <1>1
  <1> HIDE DEF q
  <1>4. /\ request' \in [FriendRequests -> RequestRecords] /\ request'[r] = q
        /\ \A x \in FriendRequests : x # r => request'[x] = request[x]
    BY <1>2, <1>3, Asked
  <1> QED BY <1>1, <1>2, <1>4

LEMMA RequestsStep ==
  ASSUME FriendshipInv, [Next]_vars
  PROVE  /\ request' \in [FriendRequests -> RequestRecords]
         /\ \A r \in FriendRequests :
              request[r].status # "none" => request'[r].status # "none"
  <1>1. CASE request' = request
    BY <1>1, Types DEF FriendshipInv
  <1>2. CASE request' = Cancelled
    BY <1>2, Cancels
  <1>3. ASSUME NEW h \in Handlers, RequestCreate(h)
        PROVE  /\ request' \in [FriendRequests -> RequestRecords]
               /\ \A r \in FriendRequests :
                    request[r].status # "none" => request'[r].status # "none"
    BY <1>3, Created
  <1>4. ASSUME NEW h \in Handlers, RespondUpdate(h)
        PROVE  /\ request' \in [FriendRequests -> RequestRecords]
               /\ \A r \in FriendRequests :
                    request[r].status # "none" => request'[r].status # "none"
    BY <1>4, Answered
  <1>5. CASE UNCHANGED vars \/ Unfriend \/ \E a \in Pair : Block(a) \/ Unblock(a)
    BY <1>1, <1>2, <1>5 DEF vars, bonds, Unfriend, Block, Unblock
  <1>6. ASSUME NEW h \in Handlers,
               \/ \E a \in Pair :
                    \/ RequestCheck(h, a) \/ DirectCheck(h, a)
                    \/ \E r \in FriendRequests, reply \in {"accepted", "rejected"} :
                         RespondFind(h, a, r, reply)
               \/ RespondRelate(h) \/ DirectLookup(h) \/ DirectOpen(h) \/ Abandon(h)
        PROVE  request' = request
    BY <1>6 DEF RequestCheck, DirectCheck, RespondFind, Start, RespondRelate,
                DirectLookup, DirectOpen, Abandon, bonds
  <1> QED BY <1>1, <1>3, <1>4, <1>5, <1>6 DEF Next

LEMMA TypesStep ==
  ASSUME FriendshipInv, [Next]_vars
  PROVE  TypeOK' /\ \A h \in Handlers : About(op'[h])
  <1>1. /\ request' \in [FriendRequests -> RequestRecords]
        /\ \A r \in FriendRequests :
             request[r].status # "none" => request'[r].status # "none"
    BY RequestsStep
  <1>2. /\ op \in [Handlers -> Entries] /\ \A h \in Handlers : About(op[h])
        /\ \A h \in Handlers : op[h].on # NoRequest => request[op[h].on].status # "none"
    BY Types DEF FriendshipInv, TypeOK
  <1>3. /\ op' \in [Handlers -> Entries] /\ \A h \in Handlers : About(op'[h])
        /\ \A h \in Handlers : op'[h].on # NoRequest => request'[op'[h].on].status # "none"
    <2>1. CASE op' = op
      BY <1>1, <1>2, <2>1 DEF Entries
    <2>2. ASSUME NEW h \in Handlers, NEW o \in Entries, Goes(o, h),
                 op' = [op EXCEPT ![h] = o]
          PROVE  /\ op' \in [Handlers -> Entries] /\ \A g \in Handlers : About(op'[g])
                 /\ \A g \in Handlers :
                      op'[g].on # NoRequest => request'[op'[g].on].status # "none"
      <3>1. /\ op' \in [Handlers -> Entries] /\ op'[h] = o
            /\ \A g \in Handlers : g # h => op'[g] = op[g]
        BY <1>2, <2>2
      <3>2. o.on # NoRequest => request'[o.on].status # "none"
        BY <1>1, <1>2, <2>2 DEF Goes, Pending, Entries
      <3>3. \A g \in Handlers : op[g].on # NoRequest => request'[op[g].on].status # "none"
        BY <1>1, <1>2 DEF Entries
      <3> QED BY <1>2, <2>2, <3>1, <3>2, <3>3 DEF Goes
    <2> QED BY <2>1, <2>2, HandlerGoes
  <1>4. /\ friendships' \in 0..MaxFriendships /\ blocked' \subseteq Pair
        /\ overtaken' \subseteq Handlers /\ raced' \in BOOLEAN
    <2>1. /\ friendships \in 0..MaxFriendships /\ blocked \subseteq Pair
          /\ overtaken \subseteq Handlers /\ raced \in BOOLEAN /\ MaxFriendships \in Nat
      BY FriendshipAssumption DEF FriendshipInv, TypeOK
    <2>2. \/ friendships' = friendships \/ friendships' = 0
          \/ friendships < MaxFriendships /\ friendships' = friendships + 1
      BY DEF Next, RequestCheck, DirectCheck, RespondFind, Start, RequestCreate,
             RespondUpdate, RespondRelate, DirectLookup, DirectOpen, Abandon, Unfriend,
             Block, Unblock, vars, bonds
    <2>3. \/ blocked' = blocked \/ \E a \in Pair : blocked' = blocked \cup {a}
          \/ \E a \in Pair : blocked' = blocked \ {a}
      BY DEF Next, RequestCheck, DirectCheck, RespondFind, Start, RequestCreate,
             RespondUpdate, RespondRelate, DirectLookup, DirectOpen, Abandon, Unfriend,
             Block, Unblock, vars, bonds
    <2>4. overtaken' \subseteq overtaken \/ overtaken' \subseteq Handlers
      BY DEF Next, RequestCheck, DirectCheck, RespondFind, Start, RequestCreate,
             RespondUpdate, RespondRelate, DirectLookup, DirectOpen, Abandon, Unfriend,
             Block, Unblock, Writes, Overtake, vars, history
    <2>5. raced' = raced \/ \E h \in Handlers : raced' = (raced \/ h \in overtaken)
      BY DEF Next, RequestCheck, DirectCheck, RespondFind, Start, RequestCreate,
             RespondUpdate, RespondRelate, DirectLookup, DirectOpen, Abandon, Unfriend,
             Block, Unblock, Writes, vars, history
    <2>6. friendships' \in 0..MaxFriendships
      BY <2>1, <2>2
    <2> QED BY <2>1, <2>3, <2>4, <2>5, <2>6
  <1>5. direct' \in Nat
    <2>1. direct' = direct \/ direct' = direct + 1
      BY DEF Next, RequestCheck, DirectCheck, RespondFind, Start, RequestCreate,
             RespondUpdate, RespondRelate, DirectLookup, DirectOpen, Abandon, Unfriend,
             Block, Unblock, vars
    <2> QED BY <2>1, Types DEF FriendshipInv
  <1> QED BY <1>1, <1>3, <1>4, <1>5 DEF TypeOK, RequestRecords, Entries

-----------------------------------------------------------------------------
(* Direct conversations.                                                   *)

LEMMA OpenersFinite ==
  ASSUME NEW f
  PROVE  /\ IsFiniteSet(Openers(f)) /\ Cardinality(Openers(f)) \in Nat
         /\ Cardinality(Handlers) \in Nat /\ Cardinality(Openers(f)) <= Cardinality(Handlers)
  <1>1. Openers(f) \in SUBSET Handlers /\ IsFiniteSet(Handlers)
    BY FriendshipAssumption DEF Openers
  <1> QED BY <1>1, FS_Subset, FS_CardinalityType

LEMMA ConversationsStep ==
  ASSUME FriendshipInv, [Next]_vars
  PROVE  direct' + Cardinality(Openers(op')) <= Cardinality(Handlers)
  <1> DEFINE P == direct' + Cardinality(Openers(op')) <= Cardinality(Handlers)
  <1>1. /\ direct \in Nat /\ direct + Cardinality(Openers(op)) <= Cardinality(Handlers)
        /\ op \in [Handlers -> Entries]
    BY Types DEF FriendshipInv
  <1>2. /\ Cardinality(Openers(op)) \in Nat /\ Cardinality(Openers(op')) \in Nat
        /\ Cardinality(Handlers) \in Nat
        /\ Cardinality(Openers(op')) <= Cardinality(Handlers)
    BY OpenersFinite
  <1>3. CASE direct' = direct /\ Openers(op') \subseteq Openers(op)
    <2>1. Cardinality(Openers(op')) <= Cardinality(Openers(op))
      BY <1>3, OpenersFinite, FS_Subset
    <2> QED BY <1>1, <1>2, <1>3, <2>1
  <1>4. ASSUME NEW h \in Handlers, DirectLookup(h)
        PROVE  P
    <2>1. CASE direct = 0 /\ direct' = direct
      BY <1>2, <2>1
    <2>2. CASE End(h) /\ direct' = direct
      <3>1. Openers(op') \subseteq Openers(op)
        BY <1>1, <2>2 DEF End, Idle, Openers
      <3> QED BY <1>3, <2>2, <3>1
    <2> QED BY <1>4, <2>1, <2>2 DEF DirectLookup, NoneExists
  <1>5. ASSUME NEW h \in Handlers, DirectOpen(h)
        PROVE  P
    <2>1. h \in Openers(op) /\ Openers(op') = Openers(op) \ {h} /\ direct' = direct + 1
      BY <1>1, <1>5 DEF DirectOpen, End, Idle, Openers
    <2>2. Cardinality(Openers(op')) = Cardinality(Openers(op)) - 1
      BY <2>1, OpenersFinite, FS_RemoveElement
    <2> QED BY <1>1, <1>2, <2>1, <2>2
  <1>6. ASSUME NEW h \in Handlers, NEW a \in Pair, NEW r \in FriendRequests \cup {NoRequest},
               NEW answer \in {"accepted", "rejected", "none"},
               NEW at \in {"create", "update", "lookup"}, Start(h, at, a, r, answer)
        PROVE  P
    <2>1. Openers(op') \subseteq Openers(op) /\ direct' = direct
      BY <1>1, <1>6 DEF Start, Openers
    <2> QED BY <1>3, <2>1
  <1>7. ASSUME NEW h \in Handlers, RequestCreate(h) \/ RespondUpdate(h) \/ Abandon(h)
        PROVE  P
    <2>1. direct' = direct /\ (End(h) \/ Goto(h, "relate"))
      BY <1>7 DEF RequestCreate, RespondUpdate, Abandon
    <2>2. Openers(op') \subseteq Openers(op)
      BY <1>1, <2>1 DEF End, Goto, Idle, Openers, Entries
    <2> QED BY <1>3, <2>1, <2>2
  <1>8. ASSUME NEW h \in Handlers, RespondRelate(h)
        PROVE  P
    <2>1. direct' = direct /\ Openers(op') \subseteq Openers(op)
      BY <1>1, <1>8 DEF RespondRelate, Idle, Openers
    <2> QED BY <1>3, <2>1
  <1>9. CASE UNCHANGED vars \/ Unfriend \/ \E a \in Pair : Block(a) \/ Unblock(a)
    <2>1. direct' = direct /\ op' = op
      BY <1>9 DEF vars, Unfriend, Block, Unblock
    <2> QED BY <1>3, <2>1
  <1>10. ASSUME NEW h \in Handlers, NEW a \in Pair,
                \/ RequestCheck(h, a) \/ DirectCheck(h, a)
                \/ \E r \in FriendRequests, reply \in {"accepted", "rejected"} :
                     RespondFind(h, a, r, reply)
         PROVE  P
    BY <1>6, <1>10 DEF RequestCheck, DirectCheck, RespondFind
  <1> QED BY <1>4, <1>5, <1>7, <1>8, <1>9, <1>10 DEF Next

-----------------------------------------------------------------------------
(* Bonds.                                                                  *)

BondsKept == BondInv /\ \A h \in Handlers \ overtaken : Fresh(op[h])

\* Nothing is written, and a handler that goes on checks first or leaves.
LEMMA BondsQuiet ==
  ASSUME FriendshipInv, BondsKept, UNCHANGED bonds,
         \A g \in Handlers \ overtaken' :
           \/ g \notin overtaken /\ op'[g] = op[g]
           \/ op'[g].pc = "create" /\ Clear
           \/ op'[g].pc = "update" /\ op'[g].on \in Pending
           \/ op'[g].pc \in {"idle", "lookup", "open"}
  PROVE  BondsKept'
  <1>1. Pending' = Pending /\ (Clear' <=> Clear)
    BY DEF Pending, Clear, bonds
  <1>2. BondInv'
    BY <1>1 DEF BondsKept, BondInv, Accepted, bonds
  <1>3. \A g \in Handlers \ overtaken' :
          /\ op'[g].pc = "create" => Clear
          /\ op'[g].pc = "update" => op'[g].on \in Pending
          /\ op'[g].pc = "relate" => Clear /\ request[op'[g].on].status = "accepted"
    BY DEF BondsKept, Fresh
  <1> QED BY <1>1, <1>2, <1>3 DEF BondsKept, Fresh, bonds

LEMMA BondsWritten ==
  ASSUME FriendshipInv, BondsKept, NEW h \in Handlers, h \notin overtaken, Overtake({h}),
         RequestCreate(h) \/ RespondUpdate(h) \/ RespondRelate(h)
  PROVE  BondsKept'
  <1>1. /\ op \in [Handlers -> Entries] /\ About(op[h]) /\ Fresh(op[h]) /\ BondInv
        /\ friendships \in Nat
    BY Types DEF FriendshipInv, BondsKept
  <1>2. \A g \in Handlers \ overtaken' : g = h \/ op[g] = Idle
    BY DEF Overtake
  <1>3. \A g \in Handlers \ overtaken' : g = h \/ op'[g].pc = "idle"
    BY <1>1, <1>2 DEF RequestCreate, RespondUpdate, RespondRelate, End, Goto, Idle
  <1>4. CASE RequestCreate(h)
    <2>1. Clear
      BY <1>1, <1>4 DEF RequestCreate, Fresh
    <2>2. PICK r \in FriendRequests :
            /\ request'[r].status = "pending"
            /\ \A x \in FriendRequests : x # r => request'[x] = request[x]
      BY <1>4, Created
    <2>3. Pending' = {r}
      BY <2>1, <2>2 DEF Clear, Pending
    <2>4. UNCHANGED <<friendships, blocked>>
      BY <1>4 DEF RequestCreate
    <2>5. BondInv'
      BY <2>1, <2>3, <2>4 DEF BondInv, Clear
    <2>6. \A g \in Handlers \ overtaken' : op'[g].pc = "idle"
      BY <1>1, <1>3, <1>4 DEF RequestCreate, End, Idle
    <2> QED BY <2>5, <2>6 DEF BondsKept, Fresh
  <1>5. CASE RespondUpdate(h)
    <2>1. op[h].on \in Pending /\ Pending = {op[h].on} /\ friendships = 0 /\ blocked = {}
      BY <1>1, <1>5 DEF RespondUpdate, Fresh, BondInv
    <2>2. /\ op[h].on \in FriendRequests /\ request'[op[h].on].status = op[h].reply
          /\ op[h].reply \in {"accepted", "rejected"}
          /\ \A x \in FriendRequests : x # op[h].on => request'[x] = request[x]
      BY <1>5, Answered
    <2>3. Pending' = {}
      BY <2>1, <2>2 DEF Pending
    <2>4. UNCHANGED <<friendships, blocked>>
      BY <1>5 DEF RespondUpdate
    <2>5. BondInv' /\ Clear'
      BY <2>1, <2>3, <2>4 DEF BondInv, Clear
    <2>6. op'[h].pc = "idle" \/ (/\ op'[h].pc = "relate" /\ op'[h].on = op[h].on
                                 /\ op[h].reply = "accepted")
      BY <1>1, <1>5 DEF RespondUpdate, End, Goto, Idle, Entries
    <2>7. \A g \in Handlers \ overtaken' :
            \/ op'[g].pc = "idle"
            \/ op'[g].pc = "relate" /\ request'[op'[g].on].status = "accepted"
      BY <1>3, <2>2, <2>6
    <2> QED BY <2>5, <2>7 DEF BondsKept, Fresh
  <1>6. CASE RespondRelate(h)
    <2>1. Clear /\ op[h].on \in FriendRequests /\ request[op[h].on].status = "accepted"
      BY <1>1, <1>6 DEF RespondRelate, Fresh, About
    <2>2. UNCHANGED <<request, blocked>> /\ friendships' = 1
      BY <1>6, <2>1 DEF RespondRelate, Clear
    <2>3. Pending' = {} /\ blocked' = {} /\ Accepted'
      BY <2>1, <2>2 DEF Clear, Pending, Accepted
    <2>4. BondInv'
      BY <2>2, <2>3 DEF BondInv
    <2>5. op'[h].pc = "lookup"
      BY <1>1, <1>6 DEF RespondRelate, Idle
    <2>6. \A g \in Handlers \ overtaken' : op'[g].pc \in {"idle", "lookup"}
      BY <1>3, <2>5
    <2> QED BY <2>4, <2>6 DEF BondsKept, Fresh
  <1> QED BY <1>4, <1>5, <1>6

\* unfriend, blockUser and unblockUser leave nothing for a check to have missed.
LEMMA BondsCut ==
  ASSUME FriendshipInv, BondsKept, Unfriend \/ \E a \in Pair : Block(a) \/ Unblock(a)
  PROVE  BondsKept'
  <1>1. op' = op /\ Overtake({})
    BY DEF Unfriend, Block, Unblock
  <1>2. \A g \in Handlers \ overtaken' : op'[g].pc = "idle"
    BY <1>1 DEF Overtake, Idle
  <1>3. friendships' = 0 /\ Pending' = {}
    <2>1. CASE Unfriend \/ \E a \in Pair : Block(a)
      <3>1. friendships' = 0 /\ request' = Cancelled
        BY <2>1 DEF Unfriend, Block
      <3> QED BY <3>1, Cancels DEF Pending
    <2>2. CASE \E a \in Pair : Unblock(a)
      <3>1. blocked # {} /\ UNCHANGED <<request, friendships>>
        BY <2>2 DEF Unblock
      <3> QED BY <3>1 DEF BondsKept, BondInv, Pending
    <2> QED BY <2>1, <2>2
  <1>4. BondInv'
    BY <1>3 DEF BondInv
  <1> QED BY <1>2, <1>4 DEF BondsKept, Fresh

LEMMA BondsStep ==
  ASSUME FriendshipInv, [Next]_vars, ~raced'
  PROVE  BondsKept'
  <1>1. ~raced /\ op \in [Handlers -> Entries]
    BY Types
    DEF FriendshipInv, TypeOK, Next, RequestCheck, DirectCheck, RespondFind, Start,
        RequestCreate, RespondUpdate, RespondRelate, DirectLookup, DirectOpen, Abandon,
        Unfriend, Block, Unblock, Writes, vars, history
  <1>2. BondsKept
    BY <1>1 DEF FriendshipInv, BondsKept
  <1>3. ASSUME NEW h \in Handlers, RequestCreate(h) \/ RespondUpdate(h) \/ RespondRelate(h)
        PROVE  BondsKept'
    <2>1. h \notin overtaken /\ Overtake({h})
      BY <1>3 DEF RequestCreate, RespondUpdate, RespondRelate, Writes
    <2> QED BY <1>2, <1>3, <2>1, BondsWritten
  <1>4. CASE Unfriend \/ \E a \in Pair : Block(a) \/ Unblock(a)
    BY <1>2, <1>4, BondsCut
  <1>5. ASSUME NEW h \in Handlers, NEW a \in Pair,
               \/ RequestCheck(h, a) \/ DirectCheck(h, a)
               \/ \E r \in FriendRequests, reply \in {"accepted", "rejected"} :
                    RespondFind(h, a, r, reply)
        PROVE  BondsKept'
    <2>1. UNCHANGED bonds /\ overtaken' = overtaken
      BY <1>5 DEF RequestCheck, DirectCheck, RespondFind, Start, history
    <2>2. \A g \in Handlers : g # h => op'[g] = op[g]
      BY <1>1, <1>5 DEF RequestCheck, DirectCheck, RespondFind, Start
    <2>3. \/ op'[h].pc = "create" /\ Clear
          \/ op'[h].pc = "update" /\ op'[h].on \in Pending
          \/ op'[h].pc = "lookup"
      BY <1>1, <1>5
      DEF RequestCheck, DirectCheck, RespondFind, Start, Allowed, Clear, Found, Pending
    <2> QED BY <1>2, <2>1, <2>2, <2>3, BondsQuiet
  <1>6. ASSUME NEW h \in Handlers, DirectLookup(h) \/ DirectOpen(h) \/ Abandon(h)
        PROVE  BondsKept'
    <2>1. UNCHANGED bonds /\ overtaken \subseteq overtaken' \cup {h}
      BY <1>6 DEF DirectLookup, DirectOpen, Abandon
    <2>2. \A g \in Handlers : g # h => op'[g] = op[g]
      BY <1>1, <1>6 DEF DirectLookup, DirectOpen, Abandon, End, Goto
    <2>3. op'[h].pc \in {"idle", "open"}
      BY <1>1, <1>6 DEF DirectLookup, DirectOpen, Abandon, End, Goto, Idle, Entries
    <2> QED BY <1>2, <2>1, <2>2, <2>3, BondsQuiet
  <1>7. CASE UNCHANGED vars
    BY <1>2, <1>7, BondsQuiet DEF vars, history
  <1> QED BY <1>3, <1>4, <1>5, <1>6, <1>7 DEF Next

-----------------------------------------------------------------------------
(* The theorems.                                                           *)

LEMMA StepKeeps == FriendshipInv /\ [Next]_vars => FriendshipInv'
  BY TypesStep, ConversationsStep, BondsStep DEF FriendshipInv, BondsKept

LEMMA FriendshipIsSafe == Spec => []FriendshipInv
  <1> QED BY FriendInit, StepKeeps, PTL DEF Spec

\* Every state of a run has its type, and a handler that answers a friend request answers
\* one that was made.
THEOREM FriendshipTypes == Spec => []TypeOK
  <1>1. FriendshipInv => TypeOK
    BY DEF FriendshipInv
  <1> QED BY <1>1, FriendshipIsSafe, PTL

\* As long as no handler of createFriendRequest or respondFriendRequest writes although
\* something was written since its check, accounts of which one has blocked the other are
\* no friends and have no pending request, however many handlers run.
THEOREM BlockedAreApart == Spec => []BlockedStayApart
  <1>1. FriendshipInv => BlockedStayApart
    BY DEF FriendshipInv, BondInv, BlockedStayApart
  <1> QED BY <1>1, FriendshipIsSafe, PTL

\* As long as no such handler has written, there is one edge between the two and one
\* pending request at most, and the edge is there by an accepted request.
THEOREM BondsByConsent == Spec => []OneBondByConsent
  <1>1. FriendshipInv => OneBondByConsent
    <2> SUFFICES ASSUME FriendshipInv, ~raced
                 PROVE  /\ friendships <= 1 /\ Cardinality(Pending) <= 1
                        /\ friendships = 1 =>
                             \E r \in FriendRequests : request[r].status = "accepted"
      BY DEF OneBondByConsent
    <2>1. BondInv
      BY DEF FriendshipInv
    <2>2. Pending = {} \/ \E r \in Pending : Pending = {r}
      BY <2>1 DEF BondInv
    <2>3. Cardinality(Pending) <= 1
      <3>1. CASE Pending = {}
        <4>1. Cardinality(Pending) = 0
          BY <3>1, FS_EmptySet
        <4> QED BY <4>1
      <3>2. ASSUME NEW r \in Pending, Pending = {r}
            PROVE  Cardinality(Pending) <= 1
        <4>1. Cardinality({r}) = 1
          BY FS_Singleton
        <4> QED BY <3>2, <4>1
      <3> QED BY <2>2, <3>1, <3>2
    <2>4. friendships <= 1 /\ (friendships = 1 => Accepted)
      BY <2>1 DEF BondInv
    <2> QED BY <2>3, <2>4 DEF Accepted
  <1> QED BY <1>1, FriendshipIsSafe, PTL

\* createDirectConversation looks for a conversation in one query and creates one in
\* another: the two accounts get no more of them than handlers can overlap.
THEOREM ConversationsAreFew == Spec => []FewConversations
  <1>1. FriendshipInv => FewConversations
    BY OpenersFinite, Types DEF FriendshipInv, FewConversations
  <1> QED BY <1>1, FriendshipIsSafe, PTL
=============================================================================
