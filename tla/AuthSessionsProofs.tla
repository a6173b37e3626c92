------------------------- MODULE AuthSessionsProofs -------------------------
(***************************************************************************)
(* Proofs about AuthSessions, for any handlers, challenges, sessions and   *)
(* limits: wrong codes are counted, a code opens few sessions, a logout is *)
(* final and a deletion ends every session.                                *)
(***************************************************************************)
EXTENDS AuthSessions, FiniteSetTheorems, TLAPS

Entries == [pc : {"idle", "challenge", "miss", "consume", "session", "answer"},
            on : Challenges \cup Sessions \cup {NoRecord}, of : 0..MaxAccounts,
            token : 0..MaxToken]

\* How many handlers are about challenge c and have come as far as one of pcs.
At(f, pcs, c) == {h \in Handlers : f[h].pc \in pcs /\ f[h].on = c}
Count(f, pcs, c) == Cardinality(At(f, pcs, c))
One(o, pcs, c) == IF o.pc \in pcs /\ o.on = c THEN 1 ELSE 0

Wrong == {"miss"}
Opening == {"session"}
Entering == {"consume", "session"}
Stages == {Wrong, Opening, Entering}

\* What a handler works on, once it works on something.
About(o) ==
  /\ o.pc \in {"challenge", "miss", "consume", "session"} => o.on \in Challenges
  /\ o.pc = "answer" => o.on \in Sessions /\ o.token # 0

\* Every wrong code is counted, about to be, or known not to be; and who is about to
\* count one found the challenge open.
GuessInv(c) ==
  /\ guesses[c] = challenge[c].attempts + Count(op, Wrong, c) + uncounted[c]
  /\ challenge[c].attempts + Count(op, Wrong, c) <= AttemptLimit + Cardinality(Handlers) - 1

\* A challenge opens sessions only once it is consumed, and from then on nobody joins
\* those who are about to open one.
OpenersInv(c) ==
  /\ opened[c] + Count(op, Entering, c) <= Cardinality(Handlers)
  /\ ~challenge[c].consumed => opened[c] + Count(op, Opening, c) = 0

\* A sign-up's is about to open one, or has opened it, for an account that it has made.
SignupInv(c) == opened[c] + Count(op, Opening, c) <= account

\* A token given to the client of a session is none newer than that session's, and no
\* other session's.
Given(f, s, t) ==
  /\ t <= f[s].token
  /\ \A u \in Sessions : u # s => f[u].token # t

TokenInv ==
  /\ \A s \in Sessions : session[s].token <= made
  /\ \A s, u \in Sessions :
       s # u /\ session[s].token = session[u].token => session[s].token = 0
  /\ \A s \in Sessions : \A t \in known[s] : Given(session, s, t)
  /\ \A h \in Handlers : op[h].pc = "answer" => Given(session, op[h].on, op[h].token)
  /\ \A t \in cut : t <= made
  /\ \A s \in Sessions : session[s].token \in cut => ~Live(s)
  /\ \A s \in Sessions : Live(s) /\ session[s].of <= deleted => session[s].of \in stray

AuthInv ==
  /\ TypeOK
  /\ \A h \in Handlers : About(op[h])
  /\ \A c \in Challenges : GuessInv(c)
  /\ \A c \in Challenges : OpenersInv(c)
  /\ \A c \in Signups : SignupInv(c)
  /\ TokenInv

-----------------------------------------------------------------------------
(* Counting handlers.                                                      *)

LEMMA CountType ==
  ASSUME NEW f \in [Handlers -> Entries], NEW pcs \in Stages, NEW c \in Challenges
  PROVE  /\ Cardinality(Handlers) \in Nat \ {0}
         /\ Count(f, pcs, c) \in Nat /\ Count(f, pcs, c) <= Cardinality(Handlers)
         /\ (\A h \in Handlers : One(f[h], pcs, c) = 0) => Count(f, pcs, c) = 0
         /\ \A h \in Handlers :
              /\ One(f[h], pcs, c) = 0 => Count(f, pcs, c) < Cardinality(Handlers)
              /\ One(f[h], pcs, c) = 1 => Count(f, pcs, c) > 0
  <1>1. At(f, pcs, c) \in SUBSET Handlers /\ IsFiniteSet(Handlers) /\ Handlers # {}
    BY AuthAssumption DEF At
  <1>2. /\ IsFiniteSet(At(f, pcs, c)) /\ Cardinality(At(f, pcs, c)) \in Nat
        /\ Cardinality(At(f, pcs, c)) <= Cardinality(Handlers)
        /\ Cardinality(At(f, pcs, c)) = Cardinality(Handlers) => At(f, pcs, c) = Handlers
        /\ Cardinality(At(f, pcs, c)) = 0 <=> At(f, pcs, c) = {}
        /\ Cardinality(Handlers) \in Nat \ {0}
    BY <1>1, FS_Subset, FS_CardinalityType, FS_EmptySet
  <1>3. \A h \in Handlers : One(f[h], pcs, c) = IF h \in At(f, pcs, c) THEN 1 ELSE 0
    BY DEF One, At
  <1> QED BY <1>1, <1>2, <1>3 DEF Count

\* A handler goes on: it is counted where it is now, and no longer where it was.
LEMMA Counting ==
  ASSUME NEW f \in [Handlers -> Entries], NEW h \in Handlers, NEW o \in Entries,
         NEW g, g = [f EXCEPT ![h] = o], NEW pcs \in Stages, NEW c \in Challenges
  PROVE  Count(g, pcs, c) = Count(f, pcs, c) - One(f[h], pcs, c) + One(o, pcs, c)
  <1> DEFINE A == At(f, pcs, c)
  <1>1. /\ IsFiniteSet(A) /\ Cardinality(A) \in Nat /\ A \in SUBSET Handlers
        /\ One(f[h], pcs, c) = IF h \in A THEN 1 ELSE 0
    BY AuthAssumption, FS_Subset, FS_CardinalityType DEF At, One
  <1>2. At(g, pcs, c) = IF One(o, pcs, c) = 1 THEN A \cup {h} ELSE A \ {h}
    BY DEF At, One
  <1>3. One(o, pcs, c) \in {0, 1}
    BY DEF One
  <1>4. /\ Cardinality(A \cup {h}) = IF h \in A THEN Cardinality(A) ELSE Cardinality(A) + 1
        /\ Cardinality(A \ {h}) = IF h \in A THEN Cardinality(A) - 1 ELSE Cardinality(A)
    BY <1>1, FS_AddElement, FS_RemoveElement
  <1> HIDE DEF A
  <1> QED BY <1>1, <1>2, <1>3, <1>4 DEF Count, A

LEMMA AuthInit == Init => AuthInv
  <1> SUFFICES ASSUME Init PROVE AuthInv
    OBVIOUS
  <1> USE AuthAssumption DEF Init
  <1>1. Cardinality(Handlers) \in Nat \ {0}
    BY FS_CardinalityType, FS_EmptySet
  <1>2. TypeOK /\ \A h \in Handlers : About(op[h])
    <2>1. 0 \in 0..(AttemptLimit + Cardinality(Handlers) - 1)
      BY <1>1
    <2>2. uncounted \in [Challenges -> 0..MaxUncounted]
      OBVIOUS
    <2>3. /\ guesses \in [Challenges -> Nat] /\ opened \in [Challenges -> Nat]
          /\ session \in [Sessions -> [of : 0..MaxAccounts, token : 0..MaxToken,
                                       revoked : BOOLEAN, expired : BOOLEAN]]
          /\ made \in 0..MaxToken /\ account \in 0..MaxAccounts /\ deleted \in 0..account
          /\ account <= deleted + 1 /\ stray \subseteq 0..deleted
      OBVIOUS
    <2>4. challenge \in [Challenges ->
            [exists : BOOLEAN, of : 0..MaxAccounts, consumed : BOOLEAN, expired : BOOLEAN,
             attempts : 0..(AttemptLimit + Cardinality(Handlers) - 1)]]
      BY <2>1
    <2> QED BY <2>2, <2>3, <2>4 DEF TypeOK, About, Idle
  <1>3. ASSUME NEW c \in Challenges
        PROVE  /\ Count(op, Wrong, c) = 0 /\ Count(op, Opening, c) = 0
               /\ Count(op, Entering, c) = 0
    <2>1. op \in [Handlers -> Entries]
      BY DEF Entries, Idle
    <2>2. \A pcs \in Stages : \A h \in Handlers : One(op[h], pcs, c) = 0
      BY DEF One, Idle, Stages, Wrong, Opening, Entering
    <2>3. \A pcs \in Stages : Count(op, pcs, c) = 0
      BY <2>1, <2>2, CountType
    <2> QED BY <2>3 DEF Stages
  <1>4. \A c \in Challenges : GuessInv(c)
    BY <1>1, <1>3 DEF GuessInv
  <1>5. (\A c \in Challenges : OpenersInv(c)) /\ \A c \in Signups : SignupInv(c)
    BY <1>1, <1>3 DEF OpenersInv, SignupInv, Challenges
  <1>6. TokenInv
    <2>1. \A s \in Sessions : session[s].token = 0 /\ known[s] = {}
      OBVIOUS
    <2>2. \A s \in Sessions : ~Live(s)
      BY <2>1 DEF Live
    <2>3. made = 0 /\ cut = {} /\ \A h \in Handlers : op[h].pc # "answer"
      BY DEF Idle
    <2> HIDE DEF Init
    <2> QED BY <2>1, <2>2, <2>3 DEF TokenInv
  <1> QED BY <1>2, <1>4, <1>5, <1>6 DEF AuthInv

-----------------------------------------------------------------------------
(* Types.                                                                  *)

LEMMA IdleEntry == Idle \in Entries /\ About(Idle) /\ Idle.pc = "idle"
  BY AuthAssumption DEF Idle, Entries, About

\* What a handler that ends or goes on with a challenge leaves in its entry.
LEMMA Moves ==
  ASSUME AuthInv, NEW h \in Handlers, NEW o \in Entries, About(o),
         op' = [op EXCEPT ![h] = o]
  PROVE  /\ op' \in [Handlers -> Entries] /\ op'[h] = o
         /\ \A g \in Handlers : About(op'[g]) /\ (g # h => op'[g] = op[g])
         /\ \A pcs \in Stages, c \in Challenges :
              Count(op', pcs, c) = Count(op, pcs, c) - One(op[h], pcs, c) + One(o, pcs, c)
  <1>1. op \in [Handlers -> Entries]
    BY DEF AuthInv, TypeOK, Entries
  <1>2. \A pcs \in Stages, c \in Challenges :
          Count(op', pcs, c) = Count(op, pcs, c) - One(op[h], pcs, c) + One(o, pcs, c)
    <2> SUFFICES ASSUME NEW pcs \in Stages, NEW c \in Challenges
                 PROVE  Count(op', pcs, c)
                          = Count(op, pcs, c) - One(op[h], pcs, c) + One(o, pcs, c)
      OBVIOUS
    <2> QED BY <1>1, Counting, Zenon
  <1>3. op' \in [Handlers -> Entries] /\ op'[h] = o
    BY <1>1
  <1>4. ASSUME NEW g \in Handlers
        PROVE  About(op'[g]) /\ (g # h => op'[g] = op[g])
    <2>1. About(op[g])
      BY DEF AuthInv
    <2>2. op'[g] = IF g = h THEN o ELSE op[g]
      BY <1>1
    <2> QED BY <2>1, <2>2
  <1> QED BY <1>2, <1>3, <1>4

\* The challenge a handler is about.
LEMMA OnChallenge ==
  ASSUME AuthInv, NEW h \in Handlers,
         op[h].pc \in {"challenge", "miss", "consume", "session"}
  PROVE  op[h].on \in Challenges
  BY DEF AuthInv, About

\* Where a handler goes: on with a challenge, to its answer, or to its end.
LEMMA GoesOn ==
  ASSUME AuthInv, NEW h \in Handlers, NEW c \in Challenges,
         NEW at \in {"challenge", "miss", "consume", "session"}, NEW of \in 0..MaxAccounts,
         Goto(h, at, c, of)
  PROVE  \E o \in Entries : /\ op' = [op EXCEPT ![h] = o] /\ About(o)
                            /\ o.pc = at /\ o.on = c
  <1> DEFINE o == [Idle EXCEPT !.pc = at, !.on = c, !.of = of]
  <1>1. op' = [op EXCEPT ![h] = o]
    BY DEF Goto
  <1>2. 0 \in 0..MaxToken
    BY AuthAssumption
  <1>3. o \in Entries /\ About(o) /\ o.pc = at /\ o.on = c
    BY <1>2 DEF Idle, Entries, About
  <1> HIDE DEF o
  <1> QED BY <1>1, <1>3

LEMMA Answers ==
  ASSUME AuthInv, NEW h \in Handlers, NEW s \in Sessions, made < MaxToken, Answer(h, s)
  PROVE  \E o \in Entries : /\ op' = [op EXCEPT ![h] = o] /\ About(o)
                            /\ o.pc = "answer" /\ o.on = s /\ o.token = made + 1
  <1> DEFINE o == [Idle EXCEPT !.pc = "answer", !.on = s, !.token = made + 1]
  <1>1. made + 1 \in 0..MaxToken /\ made + 1 # 0 /\ 0 \in 0..MaxAccounts
    BY AuthAssumption DEF AuthInv, TypeOK
  <1>2. o \in Entries /\ About(o) /\ o.pc = "answer" /\ o.on = s /\ o.token = made + 1
    BY <1>1 DEF Entries, About, Idle
  <1>3. op' = [op EXCEPT ![h] = o]
    BY DEF Answer
  <1> HIDE DEF o
  <1> QED BY <1>2, <1>3

\* The accounts that handlers work for.
LEMMA AccountNumbers ==
  ASSUME AuthInv
  PROVE  /\ account \in 0..MaxAccounts /\ 0 \in 0..MaxAccounts
         /\ account < MaxAccounts => account + 1 \in 0..MaxAccounts
         /\ \A c \in Challenges : challenge[c].of \in 0..MaxAccounts
         /\ \A h \in Handlers : op[h].of \in 0..MaxAccounts
  BY AuthAssumption DEF AuthInv, TypeOK

LEMMA HandlersStep ==
  ASSUME AuthInv, [Next]_vars
  PROVE  op' \in [Handlers -> Entries] /\ \A h \in Handlers : About(op'[h])
  <1> DEFINE P == op' \in [Handlers -> Entries] /\ \A h \in Handlers : About(op'[h])
  <1>1. CASE op' = op
    BY <1>1 DEF AuthInv, TypeOK, Entries
  <1>2. CASE Restart
    BY <1>2, IdleEntry DEF Restart
  <1>3. ASSUME NEW h \in Handlers, End(h)
        PROVE  P
    BY <1>3, IdleEntry, Moves DEF End
  <1>4. ASSUME NEW h \in Handlers, NEW c \in Challenges,
               NEW at \in {"challenge", "miss", "consume", "session"},
               NEW of \in 0..MaxAccounts, Goto(h, at, c, of)
        PROVE  P
    BY <1>4, GoesOn, Moves
  <1>5. ASSUME NEW h \in Handlers, NEW s \in Sessions, made < MaxToken, Answer(h, s)
        PROVE  P
    BY <1>5, Answers, Moves
  <1> HIDE DEF P
  <1>6. ASSUME NEW h \in Handlers, NEW c \in Challenges,
               RequestCode(h, c) \/ VerifyRight(h, c) \/ VerifyWrong(h, c)
        PROVE  P
    BY <1>4, <1>6, AccountNumbers DEF RequestCode, VerifyRight, VerifyWrong
  <1>7. ASSUME NEW h \in Handlers, CreateAccount(h) \/ ConsumeLogin(h)
        PROVE  P
    BY <1>3, <1>4, <1>7, OnChallenge, AccountNumbers DEF CreateAccount, ConsumeLogin
  <1>8. ASSUME NEW h \in Handlers,
               \/ CreateChallenge(h) \/ CountMiss(h) \/ MissUncounted(h) \/ Deliver(h)
               \/ Abandon(h)
        PROVE  P
    BY <1>3, <1>8 DEF CreateChallenge, CountMiss, MissUncounted, Deliver, Abandon
  <1>9. ASSUME NEW h \in Handlers,
               CreateSession(h) \/ \E s \in Sessions, t \in Tokens : Refresh(h, s, t)
        PROVE  P
    BY <1>5, <1>9 DEF CreateSession, Refresh
  <1>10. CASE \/ UNCHANGED vars \/ \E s \in Sessions : DeleteAccount(s)
              \/ \E h \in Handlers, s \in Sessions, t \in Tokens :
                   Logout(h, s, t) \/ LogoutLost(h, s, t)
              \/ \E c \in Challenges : ChallengeExpires(c)
              \/ \E s \in Sessions : SessionExpires(s)
    BY <1>1, <1>10
    DEF vars, DeleteAccount, Logout, LogoutLost, ChallengeExpires, SessionExpires, P
  <1> QED BY <1>2, <1>6, <1>7, <1>8, <1>9, <1>10 DEF Next, P

\* The records and the histories.
ChallengeRecords ==
  [exists : BOOLEAN, of : 0..MaxAccounts, consumed : BOOLEAN, expired : BOOLEAN,
   attempts : 0..(AttemptLimit + Cardinality(Handlers) - 1)]
SessionRecords ==
  [of : 0..MaxAccounts, token : 0..MaxToken, revoked : BOOLEAN, expired : BOOLEAN]

DataOK ==
  /\ account \in 0..MaxAccounts
  /\ deleted \in 0..account /\ account <= deleted + 1
  /\ challenge \in [Challenges -> ChallengeRecords]
  /\ session \in [Sessions -> SessionRecords]
  /\ made \in 0..MaxToken
  /\ stray \subseteq 0..deleted
  /\ known \in [Sessions -> SUBSET Tokens]
  /\ guesses \in [Challenges -> Nat] /\ opened \in [Challenges -> Nat]
  /\ uncounted \in [Challenges -> 0..MaxUncounted]
  /\ cut \subseteq Tokens

LEMMA Types == TypeOK <=> DataOK /\ op \in [Handlers -> Entries]
  BY DEF TypeOK, DataOK, Entries, ChallengeRecords, SessionRecords

\* A challenge changes in one field.
LEMMA ChallengeField ==
  ASSUME DataOK, NEW c \in Challenges,
         \/ \E of \in 0..MaxAccounts :
              challenge' = [challenge EXCEPT ![c].exists = TRUE, ![c].of = of]
         \/ challenge' = [challenge EXCEPT ![c].consumed = TRUE]
         \/ challenge' = [challenge EXCEPT ![c].expired = TRUE]
         \/ /\ challenge' = [challenge EXCEPT ![c].attempts = @ + 1]
            /\ challenge[c].attempts < AttemptLimit + Cardinality(Handlers) - 1
  PROVE  challenge' \in [Challenges -> ChallengeRecords]
  <1>1. Cardinality(Handlers) \in Nat /\ AttemptLimit \in Nat
    BY AuthAssumption, FS_CardinalityType
  <1>2. challenge[c] \in ChallengeRecords
    BY DEF DataOK
  <1>3. ASSUME NEW e \in ChallengeRecords, challenge' = [challenge EXCEPT ![c] = e]
        PROVE  challenge' \in [Challenges -> ChallengeRecords]
    BY <1>3 DEF DataOK
  <1>4. ASSUME NEW of \in 0..MaxAccounts,
               challenge' = [challenge EXCEPT ![c].exists = TRUE, ![c].of = of]
        PROVE  challenge' \in [Challenges -> ChallengeRecords]
    <2>1. [challenge[c] EXCEPT !.exists = TRUE, !.of = of] \in ChallengeRecords
      BY <1>2 DEF ChallengeRecords
    <2>2. challenge' = [challenge EXCEPT ![c] = [challenge[c] EXCEPT !.exists = TRUE, !.of = of]]
      BY <1>4 DEF DataOK
    <2> QED BY <1>3, <2>1, <2>2
  <1>5. CASE challenge' = [challenge EXCEPT ![c].consumed = TRUE]
    <2>1. [challenge[c] EXCEPT !.consumed = TRUE] \in ChallengeRecords
      BY <1>2 DEF ChallengeRecords
    <2> QED BY <1>3, <1>5, <2>1
  <1>6. CASE challenge' = [challenge EXCEPT ![c].expired = TRUE]
    <2>1. [challenge[c] EXCEPT !.expired = TRUE] \in ChallengeRecords
      BY <1>2 DEF ChallengeRecords
    <2> QED BY <1>3, <1>6, <2>1
  <1>7. CASE /\ challenge' = [challenge EXCEPT ![c].attempts = @ + 1]
             /\ challenge[c].attempts < AttemptLimit + Cardinality(Handlers) - 1
    <2>1. challenge[c].attempts + 1 \in 0..(AttemptLimit + Cardinality(Handlers) - 1)
      BY <1>1, <1>2, <1>7 DEF ChallengeRecords
    <2>2. [challenge[c] EXCEPT !.attempts = @ + 1] \in ChallengeRecords
      BY <1>2, <2>1 DEF ChallengeRecords
    <2> QED BY <1>3, <1>7, <2>2
  <1> QED BY <1>4, <1>5, <1>6, <1>7

LEMMA SessionField ==
  ASSUME DataOK, NEW s \in Sessions,
         \/ session' = [session EXCEPT ![s].token = made + 1] /\ made < MaxToken
         \/ \E of \in 0..MaxAccounts :
              /\ session' = [session EXCEPT ![s].token = made + 1, ![s].of = of]
              /\ made < MaxToken
         \/ session' = [session EXCEPT ![s].expired = TRUE]
         \/ \E t \in Tokens : session' = Revoked(s, t)
  PROVE  session' \in [Sessions -> SessionRecords]
  <1>1. session[s] \in SessionRecords
    BY DEF DataOK
  <1>2. ASSUME NEW e \in SessionRecords, session' = [session EXCEPT ![s] = e]
        PROVE  session' \in [Sessions -> SessionRecords]
    BY <1>2 DEF DataOK
  <1>3. made < MaxToken => made + 1 \in 0..MaxToken
    BY AuthAssumption DEF DataOK
  <1>4. CASE session' = [session EXCEPT ![s].token = made + 1] /\ made < MaxToken
    <2>1. [session[s] EXCEPT !.token = made + 1] \in SessionRecords
      BY <1>1, <1>3, <1>4 DEF SessionRecords
    <2> QED BY <1>2, <1>4, <2>1
  <1>5. ASSUME NEW of \in 0..MaxAccounts, made < MaxToken,
               session' = [session EXCEPT ![s].token = made + 1, ![s].of = of]
        PROVE  session' \in [Sessions -> SessionRecords]
    <2>1. [session[s] EXCEPT !.token = made + 1, !.of = of] \in SessionRecords
      BY <1>1, <1>3, <1>5 DEF SessionRecords
    <2>2. session' = [session EXCEPT ![s] = [session[s] EXCEPT !.token = made + 1, !.of = of]]
      BY <1>5 DEF DataOK
    <2> QED BY <1>2, <2>1, <2>2
  <1>6. CASE session' = [session EXCEPT ![s].expired = TRUE]
    <2>1. [session[s] EXCEPT !.expired = TRUE] \in SessionRecords
      BY <1>1 DEF SessionRecords
    <2> QED BY <1>2, <1>6, <2>1
  <1>7. ASSUME NEW t \in Tokens, session' = Revoked(s, t)
        PROVE  session' \in [Sessions -> SessionRecords]
    <2> DEFINE e == [session[s] EXCEPT !.revoked = @ \/ session[s].token = t]
    <2>1. e \in SessionRecords /\ session' = [session EXCEPT ![s] = e]
      BY <1>1, <1>7 DEF SessionRecords, Revoked
    <2> QED BY <1>2, <2>1
  <1> QED BY <1>4, <1>5, <1>6, <1>7

\* Who is about to count a wrong code finds room for it.
LEMMA RoomForMiss ==
  ASSUME AuthInv, NEW h \in Handlers, op[h].pc = "miss"
  PROVE  /\ op[h].on \in Challenges
         /\ challenge[op[h].on].attempts < AttemptLimit + Cardinality(Handlers) - 1
  <1> DEFINE c == op[h].on
  <1>1. c \in Challenges /\ op \in [Handlers -> Entries]
    BY OnChallenge DEF AuthInv, TypeOK, Entries
  <1>2. One(op[h], Wrong, c) = 1 /\ Wrong \in Stages
    BY DEF One, Wrong, Stages
  <1>3. Count(op, Wrong, c) \in Nat /\ Count(op, Wrong, c) > 0
    BY <1>1, <1>2, CountType
  <1>4. challenge[c].attempts \in Nat /\ Cardinality(Handlers) \in Nat
    BY <1>1, AuthAssumption, FS_CardinalityType DEF AuthInv, TypeOK
  <1>5. challenge[c].attempts + Count(op, Wrong, c) <= AttemptLimit + Cardinality(Handlers) - 1
    BY <1>1 DEF AuthInv, GuessInv
  <1> QED BY <1>1, <1>3, <1>4, <1>5, AuthAssumption

LEMMA DataStep ==
  ASSUME AuthInv, [Next]_vars
  PROVE  DataOK'
  <1>1. DataOK /\ op \in [Handlers -> Entries]
    BY Types DEF AuthInv
  <1>2. CASE UNCHANGED <<records, known, history>>
    BY <1>1, <1>2 DEF DataOK, records, accounts, history
  <1>3. ASSUME NEW h \in Handlers, NEW c \in Challenges,
               RequestCode(h, c) \/ VerifyRight(h, c) \/ VerifyWrong(h, c)
        PROVE  DataOK'
    <2>1. CASE RequestCode(h, c) \/ VerifyRight(h, c)
      BY <1>2, <2>1 DEF RequestCode, VerifyRight
    <2>2. CASE VerifyWrong(h, c)
      BY <1>1, <2>2 DEF VerifyWrong, DataOK, records, accounts
    <2> QED BY <1>3, <2>1, <2>2
  <1>4. ASSUME NEW h \in Handlers, CreateChallenge(h) \/ CountMiss(h)
        PROVE  DataOK'
    <2>1. op[h].on \in Challenges
      BY <1>4, OnChallenge DEF CreateChallenge, CountMiss
    <2>2. challenge' \in [Challenges -> ChallengeRecords]
      BY <1>1, <1>4, <2>1, RoomForMiss, ChallengeField, AccountNumbers
      DEF CreateChallenge, CountMiss
    <2> QED BY <1>1, <1>4, <2>2 DEF CreateChallenge, CountMiss, DataOK, accounts, history
  <1>5. ASSUME NEW h \in Handlers, MissUncounted(h)
        PROVE  DataOK'
    <2>1. op[h].on \in Challenges
      BY <1>5, OnChallenge DEF MissUncounted
    <2>2. uncounted' \in [Challenges -> 0..MaxUncounted]
      BY <1>1, <1>5, <2>1, AuthAssumption DEF MissUncounted, DataOK
    <2> QED BY <1>1, <1>5, <2>2 DEF MissUncounted, DataOK, records, accounts
  <1>6. ASSUME NEW h \in Handlers, CreateAccount(h) \/ ConsumeLogin(h)
        PROVE  DataOK'
    <2>1. op[h].on \in Challenges
      BY <1>6, OnChallenge DEF CreateAccount, ConsumeLogin
    <2>2. challenge' \in [Challenges -> ChallengeRecords]
      BY <1>1, <1>6, <2>1, ChallengeField DEF CreateAccount, ConsumeLogin, Consumed
    <2>3. CASE CreateAccount(h)
      <3>1. /\ account' \in 0..MaxAccounts /\ deleted' = deleted /\ deleted \in 0..account'
            /\ account' <= deleted' + 1
        BY <1>1, <2>3, AuthAssumption DEF CreateAccount, Free, DataOK
      <3> QED BY <1>1, <2>2, <2>3, <3>1 DEF CreateAccount, DataOK, history
    <2>4. CASE ConsumeLogin(h)
      BY <1>1, <2>2, <2>4 DEF ConsumeLogin, DataOK, accounts, history
    <2> QED BY <1>6, <2>3, <2>4
  <1>7. ASSUME NEW h \in Handlers, CreateSession(h)
        PROVE  DataOK'
    <2>1. op[h].on \in Challenges
      BY <1>7, OnChallenge DEF CreateSession
    <2>2. /\ opened' \in [Challenges -> Nat] /\ made' \in 0..MaxToken
          /\ stray' \subseteq 0..deleted
      BY <1>1, <1>7, <2>1, AuthAssumption DEF CreateSession, DataOK
    <2>3. session' \in [Sessions -> SessionRecords]
      <3>1. PICK x \in Sessions :
              session' = [session EXCEPT ![x].token = made + 1, ![x].of = op[h].of]
        BY <1>7 DEF CreateSession
      <3>2. made < MaxToken /\ op[h].of \in 0..MaxAccounts
        BY <1>7, AccountNumbers DEF CreateSession
      <3> QED BY <1>1, <3>1, <3>2, SessionField
    <2> QED BY <1>1, <1>7, <2>2, <2>3 DEF CreateSession, accounts, DataOK
  <1>8. ASSUME NEW h \in Handlers, NEW s \in Sessions, NEW t \in Tokens,
               Refresh(h, s, t) \/ Logout(h, s, t) \/ LogoutLost(h, s, t)
        PROVE  DataOK'
    <2>1. session' \in [Sessions -> SessionRecords]
      BY <1>1, <1>8, SessionField DEF Refresh, Logout, LogoutLost
    <2>2. made' \in 0..MaxToken /\ cut' \subseteq Tokens
      BY <1>1, <1>8, AuthAssumption DEF Refresh, Logout, LogoutLost, DataOK, history
    <2> QED
      BY <1>1, <1>8, <2>1, <2>2 DEF Refresh, Logout, LogoutLost, DataOK, accounts, history
  <1>9. ASSUME NEW h \in Handlers, Deliver(h)
        PROVE  DataOK'
    <2>1. op[h].on \in Sessions /\ op[h].token \in Tokens
      BY <1>1, <1>9, AuthAssumption DEF Deliver, AuthInv, About, Entries, Tokens
    <2>2. known' \in [Sessions -> SUBSET Tokens]
      BY <1>1, <1>9, <2>1 DEF Deliver, DataOK
    <2> QED BY <1>1, <1>9, <2>2 DEF Deliver, DataOK, records, accounts, history
  <1>10. ASSUME NEW c \in Challenges, ChallengeExpires(c)
         PROVE  DataOK'
    <2>1. challenge' \in [Challenges -> ChallengeRecords]
      BY <1>1, <1>10, ChallengeField DEF ChallengeExpires
    <2> QED BY <1>1, <1>10, <2>1 DEF ChallengeExpires, DataOK, accounts, history
  <1>11. ASSUME NEW s \in Sessions, SessionExpires(s)
         PROVE  DataOK'
    <2>1. session' \in [Sessions -> SessionRecords]
      BY <1>1, <1>11, SessionField DEF SessionExpires
    <2> QED BY <1>1, <1>11, <2>1 DEF SessionExpires, DataOK, accounts, history
  <1>12. ASSUME NEW x \in Sessions, DeleteAccount(x)
         PROVE  DataOK'
    <2>1. session' \in [Sessions -> SessionRecords]
      <3>1. \A s \in Sessions :
              [session[s] EXCEPT !.revoked = TRUE, !.expired = TRUE] \in SessionRecords
        BY <1>1 DEF DataOK, SessionRecords
      <3> QED BY <1>1, <1>12, <3>1 DEF DeleteAccount, SessionsAfterDelete, DataOK
    <2>2. deleted' \in 0..account /\ account <= deleted' + 1 /\ stray' \subseteq 0..deleted'
      <3>1. account \in Nat /\ deleted \in Nat /\ deleted <= account
        BY <1>1, AuthAssumption DEF DataOK
      <3>2. CASE session[x].of = account
        <4>1. deleted' = account /\ stray' \subseteq 0..deleted
          BY <1>1, <1>12, <3>2 DEF DeleteAccount, DataOK
        <4>2. account' = account /\ 0..deleted \subseteq 0..account
          BY <1>12, <3>1 DEF DeleteAccount
        <4> QED BY <3>1, <4>1, <4>2
      <3>3. CASE session[x].of # account
        BY <1>1, <1>12, <3>3 DEF DeleteAccount, DataOK
      <3> QED BY <3>2, <3>3
    <2> QED BY <1>1, <1>12, <2>1, <2>2 DEF DeleteAccount, DataOK
  <1>13. CASE Restart
    <2>1. uncounted' \in [Challenges -> 0..MaxUncounted]
      <3>1. ASSUME NEW c \in Challenges
            PROVE  uncounted'[c] \in 0..MaxUncounted
        <4> DEFINE A == {h \in Handlers : op[h].pc = "miss" /\ op[h].on = c}
        <4>1. Cardinality(A) \in Nat
          BY AuthAssumption, FS_Subset, FS_CardinalityType
        <4>2. uncounted[c] \in Nat
          BY <1>1 DEF DataOK
        <4>3. uncounted'[c] = uncounted[c] + Cardinality(A) /\ uncounted'[c] <= MaxUncounted
          BY <1>13 DEF Restart
        <4> HIDE DEF A
        <4> QED BY <4>1, <4>2, <4>3, AuthAssumption
      <3>2. uncounted' = [c \in Challenges |-> uncounted'[c]]
        BY <1>13 DEF Restart
      <3> QED BY <3>1, <3>2
    <2> QED BY <1>1, <1>13, <2>1 DEF Restart, DataOK, records, accounts
  <1>14. ASSUME NEW h \in Handlers, Abandon(h)
         PROVE  DataOK'
    BY <1>2, <1>14 DEF Abandon
  <1>15. CASE UNCHANGED vars
    BY <1>2, <1>15 DEF vars
  <1> QED
    BY <1>3, <1>4, <1>5, <1>6, <1>7, <1>8, <1>9, <1>10, <1>11, <1>12, <1>13, <1>14, <1>15
    DEF Next

LEMMA TypesStep ==
  ASSUME AuthInv, [Next]_vars
  PROVE  TypeOK' /\ DataOK' /\ \A h \in Handlers : About(op'[h])
  <1>1. DataOK' /\ op' \in [Handlers -> Entries] /\ \A h \in Handlers : About(op'[h])
    BY DataStep, HandlersStep
  <1>2. TypeOK'
    BY <1>1 DEF TypeOK, DataOK, Entries, ChallengeRecords, SessionRecords
  <1> QED BY <1>1, <1>2

-----------------------------------------------------------------------------
(* Codes.                                                                  *)

CodeInv(c) ==
  GuessInv(c) /\ OpenersInv(c) /\ (c \in Signups => SignupInv(c))

LEMMA Numbers ==
  ASSUME AuthInv, DataOK', op' \in [Handlers -> Entries], NEW c \in Challenges
  PROVE  /\ guesses[c] \in Nat /\ guesses'[c] \in Nat
         /\ uncounted[c] \in Nat /\ uncounted'[c] \in Nat
         /\ opened[c] \in Nat /\ opened'[c] \in Nat
         /\ challenge[c].attempts \in Nat /\ challenge'[c].attempts \in Nat
         /\ Count(op, Wrong, c) \in Nat /\ Count(op', Wrong, c) \in Nat
         /\ Count(op, Opening, c) \in Nat /\ Count(op', Opening, c) \in Nat
         /\ Count(op, Entering, c) \in Nat /\ Count(op', Entering, c) \in Nat
         /\ Cardinality(Handlers) \in Nat \ {0} /\ AttemptLimit \in Nat
         /\ account \in Nat /\ account' \in Nat
         /\ CodeInv(c)
  <1>1. op \in [Handlers -> Entries] /\ DataOK
    BY Types DEF AuthInv
  <1>2. /\ guesses[c] \in Nat /\ guesses'[c] \in Nat
        /\ uncounted[c] \in Nat /\ uncounted'[c] \in Nat
        /\ opened[c] \in Nat /\ opened'[c] \in Nat
        /\ challenge[c].attempts \in Nat /\ challenge'[c].attempts \in Nat
        /\ AttemptLimit \in Nat /\ account \in Nat /\ account' \in Nat
    BY <1>1, AuthAssumption DEF DataOK, ChallengeRecords
  <1>3. \A pcs \in Stages : /\ Count(op, pcs, c) \in Nat /\ Count(op', pcs, c) \in Nat
                            /\ Cardinality(Handlers) \in Nat \ {0}
    BY <1>1, CountType
  <1>4. CodeInv(c)
    BY DEF AuthInv, CodeInv
  <1> QED BY <1>2, <1>3, <1>4 DEF Stages

\* Nothing is counted, opened or consumed that was not, and no handler comes in.
LEMMA CodeQuiet ==
  ASSUME AuthInv, DataOK', op' \in [Handlers -> Entries], NEW c \in Challenges,
         UNCHANGED <<guesses, uncounted, opened>>,
         challenge'[c].attempts = challenge[c].attempts,
         challenge[c].consumed => challenge'[c].consumed,
         account <= account',
         Count(op', Wrong, c) = Count(op, Wrong, c),
         Count(op', Opening, c) <= Count(op, Opening, c),
         Count(op', Entering, c) <= Count(op, Entering, c)
  PROVE  CodeInv(c)'
  <1>1. GuessInv(c)'
    BY Numbers DEF GuessInv, CodeInv
  <1>2. OpenersInv(c)'
    BY Numbers DEF OpenersInv, CodeInv
  <1>3. ASSUME c \in Signups PROVE SignupInv(c)'
    BY <1>3, Numbers DEF SignupInv, CodeInv
  <1> QED BY <1>1, <1>2, <1>3 DEF CodeInv

\* How one handler's step changes the three counts.
LEMMA Counts ==
  ASSUME AuthInv, NEW h \in Handlers, NEW o \in Entries, About(o),
         op' = [op EXCEPT ![h] = o], NEW c \in Challenges
  PROVE  /\ Count(op', Wrong, c)
              = Count(op, Wrong, c) - One(op[h], Wrong, c) + One(o, Wrong, c)
         /\ Count(op', Opening, c)
              = Count(op, Opening, c) - One(op[h], Opening, c) + One(o, Opening, c)
         /\ Count(op', Entering, c)
              = Count(op, Entering, c) - One(op[h], Entering, c) + One(o, Entering, c)
         /\ One(op[h], Entering, c) = 0 => Count(op, Entering, c) < Cardinality(Handlers)
         /\ One(op[h], Wrong, c) = 0 => Count(op, Wrong, c) < Cardinality(Handlers)
         /\ op' \in [Handlers -> Entries]
  <1>1. op \in [Handlers -> Entries]
    BY DEF AuthInv, TypeOK, Entries
  <1>2. \A pcs \in Stages :
          Count(op', pcs, c) = Count(op, pcs, c) - One(op[h], pcs, c) + One(o, pcs, c)
    BY Moves
  <1>3. \A pcs \in Stages :
          One(op[h], pcs, c) = 0 => Count(op, pcs, c) < Cardinality(Handlers)
    BY <1>1, CountType
  <1>4. op' \in [Handlers -> Entries]
    BY Moves
  <1> QED BY <1>2, <1>3, <1>4 DEF Stages

\* A handler that goes nowhere near a code, or leaves one.
LEMMA CodeLeft ==
  ASSUME AuthInv, DataOK', NEW h \in Handlers, NEW o \in Entries, About(o),
         op' = [op EXCEPT ![h] = o], op[h].pc # "miss",
         o.pc \notin {"miss", "consume", "session"}, NEW c \in Challenges,
         UNCHANGED <<guesses, uncounted, opened>>,
         challenge'[c].attempts = challenge[c].attempts,
         challenge[c].consumed => challenge'[c].consumed,
         account <= account'
  PROVE  CodeInv(c)'
  <1>1. /\ One(op[h], Wrong, c) = 0 /\ One(o, Wrong, c) = 0 /\ One(o, Opening, c) = 0
        /\ One(o, Entering, c) = 0
        /\ One(op[h], Opening, c) \in Nat /\ One(op[h], Entering, c) \in Nat
    BY DEF One, Wrong, Opening, Entering
  <1>2. op' \in [Handlers -> Entries]
    BY Counts
  <1>3. /\ Count(op', Wrong, c)
             = Count(op, Wrong, c) - One(op[h], Wrong, c) + One(o, Wrong, c)
        /\ Count(op', Opening, c)
             = Count(op, Opening, c) - One(op[h], Opening, c) + One(o, Opening, c)
        /\ Count(op', Entering, c)
             = Count(op, Entering, c) - One(op[h], Entering, c) + One(o, Entering, c)
    BY Counts
  <1>4. /\ Count(op', Wrong, c) = Count(op, Wrong, c)
        /\ Count(op', Opening, c) <= Count(op, Opening, c)
        /\ Count(op', Entering, c) <= Count(op, Entering, c)
    BY <1>1, <1>2, <1>3, Numbers
  <1> QED BY <1>2, <1>4, CodeQuiet

\* The code is right: the challenge was open, so no session had been opened by it yet.
LEMMA RightStep ==
  ASSUME AuthInv, DataOK', NEW h \in Handlers, NEW d \in Challenges, VerifyRight(h, d),
         NEW c \in Challenges
  PROVE  CodeInv(c)'
  <1>1. PICK o \in Entries : /\ op' = [op EXCEPT ![h] = o] /\ About(o)
                             /\ o.pc = "consume" /\ o.on = d
    BY GoesOn, AccountNumbers DEF VerifyRight
  <1>2. /\ One(op[h], Wrong, c) = 0 /\ One(op[h], Opening, c) = 0
        /\ One(op[h], Entering, c) = 0
        /\ One(o, Wrong, c) = 0 /\ One(o, Opening, c) = 0
        /\ One(o, Entering, c) = IF c = d THEN 1 ELSE 0
    BY <1>1 DEF VerifyRight, Idle, One, Wrong, Opening, Entering
  <1>3. /\ UNCHANGED <<account, guesses, uncounted, opened, challenge>>
        /\ op' \in [Handlers -> Entries] /\ Open(d)
    BY <1>1, Counts DEF VerifyRight, records, accounts, history
  <1>4. /\ Count(op', Wrong, c) = Count(op, Wrong, c)
        /\ Count(op', Opening, c) = Count(op, Opening, c)
        /\ Count(op', Entering, c) = Count(op, Entering, c) + (IF c = d THEN 1 ELSE 0)
        /\ Count(op, Entering, c) < Cardinality(Handlers)
    <2>1. /\ Count(op', Wrong, c)
               = Count(op, Wrong, c) - One(op[h], Wrong, c) + One(o, Wrong, c)
          /\ Count(op', Opening, c)
               = Count(op, Opening, c) - One(op[h], Opening, c) + One(o, Opening, c)
          /\ Count(op', Entering, c)
               = Count(op, Entering, c) - One(op[h], Entering, c) + One(o, Entering, c)
          /\ One(op[h], Entering, c) = 0 => Count(op, Entering, c) < Cardinality(Handlers)
      BY <1>1, Counts
    <2> QED BY <1>2, <1>3, <2>1, Numbers
  <1>5. CASE c = d
    <2>1. OpenersInv(c)'
      <3>1. opened[c] = 0
        BY <1>3, <1>5, Numbers DEF Open, CodeInv, OpenersInv
      <3> QED BY <1>3, <1>4, <1>5, <3>1, Numbers DEF CodeInv, OpenersInv
    <2>2. GuessInv(c)' /\ (c \in Signups => SignupInv(c)')
      BY <1>3, <1>4, Numbers DEF CodeInv, GuessInv, SignupInv
    <2> QED BY <2>1, <2>2 DEF CodeInv
  <1>6. CASE c # d
    BY <1>3, <1>4, <1>6, Numbers, CodeQuiet
  <1> QED BY <1>5, <1>6

\* The code is wrong: the challenge had attempts left.
LEMMA WrongStep ==
  ASSUME AuthInv, DataOK', NEW h \in Handlers, NEW d \in Challenges, VerifyWrong(h, d),
         NEW c \in Challenges
  PROVE  CodeInv(c)'
  <1>1. PICK o \in Entries : /\ op' = [op EXCEPT ![h] = o] /\ About(o)
                             /\ o.pc = "miss" /\ o.on = d
    BY GoesOn, AccountNumbers DEF VerifyWrong
  <1>2. /\ One(op[h], Wrong, c) = 0 /\ One(op[h], Opening, c) = 0
        /\ One(op[h], Entering, c) = 0
        /\ One(o, Opening, c) = 0 /\ One(o, Entering, c) = 0
        /\ One(o, Wrong, c) = IF c = d THEN 1 ELSE 0
    BY <1>1 DEF VerifyWrong, Idle, One, Wrong, Opening, Entering
  <1>3. /\ UNCHANGED <<account, uncounted, opened, challenge>>
        /\ guesses'[c] = guesses[c] + (IF c = d THEN 1 ELSE 0)
        /\ op' \in [Handlers -> Entries] /\ Open(d)
    <2>1. guesses \in [Challenges -> Nat] /\ guesses' = [guesses EXCEPT ![d] = @ + 1]
      BY DEF AuthInv, TypeOK, VerifyWrong
    <2>2. guesses'[c] = guesses[c] + (IF c = d THEN 1 ELSE 0)
      <3>1. CASE c = d
        BY <2>1, <3>1
      <3>2. CASE c # d
        BY <2>1, <3>2
      <3> QED BY <3>1, <3>2
    <2>3. op' \in [Handlers -> Entries]
      BY <1>1, Counts
    <2> QED BY <2>2, <2>3 DEF VerifyWrong, records, accounts
  <1>4. /\ Count(op', Wrong, c) = Count(op, Wrong, c) + (IF c = d THEN 1 ELSE 0)
        /\ Count(op', Opening, c) = Count(op, Opening, c)
        /\ Count(op', Entering, c) = Count(op, Entering, c)
        /\ Count(op, Wrong, c) < Cardinality(Handlers)
    <2>1. /\ Count(op', Wrong, c)
               = Count(op, Wrong, c) - One(op[h], Wrong, c) + One(o, Wrong, c)
          /\ Count(op', Opening, c)
               = Count(op, Opening, c) - One(op[h], Opening, c) + One(o, Opening, c)
          /\ Count(op', Entering, c)
               = Count(op, Entering, c) - One(op[h], Entering, c) + One(o, Entering, c)
          /\ One(op[h], Wrong, c) = 0 => Count(op, Wrong, c) < Cardinality(Handlers)
      BY <1>1, Counts
    <2> QED BY <1>2, <1>3, <2>1, Numbers
  <1>5. GuessInv(c)'
    <2>1. CASE c = d
      <3>1. challenge[c].attempts < AttemptLimit
        BY <1>3, <2>1 DEF Open
      <3> QED BY <1>3, <1>4, <2>1, <3>1, Numbers DEF CodeInv, GuessInv
    <2>2. CASE c # d
      BY <1>3, <1>4, <2>2, Numbers DEF CodeInv, GuessInv
    <2> QED BY <2>1, <2>2
  <1>6. OpenersInv(c)' /\ (c \in Signups => SignupInv(c)')
    BY <1>3, <1>4, Numbers DEF CodeInv, OpenersInv, SignupInv
  <1> QED BY <1>5, <1>6 DEF CodeInv

\* It is counted, or known not to be.
LEMMA MissStep ==
  ASSUME AuthInv, DataOK', NEW h \in Handlers, CountMiss(h) \/ MissUncounted(h),
         NEW c \in Challenges
  PROVE  CodeInv(c)'
  <1> DEFINE d == op[h].on
             n == IF c = d THEN 1 ELSE 0
  <1>1. op' = [op EXCEPT ![h] = Idle] /\ op[h].pc = "miss" /\ d \in Challenges
    BY OnChallenge DEF CountMiss, MissUncounted, End
  <1>2. /\ One(op[h], Wrong, c) = n /\ One(op[h], Opening, c) = 0
        /\ One(op[h], Entering, c) = 0
        /\ One(Idle, Wrong, c) = 0 /\ One(Idle, Opening, c) = 0 /\ One(Idle, Entering, c) = 0
    BY <1>1 DEF Idle, One, Wrong, Opening, Entering
  <1>3. /\ UNCHANGED <<account, guesses, opened>> /\ op' \in [Handlers -> Entries]
        /\ challenge'[c].consumed = challenge[c].consumed
        /\ \/ /\ challenge'[c].attempts = challenge[c].attempts + n
              /\ uncounted' = uncounted
           \/ /\ challenge'[c].attempts = challenge[c].attempts
              /\ uncounted'[c] = uncounted[c] + n
    <2>1. op' \in [Handlers -> Entries]
      BY <1>1, Counts, IdleEntry
    <2>2. /\ challenge \in [Challenges -> ChallengeRecords]
          /\ uncounted \in [Challenges -> 0..MaxUncounted]
      BY Types DEF AuthInv, DataOK
    <2>3. CASE CountMiss(h)
      <3>1. challenge' = [challenge EXCEPT ![d].attempts = @ + 1]
        BY <2>3 DEF CountMiss
      <3>2. /\ challenge'[c].consumed = challenge[c].consumed
            /\ challenge'[c].attempts = challenge[c].attempts + n
        BY <1>1, <2>2, <3>1, Numbers DEF ChallengeRecords
      <3> QED BY <2>1, <2>3, <3>2 DEF CountMiss, accounts, history
    <2>4. CASE MissUncounted(h)
      <3>1. uncounted'[c] = uncounted[c] + n
        BY <1>1, <2>2, <2>4, Numbers DEF MissUncounted
      <3> QED BY <2>1, <2>4, <3>1 DEF MissUncounted, records, accounts
    <2> QED BY <2>3, <2>4
  <1> HIDE DEF n, d
  <1>4. /\ Count(op', Wrong, c) = Count(op, Wrong, c) - n
        /\ Count(op', Opening, c) = Count(op, Opening, c)
        /\ Count(op', Entering, c) = Count(op, Entering, c)
        /\ n \in {0, 1}
    <2>1. /\ Count(op', Wrong, c)
               = Count(op, Wrong, c) - One(op[h], Wrong, c) + One(Idle, Wrong, c)
          /\ Count(op', Opening, c)
               = Count(op, Opening, c) - One(op[h], Opening, c) + One(Idle, Opening, c)
          /\ Count(op', Entering, c)
               = Count(op, Entering, c) - One(op[h], Entering, c) + One(Idle, Entering, c)
      BY <1>1, Counts, IdleEntry
    <2>2. n \in {0, 1}
      BY DEF n
    <2> QED BY <1>2, <1>3, <2>1, <2>2, Numbers
  <1>5. GuessInv(c)'
    <2>1. GuessInv(c) /\ guesses'[c] = guesses[c]
      BY <1>3, Numbers DEF CodeInv
    <2>2. CASE challenge'[c].attempts = challenge[c].attempts + n /\ uncounted' = uncounted
      BY <1>3, <1>4, <2>1, <2>2, Numbers DEF GuessInv
    <2>3. CASE /\ challenge'[c].attempts = challenge[c].attempts
               /\ uncounted'[c] = uncounted[c] + n
      BY <1>3, <1>4, <2>1, <2>3, Numbers DEF GuessInv
    <2> QED BY <1>3, <2>2, <2>3
  <1>6. OpenersInv(c)' /\ (c \in Signups => SignupInv(c)')
    BY <1>3, <1>4, Numbers DEF CodeInv, OpenersInv, SignupInv
  <1> QED BY <1>5, <1>6 DEF CodeInv

\* A challenge is consumed, and its handler goes on to open a session.
LEMMA ConsumeStep ==
  ASSUME AuthInv, DataOK', NEW h \in Handlers,
         CreateAccount(h) \/ (ConsumeLogin(h) /\ Active(op[h].of)), NEW c \in Challenges
  PROVE  CodeInv(c)'
  <1> DEFINE d == op[h].on
             n == IF c = d THEN 1 ELSE 0
  <1>1. /\ op[h].pc = "consume" /\ d \in Challenges
        /\ \/ d \in Signups /\ account' = account + 1
           \/ d \in Logins /\ account' = account
    BY OnChallenge DEF CreateAccount, ConsumeLogin, accounts
  <1>2. PICK o \in Entries : /\ op' = [op EXCEPT ![h] = o] /\ About(o)
                             /\ o.pc = "session" /\ o.on = d
    BY <1>1, GoesOn, AccountNumbers DEF CreateAccount, ConsumeLogin
  <1>3. /\ One(op[h], Wrong, c) = 0 /\ One(op[h], Opening, c) = 0
        /\ One(op[h], Entering, c) = n /\ One(o, Wrong, c) = 0
        /\ One(o, Opening, c) = n /\ One(o, Entering, c) = n
    BY <1>1, <1>2 DEF One, Wrong, Opening, Entering
  <1>4. /\ UNCHANGED <<guesses, uncounted, opened>> /\ op' \in [Handlers -> Entries]
        /\ challenge'[c].attempts = challenge[c].attempts
        /\ challenge[c].consumed => challenge'[c].consumed
        /\ c = d => challenge'[c].consumed
    <2>1. challenge \in [Challenges -> ChallengeRecords]
      BY Types DEF AuthInv, DataOK
    <2>2. challenge' = [challenge EXCEPT ![d].consumed = TRUE]
      BY DEF CreateAccount, ConsumeLogin, Consumed
    <2>3. /\ challenge'[c].attempts = challenge[c].attempts
          /\ challenge[c].consumed => challenge'[c].consumed
          /\ c = d => challenge'[c].consumed
      BY <1>1, <2>1, <2>2 DEF ChallengeRecords
    <2>4. op' \in [Handlers -> Entries]
      BY <1>2, Counts
    <2> QED BY <2>3, <2>4 DEF CreateAccount, ConsumeLogin, history
  <1> HIDE DEF n, d
  <1>5. /\ Count(op', Wrong, c) = Count(op, Wrong, c)
        /\ Count(op', Opening, c) = Count(op, Opening, c) + n
        /\ Count(op', Entering, c) = Count(op, Entering, c)
        /\ n \in {0, 1} /\ (c # d => n = 0)
    <2>1. /\ Count(op', Wrong, c)
               = Count(op, Wrong, c) - One(op[h], Wrong, c) + One(o, Wrong, c)
          /\ Count(op', Opening, c)
               = Count(op, Opening, c) - One(op[h], Opening, c) + One(o, Opening, c)
          /\ Count(op', Entering, c)
               = Count(op, Entering, c) - One(op[h], Entering, c) + One(o, Entering, c)
      BY <1>2, Counts
    <2>2. n \in {0, 1} /\ (c # d => n = 0)
      BY DEF n
    <2> QED BY <1>3, <1>4, <2>1, <2>2, Numbers
  <1>6. GuessInv(c)'
    BY <1>4, <1>5, Numbers DEF CodeInv, GuessInv
  <1>7. OpenersInv(c)'
    <2>1. CASE c = d
      BY <1>4, <1>5, <2>1, Numbers DEF CodeInv, OpenersInv
    <2>2. CASE c # d
      BY <1>4, <1>5, <2>2, Numbers DEF CodeInv, OpenersInv
    <2> QED BY <2>1, <2>2
  <1>8. ASSUME c \in Signups PROVE SignupInv(c)'
    <2>1. n <= account' - account
      <3>1. account \in Nat
        BY AccountNumbers, AuthAssumption
      <3>2. CASE d \in Signups /\ account' = account + 1
        BY <1>5, <3>1, <3>2
      <3>3. CASE d \in Logins /\ account' = account
        BY <1>5, <1>8, <3>1, <3>3, AuthAssumption
      <3> QED BY <1>1, <3>2, <3>3
    <2> QED BY <1>4, <1>5, <1>8, <2>1, Numbers DEF CodeInv, SignupInv
  <1> QED BY <1>6, <1>7, <1>8 DEF CodeInv

\* A session is opened: one more, and one handler less that is about to open one.
LEMMA OpenStep ==
  ASSUME AuthInv, DataOK', NEW h \in Handlers, CreateSession(h), NEW c \in Challenges
  PROVE  CodeInv(c)'
  <1> DEFINE d == op[h].on
             n == IF c = d THEN 1 ELSE 0
  <1>1. op[h].pc = "session" /\ d \in Challenges
    BY OnChallenge DEF CreateSession
  <1>2. PICK o \in Entries : op' = [op EXCEPT ![h] = o] /\ About(o) /\ o.pc = "answer"
    <2>1. PICK s \in Sessions : Answer(h, s)
      BY DEF CreateSession
    <2>2. made < MaxToken
      BY DEF CreateSession
    <2> QED BY <2>1, <2>2, Answers
  <1>3. /\ One(op[h], Wrong, c) = 0 /\ One(op[h], Opening, c) = n
        /\ One(op[h], Entering, c) = n /\ One(o, Wrong, c) = 0
        /\ One(o, Opening, c) = 0 /\ One(o, Entering, c) = 0
    BY <1>1, <1>2 DEF One, Wrong, Opening, Entering
  <1>4. /\ UNCHANGED <<account, challenge, guesses, uncounted>>
        /\ op' \in [Handlers -> Entries]
    BY <1>2, Counts DEF CreateSession, accounts
  <1>5. opened'[c] = opened[c] + n
    <2>1. opened \in [Challenges -> Nat] /\ opened' = [opened EXCEPT ![d] = @ + 1]
      BY DEF AuthInv, TypeOK, CreateSession
    <2>2. CASE c = d
      BY <2>1, <2>2
    <2>3. CASE c # d
      BY <2>1, <2>3
    <2> QED BY <2>2, <2>3
  <1> HIDE DEF n, d
  <1>6. /\ Count(op', Wrong, c) = Count(op, Wrong, c)
        /\ Count(op', Opening, c) = Count(op, Opening, c) - n
        /\ Count(op', Entering, c) = Count(op, Entering, c) - n
        /\ n \in {0, 1}
    <2>1. /\ Count(op', Wrong, c)
               = Count(op, Wrong, c) - One(op[h], Wrong, c) + One(o, Wrong, c)
          /\ Count(op', Opening, c)
               = Count(op, Opening, c) - One(op[h], Opening, c) + One(o, Opening, c)
          /\ Count(op', Entering, c)
               = Count(op, Entering, c) - One(op[h], Entering, c) + One(o, Entering, c)
      BY <1>2, Counts
    <2>2. n \in {0, 1}
      BY DEF n
    <2> QED BY <1>3, <1>4, <2>1, <2>2, Numbers
  <1>7. GuessInv(c)'
    BY <1>4, <1>6, Numbers DEF CodeInv, GuessInv
  <1>8. OpenersInv(c)' /\ (c \in Signups => SignupInv(c)')
    BY <1>4, <1>5, <1>6, Numbers DEF CodeInv, OpenersInv, SignupInv
  <1> QED BY <1>7, <1>8 DEF CodeInv

\* A restart ends them all, and no wrong code is counted that was about to be.
LEMMA RestartStep ==
  ASSUME AuthInv, DataOK', Restart, NEW c \in Challenges
  PROVE  CodeInv(c)'
  <1>1. op' \in [Handlers -> Entries] /\ \A h \in Handlers : op'[h] = Idle
    BY IdleEntry DEF Restart
  <1>2. \A pcs \in Stages : \A h \in Handlers : One(op'[h], pcs, c) = 0
    BY <1>1 DEF One, Idle, Stages, Wrong, Opening, Entering
  <1>3. Count(op', Wrong, c) = 0 /\ Count(op', Opening, c) = 0 /\ Count(op', Entering, c) = 0
    <2>1. \A pcs \in Stages : Count(op', pcs, c) = 0
      BY <1>1, <1>2, CountType
    <2> QED BY <2>1 DEF Stages
  <1>4. /\ UNCHANGED <<account, challenge, guesses, opened>>
        /\ uncounted'[c] = uncounted[c] + Count(op, Wrong, c)
    <2>1. At(op, Wrong, c) = {h \in Handlers : op[h].pc = "miss" /\ op[h].on = c}
      BY DEF At, Wrong
    <2>2. uncounted'[c] = uncounted[c] +
            Cardinality({h \in Handlers : op[h].pc = "miss" /\ op[h].on = c})
      BY DEF Restart
    <2> QED BY <2>1, <2>2 DEF Count, Restart, records, accounts
  <1>5. GuessInv(c)'
    BY <1>1, <1>3, <1>4, Numbers DEF CodeInv, GuessInv
  <1>6. OpenersInv(c)' /\ (c \in Signups => SignupInv(c)')
    BY <1>1, <1>3, <1>4, Numbers DEF CodeInv, OpenersInv, SignupInv
  <1> QED BY <1>5, <1>6 DEF CodeInv

\* Steps that have nothing to do with codes, or only end a handler that had.
LEMMA OtherCodes ==
  ASSUME AuthInv, DataOK', NEW h \in Handlers, NEW c \in Challenges,
         \/ \E d \in Challenges : RequestCode(h, d)
         \/ CreateChallenge(h) \/ Deliver(h) \/ Abandon(h)
         \/ ConsumeLogin(h) /\ ~Active(op[h].of)
         \/ \E s \in Sessions, t \in Tokens : Refresh(h, s, t)
  PROVE  CodeInv(c)'
  <1>1. PICK o \in Entries : /\ op' = [op EXCEPT ![h] = o] /\ About(o)
                             /\ o.pc \in {"idle", "challenge", "answer"}
    <2>1. CASE End(h)
      BY <2>1, IdleEntry DEF End
    <2>2. ASSUME NEW d \in Challenges, RequestCode(h, d)
          PROVE  \E o \in Entries : /\ op' = [op EXCEPT ![h] = o] /\ About(o)
                                    /\ o.pc \in {"idle", "challenge", "answer"}
      BY <2>2, GoesOn, AccountNumbers DEF RequestCode
    <2>3. ASSUME NEW s \in Sessions, NEW t \in Tokens, Refresh(h, s, t)
          PROVE  \E o \in Entries : /\ op' = [op EXCEPT ![h] = o] /\ About(o)
                                    /\ o.pc \in {"idle", "challenge", "answer"}
      <3>1. made < MaxToken /\ Answer(h, s)
        BY <2>3 DEF Refresh
      <3>2. PICK o \in Entries : op' = [op EXCEPT ![h] = o] /\ About(o) /\ o.pc = "answer"
        BY <3>1, Answers
      <3> QED BY <3>2
    <2> QED
      BY <2>1, <2>2, <2>3 DEF CreateChallenge, Deliver, Abandon, ConsumeLogin
  <1>2. op[h].pc # "miss"
    BY DEF RequestCode, CreateChallenge, Deliver, Abandon, ConsumeLogin, Refresh, Idle
  <1>3. UNCHANGED <<account, guesses, uncounted, opened>>
    BY DEF RequestCode, CreateChallenge, Deliver, Abandon, ConsumeLogin, Refresh,
           records, accounts, history
  <1>4. /\ challenge'[c].attempts = challenge[c].attempts
        /\ challenge[c].consumed => challenge'[c].consumed
    <2>1. challenge \in [Challenges -> ChallengeRecords]
      BY Types DEF AuthInv, DataOK
    <2>2. CASE challenge' = challenge
      BY <2>2
    <2>3. CASE CreateChallenge(h)
      <3>1. challenge' = [challenge EXCEPT ![op[h].on].exists = TRUE,
                                           ![op[h].on].of = op[h].of]
        BY <2>3 DEF CreateChallenge
      <3> QED BY <2>1, <3>1 DEF ChallengeRecords
    <2>4. CASE ConsumeLogin(h)
      <3>1. challenge' = [challenge EXCEPT ![op[h].on].consumed = TRUE]
        BY <2>4 DEF ConsumeLogin, Consumed
      <3> QED BY <2>1, <3>1 DEF ChallengeRecords
    <2> QED
      BY <2>2, <2>3, <2>4 DEF RequestCode, Deliver, Abandon, Refresh, records
  <1>5. account <= account'
    <2>1. DataOK
      BY Types DEF AuthInv
    <2> QED BY <1>3, <2>1 DEF DataOK
  <1> QED BY <1>1, <1>2, <1>3, <1>4, <1>5, CodeLeft

LEMMA NoHandler ==
  ASSUME AuthInv, DataOK', op' = op, NEW c \in Challenges,
         UNCHANGED <<guesses, uncounted, opened>>, account <= account',
         \/ challenge' = challenge
         \/ \E d \in Challenges : challenge' = [challenge EXCEPT ![d].expired = TRUE]
  PROVE  CodeInv(c)'
  <1>1. op' \in [Handlers -> Entries] /\ challenge \in [Challenges -> ChallengeRecords]
    BY Types DEF AuthInv, DataOK
  <1>2. /\ challenge'[c].attempts = challenge[c].attempts
        /\ challenge[c].consumed => challenge'[c].consumed
    BY <1>1 DEF ChallengeRecords
  <1>3. /\ Count(op', Wrong, c) = Count(op, Wrong, c)
        /\ Count(op', Opening, c) <= Count(op, Opening, c)
        /\ Count(op', Entering, c) <= Count(op, Entering, c)
    BY <1>1, Numbers
  <1> QED BY <1>1, <1>2, <1>3, CodeQuiet

LEMMA CodesStep ==
  ASSUME AuthInv, [Next]_vars, DataOK', NEW c \in Challenges
  PROVE  CodeInv(c)'
  <1>1. ASSUME NEW h \in Handlers, NEW d \in Challenges,
               RequestCode(h, d) \/ VerifyRight(h, d) \/ VerifyWrong(h, d)
        PROVE  CodeInv(c)'
    BY <1>1, RightStep, WrongStep, OtherCodes
  <1>2. ASSUME NEW h \in Handlers,
               \/ CreateChallenge(h) \/ CountMiss(h) \/ MissUncounted(h)
               \/ CreateAccount(h) \/ ConsumeLogin(h) \/ CreateSession(h)
               \/ Deliver(h) \/ Abandon(h)
        PROVE  CodeInv(c)'
    <2>1. CASE CreateAccount(h) \/ (ConsumeLogin(h) /\ Active(op[h].of))
      BY <2>1, ConsumeStep
    <2>2. CASE \/ CreateChallenge(h) \/ Deliver(h) \/ Abandon(h)
               \/ ConsumeLogin(h) /\ ~Active(op[h].of)
      BY <2>2, OtherCodes
    <2>3. CASE CountMiss(h) \/ MissUncounted(h)
      BY <2>3, MissStep
    <2>4. CASE CreateSession(h)
      BY <2>4, OpenStep
    <2> QED BY <1>2, <2>1, <2>2, <2>3, <2>4
  <1>3. ASSUME NEW h \in Handlers, NEW s \in Sessions, NEW t \in Tokens, Refresh(h, s, t)
        PROVE  CodeInv(c)'
    BY <1>3, OtherCodes
  <1>4. CASE \/ UNCHANGED vars \/ \E s \in Sessions : DeleteAccount(s)
             \/ \E h \in Handlers, s \in Sessions, t \in Tokens :
                  Logout(h, s, t) \/ LogoutLost(h, s, t)
             \/ \E d \in Challenges : ChallengeExpires(d)
             \/ \E s \in Sessions : SessionExpires(s)
    <2>1. op' = op /\ UNCHANGED <<guesses, uncounted, opened>>
      BY <1>4
      DEF vars, records, history, DeleteAccount, Logout, LogoutLost, ChallengeExpires,
          SessionExpires
    <2>2. account <= account'
      <3>1. account' = account
        BY <1>4
        DEF vars, records, accounts, DeleteAccount, Logout, LogoutLost, ChallengeExpires,
            SessionExpires
      <3>2. DataOK
        BY Types DEF AuthInv
      <3> QED BY <3>1, <3>2 DEF DataOK
    <2>3. \/ challenge' = challenge
          \/ \E d \in Challenges : challenge' = [challenge EXCEPT ![d].expired = TRUE]
      BY <1>4
      DEF vars, records, DeleteAccount, Logout, LogoutLost, ChallengeExpires,
          SessionExpires
    <2> QED BY <2>1, <2>2, <2>3, NoHandler
  <1>5. CASE Restart
    BY <1>5, RestartStep
  <1> QED BY <1>1, <1>2, <1>3, <1>4, <1>5 DEF Next

-----------------------------------------------------------------------------
(* Tokens.                                                                 *)

\* What the tokens' invariant needs of the types.
TokenTypes ==
  /\ session \in [Sessions -> SessionRecords] /\ made \in Nat /\ MaxToken \in Nat
  /\ \A s \in Sessions : session[s].token \in Nat /\ session[s].of \in Nat
  /\ account \in Nat /\ deleted \in Nat /\ account <= deleted + 1
  /\ \A s \in Sessions : known[s] \subseteq Nat \ {0}
  /\ cut \subseteq Nat \ {0}
  /\ \A h \in Handlers : op[h].pc = "answer" =>
       op[h].on \in Sessions /\ op[h].token \in Nat \ {0}
  /\ TokenInv

LEMMA TokenFacts == AuthInv => TokenTypes
  <1> SUFFICES ASSUME AuthInv PROVE TokenTypes
    OBVIOUS
  <1>1. /\ DataOK /\ op \in [Handlers -> Entries] /\ TokenInv
        /\ \A h \in Handlers : About(op[h])
    BY Types DEF AuthInv
  <1>2. Tokens \subseteq Nat \ {0} /\ 0..MaxToken \subseteq Nat /\ MaxToken \in Nat
    BY AuthAssumption DEF Tokens
  <1>3. /\ session \in [Sessions -> SessionRecords] /\ made \in Nat
        /\ \A s \in Sessions : session[s].token \in Nat /\ session[s].of \in Nat
        /\ account \in Nat /\ deleted \in Nat /\ account <= deleted + 1
        /\ \A s \in Sessions : known[s] \subseteq Nat \ {0}
        /\ cut \subseteq Nat \ {0}
    <2>1. account \in Nat /\ deleted \in Nat /\ account <= deleted + 1 /\ made \in Nat
      BY <1>1, AuthAssumption DEF DataOK
    <2>2. session \in [Sessions -> SessionRecords]
      BY <1>1 DEF DataOK
    <2>3. \A s \in Sessions : session[s].token \in Nat /\ session[s].of \in Nat
      BY <2>2, AuthAssumption DEF SessionRecords
    <2>4. (\A s \in Sessions : known[s] \subseteq Tokens) /\ cut \subseteq Tokens
      BY <1>1 DEF DataOK
    <2> QED BY <1>2, <2>1, <2>2, <2>3, <2>4
  <1>4. \A h \in Handlers : op[h].pc = "answer" =>
          op[h].on \in Sessions /\ op[h].token \in Nat \ {0}
    BY <1>1, <1>2 DEF About, Entries
  <1> QED BY <1>1, <1>2, <1>3, <1>4 DEF TokenTypes

\* A token that did not exist becomes that of a session, in place of an older one or as
\* its first, and is on its way to one client.
LEMMA NewToken ==
  ASSUME AuthInv, NEW h \in Handlers, NEW s \in Sessions, made < MaxToken,
         \/ session' = [session EXCEPT ![s].token = made + 1]
         \/ session' = [session EXCEPT ![s].token = made + 1, ![s].of = op[h].of],
         made' = made + 1, Answer(h, s),
         UNCHANGED <<known, cut, deleted>>, stray \subseteq stray',
         Live(s)' /\ session'[s].of <= deleted => session'[s].of \in stray'
  PROVE  TokenInv'
  <1>1. TokenTypes
    BY TokenFacts
  <1>2. \A u \in Sessions : session'[u].token = IF u = s THEN made + 1 ELSE session[u].token
    BY <1>1 DEF TokenTypes, SessionRecords
  <1>3. \A u \in Sessions : u # s => session'[u] = session[u]
    BY <1>1 DEF TokenTypes
  <1>4. \A u \in Sessions : session'[u].token <= made'
    BY <1>1, <1>2 DEF TokenTypes, TokenInv
  <1>5. \A u, v \in Sessions :
          u # v /\ session'[u].token = session'[v].token => session'[u].token = 0
    BY <1>1, <1>2 DEF TokenTypes, TokenInv
  <1>6. ASSUME NEW u \in Sessions, NEW t \in Nat, t # 0, Given(session, u, t)
        PROVE  Given(session', u, t)
    <2>1. t <= session[u].token /\ session[u].token <= made /\ session[u].token \in Nat
      BY <1>1, <1>6 DEF Given, TokenTypes, TokenInv
    <2>2. t <= made /\ t # made + 1 /\ t <= session'[u].token
      BY <1>1, <1>2, <2>1 DEF TokenTypes
    <2> QED BY <1>2, <1>6, <2>2 DEF Given
  <1>7. \A u \in Sessions : \A t \in known'[u] : Given(session', u, t)
    BY <1>1, <1>6 DEF TokenTypes, TokenInv
  <1>8. ASSUME NEW g \in Handlers, op'[g].pc = "answer"
        PROVE  Given(session', op'[g].on, op'[g].token)
    <2>1. op \in [Handlers -> Entries]
      BY DEF AuthInv, TypeOK, Entries
    <2>2. CASE g = h
      <3>1. op'[g].on = s /\ op'[g].token = made + 1
        BY <2>1, <2>2 DEF Answer, Idle
      <3>2. Given(session', s, made + 1)
        <4>1. session'[s].token = made + 1 /\ made + 1 \in Nat
          BY <1>1, <1>2 DEF TokenTypes
        <4>2. \A u \in Sessions : u # s => session'[u].token # made + 1
          BY <1>1, <1>2 DEF TokenTypes, TokenInv
        <4> QED BY <4>1, <4>2 DEF Given
      <3> QED BY <3>1, <3>2 DEF Given
    <2>3. CASE g # h
      <3>1. op'[g] = op[g]
        BY <2>1, <2>3 DEF Answer
      <3>2. /\ op[g].on \in Sessions /\ op[g].token \in Nat /\ op[g].token # 0
            /\ Given(session, op[g].on, op[g].token)
        BY <1>1, <1>8, <3>1 DEF TokenTypes, TokenInv
      <3> QED BY <1>6, <3>1, <3>2
    <2> QED BY <2>2, <2>3
  <1>9. \A t \in cut' : t <= made'
    BY <1>1 DEF TokenTypes, TokenInv
  <1>10. \A u \in Sessions : session'[u].token \in cut' => ~Live(u)'
    BY <1>1, <1>2, <1>3 DEF TokenTypes, TokenInv, Live
  <1>11. \A u \in Sessions : Live(u)' /\ session'[u].of <= deleted' => session'[u].of \in stray'
    BY <1>1, <1>3 DEF TokenTypes, TokenInv, Live
  <1> QED BY <1>4, <1>5, <1>7, <1>8, <1>9, <1>10, <1>11 DEF TokenInv

\* Otherwise the tokens stay where they are, no session comes to life again, and what a
\* client is given was on its way to it.
LEMMA SameTokens ==
  ASSUME AuthInv, made' = made,
         \A s \in Sessions : /\ session'[s].token = session[s].token
                             /\ session'[s].of = session[s].of
                             /\ session[s].revoked => session'[s].revoked
                             /\ session[s].expired => session'[s].expired,
         \A h \in Handlers : op'[h].pc = "answer" => op'[h] = op[h],
         \A s \in Sessions : \A t \in known'[s] :
           t \in known[s] \/ \E h \in Handlers : op[h].pc = "answer" /\ op[h].on = s
                                                 /\ op[h].token = t,
         \A t \in cut' : t <= made /\ \/ t \in cut
                                      \/ \A s \in Sessions : session[s].token = t =>
                                           session'[s].revoked,
         \A s \in Sessions : session[s].of <= deleted' =>
           \/ session[s].of <= deleted /\ (session[s].of \in stray => session[s].of \in stray')
           \/ session[s].token = 0 \/ session'[s].revoked
  PROVE  TokenInv'
  <1>1. TokenTypes
    BY TokenFacts
  <1>2. \A s \in Sessions : session'[s].token <= made'
    BY <1>1 DEF TokenTypes, TokenInv
  <1>3. \A s, u \in Sessions :
          s # u /\ session'[s].token = session'[u].token => session'[s].token = 0
    BY <1>1 DEF TokenTypes, TokenInv
  <1>4. \A s \in Sessions : \A t \in known'[s] : Given(session, s, t)
    BY <1>1 DEF TokenTypes, TokenInv
  <1>5. \A s \in Sessions : \A t \in known'[s] : Given(session', s, t)
    BY <1>4 DEF Given
  <1>6. \A h \in Handlers : op'[h].pc = "answer" =>
          Given(session', op'[h].on, op'[h].token)
    BY <1>1 DEF TokenTypes, TokenInv, Given
  <1>7. \A t \in cut' : t <= made'
    OBVIOUS
  <1>8. \A s \in Sessions : session'[s].token \in cut' => ~Live(s)'
    BY <1>1 DEF TokenTypes, TokenInv, Live
  <1>9. \A s \in Sessions : Live(s)' /\ session'[s].of <= deleted' => session'[s].of \in stray'
    BY <1>1 DEF TokenTypes, TokenInv, Live
  <1> QED BY <1>2, <1>3, <1>5, <1>6, <1>7, <1>8, <1>9 DEF TokenInv

\* A logout: only the session that has the token can have one that it makes final.
LEMMA LogoutStep ==
  ASSUME AuthInv, NEW h \in Handlers, NEW s \in Sessions, NEW t \in Tokens,
         Logout(h, s, t) \/ LogoutLost(h, s, t)
  PROVE  TokenInv'
  <1>1. TokenTypes
    BY TokenFacts
  <1>2. /\ t \in known[s] /\ session' = Revoked(s, t)
        /\ UNCHANGED <<deleted, made, known, op, stray>>
        /\ cut' \subseteq cut \cup {u \in known[s] : u <= t}
    BY DEF Logout, LogoutLost, records, accounts, history
  <1>3. session'[s].revoked = (session[s].revoked \/ session[s].token = t)
    BY <1>1, <1>2 DEF TokenTypes, SessionRecords, Revoked
  <1>4. \A u \in Sessions : /\ session'[u].token = session[u].token
                            /\ session'[u].of = session[u].of
                            /\ session'[u].expired = session[u].expired
                            /\ session[u].revoked => session'[u].revoked
    BY <1>1, <1>2 DEF TokenTypes, SessionRecords, Revoked
  <1>5. ASSUME NEW u \in cut'
        PROVE  /\ u <= made
               /\ u \in cut \/ \A x \in Sessions : session[x].token = u => session'[x].revoked
    <2>1. CASE u \in cut
      BY <1>1, <2>1 DEF TokenTypes, TokenInv
    <2>2. CASE u \in known[s] /\ u <= t
      <3>1. Given(session, s, u) /\ Given(session, s, t) /\ session[s].token <= made
        BY <1>1, <1>2, <2>2 DEF TokenTypes, TokenInv
      <3>2. /\ u \in Nat /\ t \in Nat /\ made \in Nat /\ session[s].token \in Nat
            /\ u <= t /\ t <= session[s].token /\ session[s].token <= made
        BY <1>1, <1>2, <2>2, <3>1 DEF TokenTypes, Given
      <3>3. u <= made /\ (session[s].token = u => session[s].token = t)
        BY <3>2
      <3> QED BY <1>3, <3>1, <3>3 DEF Given
    <2> QED BY <1>2, <2>1, <2>2
  <1> QED BY <1>2, <1>4, <1>5, SameTokens

\* A deletion: the sessions of its account end; a deletion of the last account makes it
\* deleted, and no other one.
LEMMA DeletionStep ==
  ASSUME AuthInv, NEW s \in Sessions, DeleteAccount(s)
  PROVE  TokenInv'
  <1> DEFINE k == session[s].of
  <1>1. TokenTypes /\ k \in Nat
    BY TokenFacts DEF TokenTypes
  <1>2. /\ UNCHANGED <<made, known, op, cut>> /\ session' = SessionsAfterDelete(k)
        /\ deleted' = (IF k = account THEN k ELSE deleted) /\ stray' = stray \ {k}
    BY DEF DeleteAccount
  <1> HIDE DEF k
  <1>3. \A u \in Sessions : /\ session'[u].token = session[u].token
                            /\ session'[u].of = session[u].of
                            /\ session[u].expired => session'[u].expired
                            /\ session[u].revoked => session'[u].revoked
                            /\ \/ session[u].token = 0 \/ session[u].of # k
                               \/ session'[u].revoked
    BY <1>1, <1>2 DEF TokenTypes, SessionRecords, SessionsAfterDelete
  <1>4. \A u \in cut' : u <= made /\ u \in cut
    BY <1>1, <1>2 DEF TokenTypes, TokenInv
  <1>5. \A u \in Sessions : session[u].of <= deleted' =>
          \/ session[u].of <= deleted /\ (session[u].of \in stray => session[u].of \in stray')
          \/ session[u].token = 0 \/ session'[u].revoked
    <2>1. ASSUME NEW u \in Sessions, session[u].of <= deleted', session[u].of # k
          PROVE  session[u].of <= deleted /\ (session[u].of \in stray => session[u].of \in stray')
      BY <1>1, <1>2, <2>1 DEF TokenTypes
    <2> QED BY <1>3, <2>1
  <1> QED BY <1>2, <1>3, <1>4, <1>5, SameTokens

\* The steps that leave the sessions' tokens alone; one of them may give an answer.
LEMMA QuietTokens ==
  ASSUME AuthInv, UNCHANGED <<made, cut, stray, deleted>>,
         session' = session \/ \E s \in Sessions : SessionExpires(s),
         \/ known' = known
         \/ \E h \in Handlers : Deliver(h),
         \A h \in Handlers : op'[h].pc = "answer" => op'[h] = op[h]
  PROVE  TokenInv'
  <1>1. TokenTypes
    BY TokenFacts
  <1>2. \A s \in Sessions : /\ session'[s].token = session[s].token
                            /\ session'[s].of = session[s].of
                            /\ session[s].revoked => session'[s].revoked
                            /\ session[s].expired => session'[s].expired
    <2>1. CASE session' = session
      BY <2>1
    <2>2. ASSUME NEW u \in Sessions, SessionExpires(u)
          PROVE  \A s \in Sessions : /\ session'[s].token = session[s].token
                                     /\ session'[s].of = session[s].of
                                     /\ session[s].revoked => session'[s].revoked
                                     /\ session[s].expired => session'[s].expired
      BY <1>1, <2>2 DEF TokenTypes, SessionRecords, SessionExpires
    <2> QED BY <2>1, <2>2
  <1>3. \A s \in Sessions : \A t \in known'[s] :
          \/ t \in known[s]
          \/ \E h \in Handlers : op[h].pc = "answer" /\ op[h].on = s /\ op[h].token = t
    <2>1. CASE known' = known
      BY <2>1
    <2>2. ASSUME NEW h \in Handlers, Deliver(h)
          PROVE  \A s \in Sessions : \A t \in known'[s] :
                   t \in known[s] \/ (op[h].pc = "answer" /\ op[h].on = s /\ op[h].token = t)
      <3>1. /\ op[h].pc = "answer"
            /\ known' = [known EXCEPT ![op[h].on] = @ \cup {op[h].token}]
            /\ known \in [Sessions -> SUBSET Tokens]
        BY <2>2 DEF Deliver, AuthInv, TypeOK
      <3> QED BY <3>1
    <2> QED BY <2>1, <2>2
  <1>4. \A t \in cut' : t <= made /\ t \in cut
    BY <1>1 DEF TokenTypes, TokenInv
  <1> QED BY <1>2, <1>3, <1>4, SameTokens

\* What a handler other than a new answer's does.
LEMMA NoNewAnswer ==
  ASSUME AuthInv, NEW h \in Handlers,
         \/ \E c \in Challenges : RequestCode(h, c) \/ VerifyRight(h, c) \/ VerifyWrong(h, c)
         \/ CreateChallenge(h) \/ CountMiss(h) \/ MissUncounted(h)
         \/ CreateAccount(h) \/ ConsumeLogin(h) \/ Deliver(h) \/ Abandon(h)
  PROVE  \A g \in Handlers : op'[g].pc = "answer" => op'[g] = op[g]
  <1>1. op \in [Handlers -> Entries]
    BY Types DEF AuthInv
  <1>2. \/ End(h)
        \/ \E c \in Challenges, pc \in {"challenge", "consume", "miss"}, of \in Nat :
             Goto(h, pc, c, of)
        \/ \E of \in Nat : Goto(h, "session", op[h].on, of)
    <2>1. 0..MaxAccounts \subseteq Nat
      BY AuthAssumption
    <2> QED
      BY <2>1, AccountNumbers
      DEF RequestCode, VerifyRight, VerifyWrong, CreateChallenge, CountMiss,
          MissUncounted, CreateAccount, ConsumeLogin, Deliver, Abandon
  <1>3. CASE End(h)
    BY <1>1, <1>3 DEF End, Idle
  <1>4. ASSUME NEW c, NEW pc \in {"challenge", "consume", "miss", "session"}, NEW of \in Nat,
               Goto(h, pc, c, of)
        PROVE  \A g \in Handlers : op'[g].pc = "answer" => op'[g] = op[g]
    BY <1>1, <1>4 DEF Goto, Idle
  <1> QED BY <1>2, <1>3, <1>4

LEMMA TokensStep == AuthInv /\ [Next]_vars => TokenInv'
  <1> SUFFICES ASSUME AuthInv, [Next]_vars PROVE TokenInv'
    OBVIOUS
  <1>1. ASSUME NEW h \in Handlers,
               \/ \E c \in Challenges :
                    RequestCode(h, c) \/ VerifyRight(h, c) \/ VerifyWrong(h, c)
               \/ CreateChallenge(h) \/ CountMiss(h) \/ MissUncounted(h)
               \/ CreateAccount(h) \/ ConsumeLogin(h) \/ Deliver(h) \/ Abandon(h)
        PROVE  TokenInv'
    <2>1. \A g \in Handlers : op'[g].pc = "answer" => op'[g] = op[g]
      BY <1>1, NoNewAnswer
    <2>2. /\ UNCHANGED <<made, session, cut, stray>>
          /\ UNCHANGED deleted
          /\ known' = known \/ Deliver(h)
      BY <1>1
      DEF RequestCode, VerifyRight, VerifyWrong, CreateChallenge, CountMiss,
          MissUncounted, CreateAccount, ConsumeLogin, Deliver, Abandon, records, accounts,
          history
    <2> QED BY <2>1, <2>2, QuietTokens
  <1>2. ASSUME NEW h \in Handlers, CreateSession(h)
        PROVE  TokenInv'
    <2>1. PICK s \in Sessions :
            /\ session' = [session EXCEPT ![s].token = made + 1, ![s].of = op[h].of]
            /\ Answer(h, s)
      BY <1>2 DEF CreateSession
    <2>2. /\ made < MaxToken /\ made' = made + 1 /\ UNCHANGED <<known, cut, deleted>>
          /\ stray' = stray \cup ({op[h].of} \cap 0..deleted)
      BY <1>2 DEF CreateSession, accounts
    <2>3. session'[s].of <= deleted => session'[s].of \in stray'
      <3>1. session'[s].of = op[h].of
        BY <2>1, TokenFacts DEF TokenTypes, SessionRecords
      <3>2. op[h].of \in Nat /\ deleted \in Nat
        BY AccountNumbers, AuthAssumption, TokenFacts DEF TokenTypes
      <3> QED BY <2>2, <3>1, <3>2
    <2> QED BY <2>1, <2>2, <2>3, NewToken
  <1>3. ASSUME NEW h \in Handlers, NEW s \in Sessions, NEW t \in Tokens, Refresh(h, s, t)
        PROVE  TokenInv'
    <2>1. /\ session' = [session EXCEPT ![s].token = made + 1] /\ Answer(h, s)
          /\ made < MaxToken /\ made' = made + 1 /\ UNCHANGED <<known, cut, deleted, stray>>
          /\ Live(s)
      BY <1>3 DEF Refresh, Refreshable, accounts, history
    <2>2. session'[s].of <= deleted => session'[s].of \in stray'
      <3>1. session'[s].of = session[s].of
        BY <2>1, TokenFacts DEF TokenTypes, SessionRecords
      <3> QED BY <2>1, <3>1 DEF AuthInv, TokenInv
    <2> QED BY <2>1, <2>2, NewToken
  <1>4. CASE \E h \in Handlers, s \in Sessions, t \in Tokens :
               Logout(h, s, t) \/ LogoutLost(h, s, t)
    BY <1>4, LogoutStep
  <1>5. CASE \E s \in Sessions : DeleteAccount(s)
    BY <1>5, DeletionStep
  <1>6. CASE \/ UNCHANGED vars
             \/ \E c \in Challenges : ChallengeExpires(c)
             \/ \E s \in Sessions : SessionExpires(s)
    <2>1. /\ UNCHANGED <<made, cut, stray, deleted, known, op>>
          /\ session' = session \/ \E s \in Sessions : SessionExpires(s)
      BY <1>6 DEF vars, records, accounts, history, ChallengeExpires, SessionExpires
    <2> QED BY <2>1, QuietTokens
  <1>7. CASE Restart
    <2>1. \A h \in Handlers : op'[h].pc # "answer"
      BY <1>7 DEF Restart, Idle
    <2>2. UNCHANGED <<made, cut, stray, deleted, known, session>>
      BY <1>7 DEF Restart, records, accounts
    <2> QED BY <2>1, <2>2, QuietTokens
  <1> QED BY <1>1, <1>2, <1>3, <1>4, <1>5, <1>6, <1>7 DEF Next

-----------------------------------------------------------------------------
(* The theorems.                                                           *)

LEMMA StepKeeps == AuthInv /\ [Next]_vars => AuthInv'
  <1> SUFFICES ASSUME AuthInv, [Next]_vars PROVE AuthInv'
    OBVIOUS
  <1>1. TypeOK' /\ DataOK' /\ \A h \in Handlers : About(op'[h])
    BY TypesStep
  <1>2. \A c \in Challenges : CodeInv(c)'
    BY <1>1, CodesStep
  <1>3. TokenInv'
    BY TokensStep
  <1> QED BY <1>1, <1>2, <1>3 DEF AuthInv, CodeInv, Challenges

LEMMA NumbersHere ==
  ASSUME AuthInv, NEW c \in Challenges
  PROVE  /\ guesses[c] \in Nat /\ opened[c] \in Nat /\ uncounted[c] \in Nat
         /\ challenge[c].attempts \in Nat /\ AttemptLimit \in Nat
         /\ \A pcs \in Stages : Count(op, pcs, c) \in Nat
         /\ Cardinality(Handlers) \in Nat
  <1>1. op \in [Handlers -> Entries] /\ DataOK
    BY Types DEF AuthInv
  <1>2. \A pcs \in Stages : Count(op, pcs, c) \in Nat /\ Cardinality(Handlers) \in Nat
    BY <1>1, CountType
  <1>3. Cardinality(Handlers) \in Nat
    BY <1>2 DEF Stages
  <1> QED BY <1>1, <1>2, <1>3, AuthAssumption DEF DataOK, ChallengeRecords

LEMMA AuthIsSafe == Spec => []AuthInv
  <1> QED BY AuthInit, StepKeeps, PTL DEF Spec

\* Every state of a run has its type, and the attempts counted on a challenge stay below
\* the limit plus the requests that can overlap.
THEOREM AuthTypes == Spec => []TypeOK
  <1>1. AuthInv => TypeOK
    BY DEF AuthInv
  <1> QED BY <1>1, AuthIsSafe, PTL

\* verifySignup and verifyLogin check attempt_count, compare the code and raise the count
\* in queries of their own: however they interleave, a challenge's code is compared with
\* no more wrong codes than the limit, one for each further handler, and the uncounted.
THEOREM GuessesAreBounded == Spec => []GuessesBounded
  <1>1. AuthInv => GuessesBounded
    <2> SUFFICES ASSUME AuthInv, NEW c \in Challenges
                 PROVE  guesses[c] <= AttemptLimit + Cardinality(Handlers) - 1 + uncounted[c]
      BY DEF GuessesBounded
    <2>1. GuessInv(c)
      BY DEF AuthInv
    <2>2. Count(op, Wrong, c) \in Nat
      BY NumbersHere DEF Stages
    <2> QED BY <2>1, <2>2, NumbersHere DEF GuessInv
  <1> QED BY <1>1, AuthIsSafe, PTL

\* verifySignup and verifyLogin consume a challenge in a query after the one that read it,
\* whatever has become of it, and open the session in one more: a code opens no more
\* sessions than handlers can overlap; and a sign-up's, whose transaction makes the account,
\* no more than accounts have been made, which takes a deletion before each but the first.
THEOREM CodesOpenFew == Spec => []CodeOpensFew
  <1>1. AuthInv => CodeOpensFew
    <2> SUFFICES ASSUME AuthInv, NEW c \in Challenges
                 PROVE  /\ opened[c] <= Cardinality(Handlers)
                        /\ c \in Signups => opened[c] <= account
      BY DEF CodeOpensFew, Challenges
    <2>1. OpenersInv(c) /\ (c \in Signups => SignupInv(c))
      BY DEF AuthInv
    <2>2. /\ Count(op, Entering, c) \in Nat /\ Count(op, Opening, c) \in Nat
          /\ account \in Nat
      BY NumbersHere, TokenFacts DEF Stages, TokenTypes
    <2> QED BY <2>1, <2>2, NumbersHere DEF OpenersInv, SignupInv
  <1> QED BY <1>1, AuthIsSafe, PTL

\* After an answered logout no refresh finds the session by the token it was sent or by
\* one that the same client had before: a session that took a newer token in between is
\* not meant, for the tokens only grow.
THEOREM LogoutsAreFinal == Spec => []LogoutIsFinal
  <1>1. AuthInv => LogoutIsFinal
    BY DEF AuthInv, TokenInv, LogoutIsFinal, Refreshable
  <1> QED BY <1>1, AuthIsSafe, PTL

\* deleteAccount leaves no session of its account alive but those that a verification under
\* way creates after it, whatever other accounts the phone has had; and a refresh token
\* belongs to one session only.
THEOREM DeletionsEndSessions == Spec => []DeletionEndsSessions
  <1>1. AuthInv => DeletionEndsSessions
    BY DEF AuthInv, TokenInv, DeletionEndsSessions, Live
  <1> QED BY <1>1, AuthIsSafe, PTL
=============================================================================
