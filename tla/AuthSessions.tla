---------------------------- MODULE AuthSessions ----------------------------
(***************************************************************************)
(* The accounts of one phone, from sign-up to deletion: the codes sent to  *)
(* it, the sessions that verified codes open, the refresh tokens that      *)
(* rotate in them, and what logout and deletion end.                       *)
(*                                                                         *)
(* A step is one database query.  That of verifyLogin is two statements,   *)
(* between which nothing can happen that makes a difference to it.         *)
(* Handlers run concurrently; a query can fail, and an answer can be lost  *)
(* on its way to the client.  Tokens are numbered in the order in which    *)
(* they are made.                                                          *)
(* Every sign-up here asks for one and the same username, so that one      *)
(* account at a time is active.  A deletion frees phone and username, and  *)
(* a sign-up may make another account: accounts are numbered as well.      *)
(* Not here: the access tokens, which no record keeps; deletedAccounts is  *)
(* in PushDevices.                                                         *)
(***************************************************************************)
EXTENDS Integers, FiniteSets

CONSTANTS
  Handlers,        \* the requests that may run at the same time
  Signups, Logins, \* the challenges that may be made, of either kind
  MaxAccounts,     \* bound: the accounts that may be made
  Sessions,        \* bound: the sessions that may be created
  MaxToken,        \* bound: the refresh tokens that may be made
  MaxUncounted,    \* bound: failures to count a wrong code
  AttemptLimit     \* 5 in the code

ASSUME AuthAssumption ==
  /\ IsFiniteSet(Handlers) /\ Handlers # {}
  /\ Signups \cap Logins = {}
  /\ AttemptLimit \in Nat \ {0}
  /\ MaxAccounts \in Nat /\ MaxToken \in Nat /\ MaxUncounted \in Nat

VARIABLES
  account,    \* the accounts made: the last of them may be active
  deleted,    \* those of status 'deleted'
  challenge,  \* signup_challenge and login_challenge
  session,    \* auth_session
  made,       \* the refresh tokens made
  known,      \* clients: the refresh tokens a session's client was given
  op,         \* what each handler does
  guesses,    \* history: wrong codes compared with a challenge's code
  uncounted,  \* history: those that attempt_count does not have
  opened,     \* history: sessions that a challenge's code has opened
  cut,        \* history: a logout was answered, and was sent this token or a newer one
  stray       \* history: the deleted accounts for which a session was created since

accounts == <<account, deleted>>
records == <<accounts, challenge, session, made>>
history == <<guesses, uncounted, opened, cut, stray>>
vars == <<records, known, op, history>>

Challenges == Signups \cup Logins
Tokens == 1..MaxToken
NoRecord == "norecord"
Idle == [pc |-> "idle", on |-> NoRecord, of |-> 0, token |-> 0]

Live(s) == session[s].token # 0 /\ ~session[s].revoked /\ ~session[s].expired

\* The types; and attempt_count stays within the limit but for overlapping requests.
TypeOK ==
  /\ account \in 0..MaxAccounts
  /\ deleted \in 0..account /\ account <= deleted + 1
  /\ challenge \in [Challenges ->
       [exists : BOOLEAN, of : 0..MaxAccounts, consumed : BOOLEAN, expired : BOOLEAN,
        attempts : 0..(AttemptLimit + Cardinality(Handlers) - 1)]]
  /\ session \in [Sessions ->
       [of : 0..MaxAccounts, token : 0..MaxToken, revoked : BOOLEAN, expired : BOOLEAN]]
  /\ made \in 0..MaxToken
  /\ stray \subseteq 0..deleted
  /\ known \in [Sessions -> SUBSET Tokens]
  /\ op \in [Handlers ->
       [pc : {"idle", "challenge", "miss", "consume", "session", "answer"},
        on : Challenges \cup Sessions \cup {NoRecord}, of : 0..MaxAccounts,
        token : 0..MaxToken]]
  /\ guesses \in [Challenges -> Nat] /\ opened \in [Challenges -> Nat]
  /\ uncounted \in [Challenges -> 0..MaxUncounted]
  /\ cut \subseteq Tokens

Init ==
  /\ account = 0 /\ deleted = 0
  /\ challenge = [c \in Challenges |->
       [exists |-> FALSE, of |-> 0, consumed |-> FALSE, expired |-> FALSE, attempts |-> 0]]
  /\ session = [s \in Sessions |->
       [of |-> 0, token |-> 0, revoked |-> FALSE, expired |-> FALSE]]
  /\ made = 0
  /\ known = [s \in Sessions |-> {}]
  /\ op = [h \in Handlers |-> Idle]
  /\ guesses = [c \in Challenges |-> 0] /\ uncounted = guesses /\ opened = guesses
  /\ cut = {} /\ stray = {}

Free == account = deleted
Active(k) == k = account /\ ~Free

Goto(h, pc, on, of) ==
  op' = [op EXCEPT ![h] = [Idle EXCEPT !.pc = pc, !.on = on, !.of = of]]
End(h) == op' = [op EXCEPT ![h] = Idle]

-----------------------------------------------------------------------------
(* Codes: requestSignup, requestLogin, verifySignup, verifyLogin.          *)

\* The conflict lookup of a sign-up, the account lookup of a login.
RequestCode(h, c) ==
  /\ op[h] = Idle /\ ~challenge[c].exists
  /\ Free <=> c \in Signups
  /\ Goto(h, "challenge", c, IF c \in Signups THEN 0 ELSE account)
  /\ UNCHANGED <<records, known, history>>

CreateChallenge(h) ==
  LET c == op[h].on
  IN /\ op[h].pc = "challenge" /\ ~challenge[c].exists
     /\ challenge' = [challenge EXCEPT ![c].exists = TRUE, ![c].of = op[h].of]
     /\ End(h)
     /\ UNCHANGED <<accounts, session, made, known, history>>

\* Faulty: one attempt too many, and a code that can be used again.
OpenOffByOne(c) ==
  challenge[c].exists /\ ~challenge[c].consumed /\ ~challenge[c].expired
  /\ challenge[c].attempts <= AttemptLimit
OpenReusable(c) ==
  challenge[c].exists /\ ~challenge[c].expired /\ challenge[c].attempts < AttemptLimit
\* The challenge is neither consumed nor expired, and has attempts left.
Open(c) ==
  challenge[c].exists /\ ~challenge[c].consumed /\ ~challenge[c].expired
  /\ challenge[c].attempts < AttemptLimit

\* The challenge is read and the code compared with what was read.
VerifyRight(h, c) ==
  /\ op[h] = Idle /\ Open(c)
  /\ Goto(h, "consume", c, challenge[c].of)
  /\ UNCHANGED <<records, known, history>>

VerifyWrong(h, c) ==
  /\ op[h] = Idle /\ Open(c)
  /\ Goto(h, "miss", c, 0)
  /\ guesses' = [guesses EXCEPT ![c] = @ + 1]
  /\ UNCHANGED <<records, known, uncounted, opened, cut, stray>>

\* attempt_count += 1, whatever became of the challenge meanwhile.
CountMiss(h) ==
  /\ op[h].pc = "miss"
  /\ challenge' = [challenge EXCEPT ![op[h].on].attempts = @ + 1]
  /\ End(h)
  /\ UNCHANGED <<accounts, session, made, known, history>>

\* The query failed, and its error is ignored.
MissUncounted(h) ==
  LET c == op[h].on
  IN /\ op[h].pc = "miss" /\ uncounted[c] < MaxUncounted
     /\ uncounted' = [uncounted EXCEPT ![c] = @ + 1]
     /\ End(h)
     /\ UNCHANGED <<records, known, guesses, opened, cut, stray>>

Consumed(c) == challenge' = [challenge EXCEPT ![c].consumed = TRUE]

\* A sign-up consumes its challenge, consumed or not, in the transaction that creates
\* the account, which the index on the username refuses while another is active.
CreateAccount(h) ==
  LET c == op[h].on
  IN /\ op[h].pc = "consume" /\ c \in Signups
     /\ Free /\ account < MaxAccounts
     /\ account' = account + 1
     /\ Consumed(c)
     /\ Goto(h, "session", c, account + 1)
     /\ UNCHANGED <<deleted, session, made, known, history>>

\* A login consumes its challenge as well, and asks for the account to be active.
ConsumeLogin(h) ==
  LET c == op[h].on
  IN /\ op[h].pc = "consume" /\ c \in Logins
     /\ Consumed(c)
     /\ IF Active(op[h].of) THEN Goto(h, "session", c, op[h].of) ELSE End(h)
     /\ UNCHANGED <<accounts, session, made, known, history>>

Answer(h, s) ==
  op' = [op EXCEPT ![h] = [Idle EXCEPT !.pc = "answer", !.on = s, !.token = made + 1]]

\* createSession, which looks neither at the challenge nor at the account.
CreateSession(h) ==
  /\ op[h].pc = "session" /\ made < MaxToken
  /\ \E s \in {x \in Sessions : session[x].token = 0} :
       /\ session' = [session EXCEPT ![s].token = made + 1, ![s].of = op[h].of]
       /\ Answer(h, s)
  /\ made' = made + 1
  /\ opened' = [opened EXCEPT ![op[h].on] = @ + 1]
  /\ stray' = stray \cup ({op[h].of} \cap 0..deleted)
  /\ UNCHANGED <<accounts, challenge, known, guesses, uncounted, cut>>

-----------------------------------------------------------------------------
(* Tokens: refresh and logout.                                             *)

\* Faulty: a revoked session can be refreshed.
RefreshableRevoked(s, t) == session[s].token = t /\ ~session[s].expired
\* The session that the conditional UPDATE of refresh finds by its token.
Refreshable(s, t) == session[s].token = t /\ Live(s)

\* One statement replaces the token of the session: the old one is spent.
Refresh(h, s, t) ==
  /\ op[h] = Idle /\ t \in known[s] /\ Refreshable(s, t) /\ made < MaxToken
  /\ session' = [session EXCEPT ![s].token = made + 1]
  /\ made' = made + 1
  /\ Answer(h, s)
  /\ UNCHANGED <<accounts, challenge, known, history>>

\* The client gets its tokens.
Deliver(h) ==
  /\ op[h].pc = "answer"
  /\ known' = [known EXCEPT ![op[h].on] = @ \cup {op[h].token}]
  /\ End(h)
  /\ UNCHANGED <<records, history>>

\* The session that has the token is revoked; without one nothing changes.
Revoked(s, t) ==
  [session EXCEPT ![s].revoked = @ \/ session[s].token = t]

\* logout answers 204 whether it found a session or not.
Logout(h, s, t) ==
  /\ op[h] = Idle /\ t \in known[s]
  /\ session' = Revoked(s, t)
  /\ cut' = cut \cup {u \in known[s] : u <= t}
  /\ UNCHANGED <<accounts, challenge, made, known, op, guesses, uncounted,
                 opened, stray>>

\* Its answer is lost after the query.
LogoutLost(h, s, t) ==
  /\ op[h] = Idle /\ t \in known[s]
  /\ session' = Revoked(s, t)
  /\ UNCHANGED <<accounts, challenge, made, known, op, history>>

-----------------------------------------------------------------------------
(* deleteAccount.                                                          *)

\* Faulty: the sessions stay.
SessionsKept(k) == session
\* Every session of the account is revoked and expires.
SessionsAfterDelete(k) ==
  [s \in Sessions |->
     IF session[s].token = 0 \/ session[s].of # k THEN session[s]
     ELSE [session[s] EXCEPT !.revoked = TRUE, !.expired = TRUE]]

\* The client of a session was given an access token, and asks for the deletion of its
\* account, deleted or not.
DeleteAccount(s) ==
  LET k == session[s].of
  IN /\ known[s] # {}
     /\ deleted' = IF k = account THEN k ELSE deleted
     /\ session' = SessionsAfterDelete(k)
     /\ stray' = stray \ {k}
     /\ UNCHANGED <<account, challenge, made, known, op, guesses, uncounted, opened, cut>>

-----------------------------------------------------------------------------
(* The environment.                                                        *)

\* A query fails, before or after it took effect, or the client is gone.
Abandon(h) ==
  /\ op[h].pc \notin {"idle", "miss"}
  /\ End(h)
  /\ UNCHANGED <<records, known, history>>

ChallengeExpires(c) ==
  /\ challenge[c].exists /\ ~challenge[c].expired
  /\ challenge' = [challenge EXCEPT ![c].expired = TRUE]
  /\ UNCHANGED <<accounts, session, made, known, op, history>>

\* REFRESH_TOKEN_DAYS after its creation: a refresh does not put it off.
SessionExpires(s) ==
  /\ session[s].token # 0 /\ ~session[s].expired
  /\ session' = [session EXCEPT ![s].expired = TRUE]
  /\ UNCHANGED <<accounts, challenge, made, known, op, history>>

\* A restart ends every request.
Restart ==
  /\ uncounted' = [c \in Challenges |->
       uncounted[c] + Cardinality({h \in Handlers : op[h].pc = "miss" /\ op[h].on = c})]
  /\ \A c \in Challenges : uncounted'[c] <= MaxUncounted
  /\ op' = [h \in Handlers |-> Idle]
  /\ UNCHANGED <<records, known, guesses, opened, cut, stray>>

Next ==
  \/ \E h \in Handlers :
       \/ \E c \in Challenges : RequestCode(h, c) \/ VerifyRight(h, c) \/ VerifyWrong(h, c)
       \/ CreateChallenge(h) \/ CountMiss(h) \/ MissUncounted(h)
       \/ CreateAccount(h) \/ ConsumeLogin(h) \/ CreateSession(h) \/ Deliver(h)
       \/ \E s \in Sessions, t \in Tokens :
            Refresh(h, s, t) \/ Logout(h, s, t) \/ LogoutLost(h, s, t)
       \/ Abandon(h)
  \/ \E c \in Challenges : ChallengeExpires(c)
  \/ \E s \in Sessions : SessionExpires(s) \/ DeleteAccount(s)
  \/ Restart

Spec == Init /\ [][Next]_vars

-----------------------------------------------------------------------------
(* Properties.                                                             *)

\* attempt_count is checked, compared and raised by separate queries: the code of a
\* challenge is compared with no more wrong codes than the limit, one more for each
\* request that can overlap, and those whose count failed.
GuessesBounded ==
  \A c \in Challenges :
    guesses[c] <= AttemptLimit + Cardinality(Handlers) - 1 + uncounted[c]

\* A code opens one session, but for the requests that read the challenge before the
\* first consumed it.  A sign-up's opens one for each account made, however many they
\* are: another only when the account has been deleted in the meantime.
CodeOpensFew ==
  /\ \A c \in Challenges : opened[c] <= Cardinality(Handlers)
  /\ \A c \in Signups : opened[c] <= account

\* An answered logout is final for the token it was sent and for every older one: none
\* of them refreshes a session again, whatever was lost or under way.
LogoutIsFinal == \A s \in Sessions : \A t \in cut : ~Refreshable(s, t)

\* A deleted account has no session that can be refreshed, unless a verification that
\* found or made it active created one afterwards; no two sessions share a token.
DeletionEndsSessions ==
  /\ \A s \in Sessions : Live(s) /\ session[s].of <= deleted => session[s].of \in stray
  /\ \A s, u \in Sessions : s # u /\ Live(s) => session[s].token # session[u].token
=============================================================================
