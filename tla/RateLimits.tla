----------------------------- MODULE RateLimits -----------------------------
(***************************************************************************)
(* The two rate limiters, both in RAM: memoryMessageRateLimiter for one    *)
(* account, with its clientIds and its cleanup, and the fixed windows of   *)
(* the HTTP limiters (rateLimiter and endpointLimiter are the same code).  *)
(* They share nothing, so a behaviour is about one of them.                *)
(*                                                                         *)
(* A caller reads the clock before it has the mutex: calls are decided in  *)
(* another order than that of their readings, at most MaxLag later.        *)
(***************************************************************************)
EXTENDS Integers, FiniteSets

CONSTANTS Callers,
          ClientIds, NoClientId,  \* of messages; a message may come without one
          Keys,                   \* of requests: address and path, or account and bucket
          Limit, Window,          \* of each limiter: 50 in 60 s; 5 to 300 in 1 to 10 min
          Penalty, TTL,           \* of messages: 5 min, 24 h
          MaxEntries,             \* 10000 keys: above it expired entries are swept
          MaxLag,                 \* bound, of each limiter: from the reading to the mutex
          MaxClock                \* bound, of each limiter: readings of the clock

Limiters == {"message", "http"}
Messages == "messages"

\* The wait for the mutex is short against the times it is compared with: about half a
\* window of requests at most, what a penalty lasts longer than the window of messages,
\* half of what the TTL lasts longer than a penalty.
ASSUME LimitsAssumption ==
  /\ NoClientId \notin ClientIds /\ Messages \notin Keys /\ IsFiniteSet(Keys)
  /\ {Limit, Window, MaxLag, MaxClock} \subseteq [Limiters -> Nat \ {0}]
  /\ {Penalty, TTL, MaxEntries} \subseteq Nat \ {0}
  /\ Window["message"] + MaxLag["message"] <= Penalty
  /\ Penalty + 2 * MaxLag["message"] < TTL
  /\ 2 * MaxLag["http"] <= Window["http"] + 3

VARIABLES
  limiter,       \* which of the two this behaviour is about
  clock,
  call,          \* each caller: what it asks about, and its reading
  sweepAt,       \* cleanup: the time of the tick it works on, or Never
  timestamps,    \* memoryMessageRateState
  blockedUntil,
  dedup,         \* the expiry of each clientId, or Never
  lastSeen,
  entries,       \* rateEntry of each key; without one, the zero entry
  log,           \* history: the calls admitted with a reading of the last Window
  swept,         \* history: the keys whose entry the call of another key dropped
  banned,        \* history: the end of the last penalty, or Never
  earned,        \* history: messages admitted since it was imposed, as far as Limit
  served         \* history: when each clientId was admitted, unless forgotten

vars == <<limiter, clock, call, sweepAt, timestamps, blockedUntil, dedup, lastSeen,
          entries, log, swept, banned, earned, served>>
stateVars == <<timestamps, blockedUntil, dedup, lastSeen>>
historyVars == <<log, swept, banned, earned, served>>

Never == -1
Ids == ClientIds \cup {NoClientId}
NoCall == [pc |-> "idle", about |-> NoClientId, now |-> Never]
Zero == [count |-> 0, reset |-> Never]

\* A call that was admitted: its reading, and a number where there are several of one.
Admissions == [at : Nat, n : Nat]

TypeOK ==
  /\ limiter \in Limiters
  /\ clock \in 0 .. MaxClock[limiter]
  /\ call \in [Callers -> [pc : {"idle", "check", "admitted"}, about : Ids \cup Keys,
                           now : Nat \cup {Never}]]
  /\ sweepAt \in Nat \cup {Never}
  /\ timestamps \subseteq Admissions
  /\ IsFiniteSet(timestamps) /\ Cardinality(timestamps) <= Limit["message"]
  /\ blockedUntil \in Nat \cup {Never}
  /\ dedup \in [ClientIds -> Nat \cup {Never}]
  /\ lastSeen \in Nat
  /\ entries \in [Keys -> [count : 0 .. Limit["http"] + 1, reset : Nat \cup {Never}]]
  /\ log \in [Keys \cup {Messages} -> SUBSET Admissions]
  /\ \A x \in Keys \cup {Messages} : IsFiniteSet(log[x])
  /\ swept \subseteq Keys
  /\ banned \in Nat \cup {Never}
  /\ earned \in 0 .. Limit["message"]
  /\ served \in [ClientIds -> Nat \cup {Never}]

Init ==
  /\ limiter \in Limiters
  /\ clock = 0
  /\ call = [c \in Callers |-> NoCall]
  /\ sweepAt = Never
  /\ timestamps = {} /\ blockedUntil = Never /\ lastSeen = 0
  /\ dedup = [i \in ClientIds |-> Never]
  /\ entries = [k \in Keys |-> Zero]
  /\ log = [x \in Keys \cup {Messages} |-> {}]
  /\ swept = {}
  /\ banned = Never /\ earned = 0
  /\ served = [i \in ClientIds |-> Never]

Recent(S, since) == {a \in S : a.at > since}

\* One more, with a reading of now.
Admission(x, now) ==
  LET Numbered(n) == [at |-> now, n |-> n]
      known == timestamps \cup log[x]
  IN Numbered(CHOOSE n \in 0 .. Cardinality(known) : Numbered(n) \notin known)

Logged(x, now) ==
  [log EXCEPT ![x] = Recent(@ \cup {Admission(x, now)}, clock - Window[limiter])]

\* Time passes, but not beyond the lag of a call or of the cleanup.
Tick ==
  /\ clock < MaxClock[limiter]
  /\ \A c \in Callers : call[c].pc = "check" => clock < call[c].now + MaxLag[limiter]
  /\ sweepAt # Never => clock < sweepAt + MaxLag[limiter]
  /\ clock' = clock + 1
  /\ log' = [x \in DOMAIN log |-> Recent(log[x], clock' - Window[limiter])]
  /\ UNCHANGED <<limiter, call, sweepAt, stateVars, entries, swept, banned, earned, served>>

Ask(c, x) ==
  /\ call[c] = NoCall
  /\ call' = [call EXCEPT ![c] = [pc |-> "check", about |-> x, now |-> clock]]
  /\ UNCHANGED <<limiter, clock, sweepAt, stateVars, entries, historyVars>>

-----------------------------------------------------------------------------
(* memoryMessageRateLimiter                                                *)

\* The admission lock: one send at a time with a clientId, or with none.
Send(c, i) ==
  /\ limiter = "message"
  /\ \A d \in Callers : call[d].pc # "idle" => call[d].about # i
  /\ Ask(c, i)

Duplicate(c) == LET i == call[c].about IN i \in ClientIds /\ dedup[i] > call[c].now
Blocked(c) == ~Duplicate(c) /\ blockedUntil > call[c].now

\* Faulty: the window is one unit short.
KeptNarrow(c) == Recent(timestamps, call[c].now - Window["message"] + 1)
\* The timestamps inside the window.
Kept(c) == Recent(timestamps, call[c].now - Window["message"])
HasRoom(c) == Cardinality(Kept(c)) < Limit["message"]

Checking(c) ==
  /\ limiter = "message" /\ call[c].pc = "check"
  /\ lastSeen' = call[c].now
  /\ UNCHANGED <<limiter, clock, sweepAt, entries>>

\* A duplicate is answered, and a penalty refused, without counting.
CheckUncounted(c) ==
  /\ Duplicate(c) \/ Blocked(c)
  /\ Checking(c)
  /\ call' = [call EXCEPT ![c] = NoCall]
  /\ UNCHANGED <<timestamps, blockedUntil, dedup, historyVars>>

\* Faulty: the penalty is no longer than the window.
WindowEnd(c) == call[c].now + Window["message"]
PenaltyEnd(c) == call[c].now + Penalty

\* The limit is reached: 429 until the penalty is over.
CheckRefuse(c) ==
  /\ ~Duplicate(c) /\ ~Blocked(c) /\ ~HasRoom(c)
  /\ Checking(c)
  /\ timestamps' = Kept(c)
  /\ blockedUntil' = PenaltyEnd(c)
  /\ banned' = blockedUntil' /\ earned' = 0
  /\ call' = [call EXCEPT ![c] = NoCall]
  /\ UNCHANGED <<dedup, log, swept, served>>

CheckAdmit(c) ==
  LET now == call[c].now
      i == call[c].about
      Remember(f, t) == IF i \in ClientIds THEN [f EXCEPT ![i] = t] ELSE f
  IN /\ ~Duplicate(c) /\ ~Blocked(c) /\ HasRoom(c)
     /\ Checking(c)
     /\ timestamps' = Kept(c) \cup {Admission(Messages, now)}
     /\ dedup' = Remember(dedup, now + TTL)
     /\ served' = Remember(served, now)
     /\ log' = Logged(Messages, now)
     /\ earned' = IF earned < Limit["message"] THEN earned + 1 ELSE earned
     /\ call' = [call EXCEPT ![c] = IF i \in ClientIds THEN [@ EXCEPT !.pc = "admitted"]
                                    ELSE NoCall]
     /\ UNCHANGED <<blockedUntil, swept, banned>>

\* The message is accepted, or accept refused it: Forget, and it still counts.
Keep(c) ==
  /\ call[c].pc = "admitted"
  /\ call' = [call EXCEPT ![c] = NoCall]
  /\ UNCHANGED <<limiter, clock, sweepAt, stateVars, entries, historyVars>>

Forget(c) ==
  /\ call[c].pc = "admitted"
  /\ dedup' = [dedup EXCEPT ![call[c].about] = Never]
  /\ served' = [served EXCEPT ![call[c].about] = Never]
  /\ call' = [call EXCEPT ![c] = NoCall]
  /\ UNCHANGED <<limiter, clock, sweepAt, timestamps, blockedUntil, lastSeen, entries,
                 log, swept, banned, earned>>

\* cleanup: the ticker fires, and the loop gets to it.
CleanupTick ==
  /\ limiter = "message" /\ sweepAt = Never
  /\ sweepAt' = clock
  /\ UNCHANGED <<limiter, clock, call, stateVars, entries, historyVars>>

\* Faulty: an entry whose time has half passed goes as well.
LiveShort == {i \in ClientIds : dedup[i] > sweepAt + TTL \div 2}
\* The clientIds whose entry has not expired.
Live == {i \in ClientIds : dedup[i] > sweepAt}

\* Faulty: an account without live clientIds is forgotten, whenever it was seen.
UnseenWhenEmpty == Live = {}
\* The account has not called for TTL and has no clientIds left.
Unseen == Live = {} /\ sweepAt - lastSeen > TTL

Cleanup ==
  /\ sweepAt # Never
  /\ dedup' = [i \in ClientIds |-> IF i \in Live THEN dedup[i] ELSE Never]
  /\ IF Unseen
     THEN timestamps' = {} /\ blockedUntil' = Never /\ lastSeen' = 0
     ELSE UNCHANGED <<timestamps, blockedUntil, lastSeen>>
  /\ sweepAt' = Never
  /\ UNCHANGED <<limiter, clock, call, entries, historyVars>>

-----------------------------------------------------------------------------
(* allowWithInfo of the HTTP limiters                                      *)

Request(c, k) == limiter = "http" /\ Ask(c, k)

Expired(entry, now) == entry.reset < now
Held == Cardinality({k \in Keys : entries[k] # Zero})

\* Expired entries are dropped when there are too many.
Swept(now) == [k \in Keys |-> IF Held > MaxEntries /\ Expired(entries[k], now)
                              THEN Zero ELSE entries[k]]

\* The window that holds now, or a new one: a refused request counts as well.  The count
\* above Limit is not told apart.
Counted(entry, now) ==
  IF Expired(entry, now) THEN [count |-> 1, reset |-> now + Window["http"]]
  ELSE [entry EXCEPT !.count = IF @ <= Limit["http"] THEN @ + 1 ELSE @]

Allow(c) ==
  LET k == call[c].about
      entry == Counted(Swept(call[c].now)[k], call[c].now)
  IN /\ limiter = "http" /\ call[c].pc = "check"
     /\ entries' = [Swept(call[c].now) EXCEPT ![k] = entry]
     /\ swept' = swept \cup {j \in Keys \ {k} : entries'[j] # entries[j]}
     /\ log' = IF entry.count <= Limit["http"] THEN Logged(k, call[c].now) ELSE log
     /\ call' = [call EXCEPT ![c] = NoCall]
     /\ UNCHANGED <<limiter, clock, sweepAt, stateVars, banned, earned, served>>

-----------------------------------------------------------------------------
Next ==
  \/ Tick
  \/ \E c \in Callers :
       \/ \E i \in Ids : Send(c, i)
       \/ CheckUncounted(c) \/ CheckRefuse(c) \/ CheckAdmit(c) \/ Keep(c) \/ Forget(c)
       \/ \E k \in Keys : Request(c, k)
       \/ Allow(c)
  \/ CleanupTick \/ Cleanup

Spec == Init /\ [][Next]_vars

-----------------------------------------------------------------------------
(* Properties.                                                             *)

\* "50 messages in 60 seconds" (the constants of rate_limit.go): of the messages that
\* arrived in the last Window no more than Limit were admitted, whatever the order
\* they were decided in and whatever the cleanup forgot.  Of requests, it is no more than
\* twice the limit, the end of one fixed window and the beginning of the next; and three
\* times if the sweep of a full table has dropped the entry of the key, because a late
\* call then opens a window that begins before the dropped one has ended.
WindowHolds ==
  /\ TypeOK
  /\ Cardinality(log[Messages]) <= Limit["message"]
  /\ \A k \in Keys :
       Cardinality(log[k]) <= (IF k \in swept THEN 3 ELSE 2) * Limit["http"]

\* No message is admitted during a penalty, and no cleanup forgets it: those that arrived
\* before its end had arrived when it was imposed.
PenaltyServed ==
  \A a \in log[Messages] :
    a.at < banned => a.at <= banned - Penalty + MaxLag["message"]

\* A client that comes back after a penalty can send Limit messages before the next one.
PenaltyEarned == [][banned' > banned => earned >= Limit["message"]]_vars

\* A clientId that was admitted and not forgotten is not admitted again for TTL
\* (messageDedupTTL): the cleanup drops no live entry, a late caller finds none expired.
DedupHolds ==
  [][\A i \in ClientIds :
       served[i] # Never /\ served'[i] \notin {served[i], Never} => clock >= served[i] + TTL]_vars
=============================================================================
