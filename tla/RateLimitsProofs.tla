-------------------------- MODULE RateLimitsProofs --------------------------
(***************************************************************************)
(* Proofs about RateLimits, for any limits, windows, keys, clientIds and   *)
(* concurrent calls, and any lag that LimitsAssumption allows.             *)
(***************************************************************************)
EXTENDS RateLimits, FiniteSetTheorems, TLAPS

\* Readings are of the past, and no older than the lag; a call is of its limiter.
Timely ==
  /\ \A c \in Callers :
       /\ call[c].pc # "idle" => call[c].now \in Nat /\ call[c].now <= clock
       /\ call[c].pc = "check" => /\ clock <= call[c].now + MaxLag[limiter]
                                  /\ limiter = "message" => call[c].about \in Ids
                                  /\ limiter = "http" => call[c].about \in Keys
       /\ call[c].pc = "admitted" => limiter = "message" /\ call[c].about \in ClientIds
  /\ sweepAt # Never =>
       limiter = "message" /\ sweepAt <= clock /\ clock <= sweepAt + MaxLag[limiter]

\* What arrived in the last Window is among the timestamps, and these are not younger
\* than the last call of the account, but for the lag.
MessageLog ==
  /\ limiter = "http" => log[Messages] = {}
  /\ log[Messages] \subseteq timestamps
  /\ \A a \in log[Messages] : a.at > clock - Window["message"]
  /\ \A a \in timestamps : a.at <= clock /\ a.at <= lastSeen + MaxLag["message"]

\* The account knows its last penalty, unless a cleanup forgot it when it was over for
\* every call that was waiting.
PenaltyKnown ==
  /\ banned - Penalty <= clock
  /\ \/ blockedUntil = banned /\ banned <= lastSeen + Penalty + MaxLag["message"]
     \/ blockedUntil = Never /\ banned + MaxLag["message"] < clock
  /\ PenaltyServed

\* The messages that count towards the next penalty have arrived since the last one.
SincePenalty == {a \in timestamps : a.at > banned - Penalty + MaxLag["message"]}
EarnedSince == earned < Limit["message"] => Cardinality(SincePenalty) <= earned

\* The entry of a clientId that was admitted, or its time has passed.
DedupKept ==
  \A i \in ClientIds :
    served[i] # Never => dedup[i] = served[i] + TTL \/ clock >= served[i] + TTL

\* The calls of a key admitted in the last Window are of the last three of its fixed
\* windows, A, B and C, which end at a, b and r.  Each begins after the one before it has
\* ended, or within the lag before that if the entry was swept; if it never was, no call
\* of A is left.
Follow(k, A, B, C, a, b, r) ==
  LET L == Limit["http"]
      W == Window["http"]
      Lag == MaxLag["http"]
  IN /\ log[k] \subseteq A \cup B \cup C
     /\ IsFiniteSet(A) /\ Cardinality(A) <= L /\ \A x \in A : x.at <= a
     /\ IsFiniteSet(B) /\ Cardinality(B) <= L /\ \A x \in B : x.at <= b
     /\ IsFiniteSet(C) /\ Cardinality(C) <= L /\ \A x \in C : x.at <= r
     /\ a + W - Lag < b /\ b + W - Lag < r
     /\ IF entries[k].reset = Never
        THEN r < clock
        ELSE r = entries[k].reset /\ Cardinality(C) <= entries[k].count
     /\ k \notin swept => /\ A = {} /\ b + W < r
                          /\ entries[k].reset = Never => B = {} /\ C = {}

Windows(k) ==
  \E A, B, C \in SUBSET Admissions, a, b, r \in Int : Follow(k, A, B, C, a, b, r)

RateInv ==
  /\ TypeOK /\ Timely /\ MessageLog /\ PenaltyKnown /\ EarnedSince /\ DedupKept
  /\ \A k \in Keys : Windows(k)

-----------------------------------------------------------------------------
(* The constants, and the calls that are admitted.                         *)

LEMMA Constants ==
  /\ Limiters = {"message", "http"} /\ Messages \notin Keys
  /\ \A l \in Limiters : /\ Limit[l] \in Nat /\ Limit[l] > 0
                         /\ Window[l] \in Nat /\ Window[l] > 0
                         /\ MaxLag[l] \in Nat /\ MaxLag[l] > 0
                         /\ MaxClock[l] \in Nat
  /\ Penalty \in Nat /\ TTL \in Nat
  /\ Window["message"] + MaxLag["message"] <= Penalty
  /\ Penalty + 2 * MaxLag["message"] < TTL
  /\ 2 * MaxLag["http"] <= Window["http"] + 3
  <1>1. {Limit, Window, MaxLag, MaxClock} \subseteq [Limiters -> Nat \ {0}]
    BY LimitsAssumption
  <1>2. \A l \in Limiters : /\ Limit[l] \in Nat \ {0} /\ Window[l] \in Nat \ {0}
                            /\ MaxLag[l] \in Nat \ {0} /\ MaxClock[l] \in Nat \ {0}
    BY <1>1
  <1> QED BY <1>2, LimitsAssumption DEF Limiters

LEMMA AddedCount ==
  ASSUME NEW S, NEW x, IsFiniteSet(S)
  PROVE  /\ IsFiniteSet(S \cup {x}) /\ Cardinality(S) \in Nat
         /\ Cardinality(S \cup {x}) \in Nat /\ Cardinality(S \cup {x}) <= Cardinality(S) + 1
  <1>1. Cardinality(S) \in Nat
    BY FS_CardinalityType
  <1>2. IsFiniteSet(S \cup {x})
    BY FS_AddElement
  <1>3. Cardinality(S \cup {x}) = IF x \in S THEN Cardinality(S) ELSE Cardinality(S) + 1
    BY FS_AddElement
  <1> QED BY <1>1, <1>2, <1>3

LEMMA UnionCount ==
  ASSUME NEW S, NEW T, IsFiniteSet(S), IsFiniteSet(T), NEW m \in Nat, NEW n \in Nat,
         Cardinality(S) <= m, Cardinality(T) <= n
  PROVE  /\ IsFiniteSet(S \cup T) /\ Cardinality(S \cup T) \in Nat
         /\ Cardinality(S \cup T) <= m + n
  <1>1. IsFiniteSet(S \cup T)
        /\ Cardinality(S \cup T) = Cardinality(S) + Cardinality(T) - Cardinality(S \cap T)
    BY FS_Union
  <1>2. S \cap T \in SUBSET S
    OBVIOUS
  <1>3. IsFiniteSet(S \cap T)
    BY <1>2, FS_Subset
  <1>4. /\ Cardinality(S) \in Nat /\ Cardinality(T) \in Nat
        /\ Cardinality(S \cap T) \in Nat /\ Cardinality(S \cup T) \in Nat
    BY <1>1, <1>3, FS_CardinalityType
  <1> QED BY <1>1, <1>4

\* A call that is admitted is told apart from those before it: the history counts it.
LEMMA AdmissionIsNew ==
  ASSUME TypeOK, NEW x \in Keys \cup {Messages}, NEW now \in Nat
  PROVE  /\ Admission(x, now) \in Admissions
         /\ Admission(x, now).at = now
         /\ Admission(x, now) \notin timestamps \cup log[x]
  <1> DEFINE known == timestamps \cup log[x]
             Numbered(n) == [at |-> now, n |-> n]
             m == Cardinality(known)
             Free(n) == Numbered(n) \notin known
  <1>1. IsFiniteSet(known)
    BY FS_Union DEF TypeOK
  <1>2. m \in Nat
    BY <1>1, FS_CardinalityType
  <1>3. \E n \in 0 .. m : Free(n)
    <2> SUFFICES ASSUME \A n \in 0 .. m : ~Free(n) PROVE FALSE
      OBVIOUS
    <2> DEFINE f == [n \in 0 .. m |-> Numbered(n)]
    <2>1. f \in [0 .. m -> known]
      OBVIOUS
    <2>2. IsFiniteSet(0 .. m) /\ Cardinality(0 .. m) = m + 1
      BY <1>2, FS_Interval
    <2>3. m < Cardinality(0 .. m)
      BY <1>2, <2>2
    <2> HIDE DEF f, m, known
    <2>4. \E i, j \in 0 .. m : i # j /\ f[i] = f[j]
      BY <1>1, <2>1, <2>2, <2>3, FS_PigeonHole DEF m
    <2> QED BY <2>4 DEF f
  <1> HIDE DEF m, known
  <1> DEFINE n0 == CHOOSE n \in 0 .. m : Free(n)
  <1>4. n0 \in 0 .. m /\ Free(n0)
    BY <1>3
  <1>5. Admission(x, now) = Numbered(n0)
    BY DEF Admission, known, m
  <1>6. n0 \in Nat
    BY <1>2, <1>4
  <1> HIDE DEF n0
  <1> QED BY <1>4, <1>5, <1>6 DEF Admissions, known

\* The history of a call that is admitted grows by it, and only by calls of the Window.
LEMMA LoggedIs ==
  ASSUME TypeOK, NEW x \in Keys \cup {Messages}, NEW now \in Nat
  PROVE  /\ Logged(x, now) \in [Keys \cup {Messages} -> SUBSET Admissions]
         /\ \A y \in Keys \cup {Messages} : IsFiniteSet(Logged(x, now)[y])
         /\ \A y \in Keys \cup {Messages} : y # x => Logged(x, now)[y] = log[y]
         /\ Logged(x, now)[x] \subseteq log[x] \cup {Admission(x, now)}
         /\ \A a \in Logged(x, now)[x] : a.at > clock - Window[limiter]
  <1> DEFINE grown == log[x] \cup {Admission(x, now)}
             since == clock - Window[limiter]
             rec == Recent(grown, since)
  <1>1. Logged(x, now) = [log EXCEPT ![x] = rec]
    BY DEF Logged
  <1>2. IsFiniteSet(grown) /\ grown \subseteq Admissions
    <2>1. IsFiniteSet(log[x]) /\ log[x] \subseteq Admissions
      BY DEF TypeOK
    <2>2. Admission(x, now) \in Admissions
      BY AdmissionIsNew
    <2> QED BY <2>1, <2>2, FS_AddElement
  <1>3. rec \in SUBSET grown
    BY DEF Recent
  <1>4. IsFiniteSet(rec)
    BY <1>2, <1>3, FS_Subset
  <1>5. \A a \in rec : a.at > since
    BY DEF Recent
  <1>6. log \in [Keys \cup {Messages} -> SUBSET Admissions]
        /\ \A y \in Keys \cup {Messages} : IsFiniteSet(log[y])
    BY DEF TypeOK
  <1>7. rec \subseteq Admissions
    BY <1>2, <1>3
  <1> HIDE DEF rec, grown, since
  <1>8. Logged(x, now)[x] = rec
    BY <1>1, <1>6
  <1>9. \A y \in Keys \cup {Messages} : y # x => Logged(x, now)[y] = log[y]
    BY <1>1, <1>6
  <1>10. Logged(x, now) \in [Keys \cup {Messages} -> SUBSET Admissions]
    BY <1>1, <1>6, <1>7
  <1> QED BY <1>3, <1>4, <1>5, <1>6, <1>8, <1>9, <1>10 DEF grown, since

\* The timestamps that are kept are of the Window before the call.
LEMMA KeptIs ==
  ASSUME TypeOK, NEW c
  PROVE  /\ Kept(c) \subseteq timestamps
         /\ IsFiniteSet(Kept(c)) /\ Cardinality(Kept(c)) \in Nat
         /\ Cardinality(Kept(c)) <= Limit["message"]
         /\ Kept(c) = {a \in timestamps : a.at > call[c].now - Window["message"]}
  <1>1. Kept(c) \in SUBSET timestamps
    BY DEF Kept, Recent
  <1>2. IsFiniteSet(Kept(c)) /\ Cardinality(Kept(c)) <= Cardinality(timestamps)
    BY <1>1, FS_Subset DEF TypeOK
  <1>3. Cardinality(Kept(c)) \in Nat /\ Cardinality(timestamps) \in Nat
    BY <1>2, FS_CardinalityType DEF TypeOK
  <1> QED BY <1>1, <1>2, <1>3, Constants DEF TypeOK, Kept, Recent

-----------------------------------------------------------------------------
(* Types and time.                                                         *)

LEMMA InitRate == Init => RateInv
  <1> SUFFICES ASSUME Init PROVE RateInv
    OBVIOUS
  <1> USE DEF Init
  <1>1. TypeOK
    BY Constants, FS_EmptySet DEF TypeOK, NoCall, Zero, Never, Ids, Limiters
  <1>2. Timely /\ MessageLog /\ DedupKept
    BY Constants DEF Timely, MessageLog, DedupKept, NoCall, Never
  <1>3. PenaltyKnown
    BY Constants DEF PenaltyKnown, PenaltyServed, Never
  <1>4. EarnedSince
    <2>1. SincePenalty = {}
      BY DEF SincePenalty
    <2> QED BY <2>1, FS_EmptySet DEF EarnedSince
  <1>5. ASSUME NEW k \in Keys PROVE Windows(k)
    <2> DEFINE W == Window["http"]  Lag == MaxLag["http"]
    <2>1. W \in Nat /\ Lag \in Nat /\ Limit["http"] \in Nat
      BY Constants
    <2> DEFINE b == -1 - W - 1  a == b - W - 1
    <2>2. a \in Int /\ b \in Int /\ a + W - Lag < b /\ b + W - Lag < -1 /\ b + W < -1
      BY <2>1
    <2>3. log[k] = {} /\ entries[k].reset = Never /\ -1 < clock
      BY DEF Zero, Never
    <2>4. IsFiniteSet({}) /\ Cardinality({}) <= Limit["http"] /\ {} \in SUBSET Admissions
      BY <2>1, FS_EmptySet
    <2> HIDE DEF a, b
    <2>5. Follow(k, {}, {}, {}, a, b, -1)
      BY <2>2, <2>3, <2>4 DEF Follow
    <2> QED BY <2>2, <2>4, <2>5 DEF Windows
  <1> QED BY <1>1, <1>2, <1>3, <1>4, <1>5 DEF RateInv

-----------------------------------------------------------------------------
(* Calls that begin and end, and time.                                     *)

\* The parts of the invariant that do not look at the calls under way.
Standing ==
  /\ MessageLog /\ PenaltyKnown /\ EarnedSince /\ DedupKept
  /\ \A k \in Keys : Windows(k)

LEMMA WindowsSame ==
  ASSUME \A k \in Keys : Windows(k), UNCHANGED <<clock, entries, swept>>,
         \A k \in Keys : log'[k] = log[k]
  PROVE  (\A k \in Keys : Windows(k))'
  <1> SUFFICES ASSUME NEW k \in Keys PROVE Windows(k)'
    OBVIOUS
  <1>1. PICK A, B, C \in SUBSET Admissions, a, b, r \in Int : Follow(k, A, B, C, a, b, r)
    BY DEF Windows
  <1>2. Follow(k, A, B, C, a, b, r)'
    BY <1>1 DEF Follow
  <1> QED BY <1>2 DEF Windows

LEMMA StandingSame ==
  ASSUME Standing, UNCHANGED <<limiter, clock, stateVars, entries, historyVars>>
  PROVE  Standing'
  <1>1. (\A k \in Keys : Windows(k))'
    BY WindowsSame DEF Standing, historyVars
  <1> QED
    BY <1>1 DEF Standing, MessageLog, PenaltyKnown, PenaltyServed, EarnedSince,
                SincePenalty, DedupKept, stateVars, historyVars

LEMMA AskStep ==
  ASSUME RateInv, NEW c \in Callers, NEW x \in Ids \cup Keys, Ask(c, x),
         limiter = "message" => x \in Ids, limiter = "http" => x \in Keys
  PROVE  RateInv'
  <1> USE DEF Ask, stateVars, historyVars
  <1>1. TypeOK' /\ Timely'
    BY Constants DEF RateInv, TypeOK, Timely, Never, Limiters
  <1>2. Standing'
    BY StandingSame DEF RateInv, Standing
  <1> QED BY <1>1, <1>2 DEF RateInv, Standing

LEMMA KeepStep == ASSUME RateInv, NEW c \in Callers, Keep(c) PROVE RateInv'
  <1> USE DEF Keep, stateVars, historyVars, NoCall
  <1>1. TypeOK' /\ Timely'
    BY DEF RateInv, TypeOK, Timely, Ids
  <1>2. Standing'
    BY StandingSame DEF RateInv, Standing
  <1> QED BY <1>1, <1>2 DEF RateInv, Standing

LEMMA CleanupTickStep == RateInv /\ CleanupTick => RateInv'
  <1> SUFFICES ASSUME RateInv, CleanupTick PROVE RateInv'
    OBVIOUS
  <1> USE DEF CleanupTick, stateVars, historyVars
  <1>1. TypeOK' /\ Timely'
    BY Constants DEF RateInv, TypeOK, Timely, Limiters
  <1>2. Standing'
    BY StandingSame DEF RateInv, Standing
  <1> QED BY <1>1, <1>2 DEF RateInv, Standing

LEMMA TickStep == RateInv /\ Tick => RateInv'
  <1> SUFFICES ASSUME RateInv, Tick PROVE RateInv'
    OBVIOUS
  <1> USE DEF Tick, stateVars
  <1>1. /\ clock \in Nat /\ clock' = clock + 1 /\ clock' <= MaxClock[limiter]
        /\ MaxClock[limiter] \in Nat
    BY Constants DEF RateInv, TypeOK
  <1>2. \A x \in Keys \cup {Messages} :
          /\ log'[x] \in SUBSET log[x]
          /\ \A a \in log'[x] : a.at > clock' - Window[limiter]
    BY DEF RateInv, TypeOK, Recent
  <1>3. \A x \in Keys \cup {Messages} : IsFiniteSet(log'[x])
    <2>1. \A x \in Keys \cup {Messages} : IsFiniteSet(log[x])
      BY DEF RateInv, TypeOK
    <2> QED BY <1>2, <2>1, FS_Subset
  <1>4. log' \in [Keys \cup {Messages} -> SUBSET Admissions]
    <2>1. log' = [x \in Keys \cup {Messages} |-> log'[x]]
      BY DEF RateInv, TypeOK
    <2> QED BY <2>1, <1>2 DEF RateInv, TypeOK
  <1>5. TypeOK'
    <2>1. (clock \in 0 .. MaxClock[limiter])'
      BY <1>1
    <2>2. (\A x \in Keys \cup {Messages} : IsFiniteSet(log[x]))'
      BY <1>3
    <2> QED BY <2>1, <2>2, <1>4 DEF RateInv, TypeOK
  <1>6. Timely'
    BY <1>1, Constants DEF RateInv, Timely, TypeOK
  <1>7. MessageLog'
    <2>1. log'[Messages] \subseteq log[Messages]
      BY <1>2
    <2>2. \A a \in timestamps : a.at \in Nat
      BY DEF RateInv, TypeOK, Admissions
    <2>3. \A a \in timestamps : a.at <= clock' /\ a.at <= lastSeen + MaxLag["message"]
      BY <1>1, <2>2 DEF RateInv, MessageLog
    <2>4. \A a \in log'[Messages] : a.at > clock' - Window["message"]
      BY <1>2, <2>1 DEF RateInv, MessageLog, TypeOK, Limiters
    <2> QED BY <2>1, <2>3, <2>4 DEF RateInv, MessageLog
  <1>8. PenaltyKnown'
    <2>1. banned - Penalty <= clock /\ banned \in Int /\ Penalty \in Nat
      BY Constants DEF RateInv, PenaltyKnown, TypeOK, Never
    <2>2. PenaltyServed'
      BY <1>2 DEF RateInv, PenaltyKnown, PenaltyServed
    <2> QED BY <1>1, <2>1, <2>2, Constants DEF RateInv, PenaltyKnown
  <1>9. EarnedSince' /\ DedupKept'
    <2>1. EarnedSince'
      BY DEF RateInv, EarnedSince, SincePenalty
    <2>2. DedupKept'
      BY <1>1, Constants DEF RateInv, DedupKept, TypeOK, Never
    <2> QED BY <2>1, <2>2
  <1>10. ASSUME NEW k \in Keys PROVE Windows(k)'
    <2>1. PICK A, B, C \in SUBSET Admissions, a, b, r \in Int : Follow(k, A, B, C, a, b, r)
      BY DEF RateInv, Windows
    <2>2. log'[k] \subseteq A \cup B \cup C
      BY <1>2, <2>1 DEF Follow
    <2>3. r < clock => r < clock'
      BY <1>1
    <2>4. Follow(k, A, B, C, a, b, r)'
      BY <2>1, <2>2, <2>3 DEF Follow
    <2> QED BY <2>4 DEF Windows
  <1> QED BY <1>5, <1>6, <1>7, <1>8, <1>9, <1>10 DEF RateInv

-----------------------------------------------------------------------------
(* memoryMessageRateLimiter.                                               *)

LEMMA CheckFacts ==
  ASSUME RateInv, NEW c \in Callers, Checking(c)
  PROVE  /\ limiter = "message" /\ call[c].about \in Ids
         /\ call[c].now \in Nat /\ call[c].now <= clock
         /\ clock <= call[c].now + MaxLag["message"]
         /\ clock \in Nat /\ MaxLag["message"] \in Nat /\ lastSeen' = call[c].now
         /\ \A a \in timestamps : a.at \in Nat /\ a.at <= clock
  <1>1. \A a \in timestamps : a.at \in Nat
    BY DEF RateInv, TypeOK, Admissions
  <1> QED BY <1>1, Constants DEF RateInv, Timely, Checking, TypeOK, Limiters, MessageLog

\* A penalty that was imposed is over for a call that it does not refuse.
LEMMA NotBlocked ==
  ASSUME RateInv, NEW c \in Callers, Checking(c), blockedUntil <= call[c].now
  PROVE  banned <= call[c].now
  BY CheckFacts DEF RateInv, PenaltyKnown, TypeOK, Never

\* A late call does not make the account look as if it had not been seen since.
LEMMA SeenSince ==
  ASSUME RateInv, NEW c \in Callers, Checking(c)
  PROVE  /\ \A a \in timestamps : a.at <= lastSeen' + MaxLag["message"]
         /\ banned <= lastSeen' + Penalty + MaxLag["message"]
  <1>1. banned \in Int /\ Penalty \in Nat /\ banned - Penalty <= clock
    BY Constants DEF RateInv, PenaltyKnown, TypeOK, Never
  <1> QED BY <1>1, CheckFacts

LEMMA CheckUncountedStep ==
  ASSUME RateInv, NEW c \in Callers, CheckUncounted(c) PROVE RateInv'
  <1> USE DEF CheckUncounted
  <1>1. Checking(c)
    OBVIOUS
  <1> USE DEF Checking, historyVars, NoCall
  <1>2. TypeOK' /\ Timely'
    BY CheckFacts DEF RateInv, TypeOK, Timely, Ids, Never
  <1>3. MessageLog'
    BY <1>1, SeenSince DEF RateInv, MessageLog
  <1>4. PenaltyKnown'
    BY <1>1, SeenSince DEF RateInv, PenaltyKnown, PenaltyServed
  <1>5. EarnedSince' /\ DedupKept'
    BY DEF RateInv, EarnedSince, SincePenalty, DedupKept
  <1>6. (\A k \in Keys : Windows(k))'
    BY WindowsSame DEF RateInv
  <1> QED BY <1>2, <1>3, <1>4, <1>5, <1>6 DEF RateInv

LEMMA CheckRefuseStep ==
  ASSUME RateInv, NEW c \in Callers, CheckRefuse(c) PROVE RateInv'
  <1> USE DEF CheckRefuse
  <1>1. Checking(c)
    OBVIOUS
  <1>2. /\ blockedUntil' = call[c].now + Penalty /\ banned' = blockedUntil'
        /\ Penalty \in Nat /\ earned' = 0 /\ timestamps' = Kept(c)
    BY Constants DEF PenaltyEnd
  <1> USE DEF Checking, NoCall
  <1>3. TypeOK' /\ Timely'
    <2>1. TypeOK'
      BY <1>1, <1>2, CheckFacts, KeptIs, Constants DEF RateInv, TypeOK, Ids, Never, Limiters
    <2>2. Timely'
      BY <1>1, CheckFacts DEF RateInv, Timely, TypeOK
    <2> QED BY <2>1, <2>2
  <1>4. MessageLog'
    <2>1. \A a \in log[Messages] : a \in Kept(c)
      BY <1>1, KeptIs, CheckFacts, Constants DEF RateInv, MessageLog, Limiters
    <2> QED BY <1>1, <1>2, <2>1, KeptIs, SeenSince DEF RateInv, MessageLog
  <1>5. PenaltyKnown'
    <2>1. \A a \in log[Messages] : a.at <= call[c].now + MaxLag["message"]
      BY <1>1, CheckFacts DEF RateInv, MessageLog
    <2> QED BY <1>1, <1>2, <2>1, CheckFacts DEF PenaltyKnown, PenaltyServed
  <1>6. EarnedSince'
    <2>1. SincePenalty' = {}
      BY <1>1, <1>2, KeptIs, CheckFacts DEF RateInv, SincePenalty
    <2> QED BY <1>2, <2>1, FS_EmptySet DEF EarnedSince
  <1>7. DedupKept'
    BY DEF RateInv, DedupKept
  <1>8. (\A k \in Keys : Windows(k))'
    BY WindowsSame DEF RateInv
  <1> QED BY <1>3, <1>4, <1>5, <1>6, <1>7, <1>8 DEF RateInv

LEMMA CheckAdmitStep ==
  ASSUME RateInv, NEW c \in Callers, CheckAdmit(c) PROVE RateInv'
  <1> DEFINE now == call[c].now
             i == call[c].about
             new == Admission(Messages, now)
  <1>1. /\ Checking(c) /\ ~Duplicate(c) /\ ~Blocked(c) /\ HasRoom(c)
        /\ timestamps' = Kept(c) \cup {new}
        /\ log' = Logged(Messages, now)
        /\ dedup' = IF i \in ClientIds THEN [dedup EXCEPT ![i] = now + TTL] ELSE dedup
        /\ served' = IF i \in ClientIds THEN [served EXCEPT ![i] = now] ELSE served
        /\ earned' = IF earned < Limit["message"] THEN earned + 1 ELSE earned
        /\ call' = [call EXCEPT ![c] = IF i \in ClientIds THEN [@ EXCEPT !.pc = "admitted"]
                                       ELSE NoCall]
        /\ UNCHANGED <<limiter, clock, sweepAt, entries, blockedUntil, swept, banned>>
    BY DEF CheckAdmit, Checking
  <1>2. /\ limiter = "message" /\ i \in Ids /\ now \in Nat /\ now <= clock /\ clock \in Nat
        /\ clock <= now + MaxLag["message"] /\ MaxLag["message"] \in Nat
        /\ lastSeen' = now /\ TypeOK /\ Penalty \in Nat /\ TTL \in Nat
        /\ Window["message"] \in Nat /\ Limit["message"] \in Nat
    BY <1>1, CheckFacts, Constants DEF RateInv, Limiters
  <1>3. new \in Admissions /\ new.at = now
    BY <1>2, AdmissionIsNew
  <1> HIDE DEF new
  <1>4. /\ log' \in [Keys \cup {Messages} -> SUBSET Admissions]
        /\ \A y \in Keys \cup {Messages} : IsFiniteSet(log'[y])
        /\ \A k \in Keys : log'[k] = log[k]
        /\ log'[Messages] \subseteq log[Messages] \cup {new}
        /\ \A a \in log'[Messages] : a.at > clock - Window["message"]
    <2>1. Messages \in Keys \cup {Messages} /\ Messages \notin Keys
      BY Constants
    <2> HIDE DEF now, i
    <2>2. /\ Logged(Messages, now) \in [Keys \cup {Messages} -> SUBSET Admissions]
          /\ \A y \in Keys \cup {Messages} : IsFiniteSet(Logged(Messages, now)[y])
          /\ \A y \in Keys \cup {Messages} : y # Messages => Logged(Messages, now)[y] = log[y]
          /\ Logged(Messages, now)[Messages] \subseteq log[Messages] \cup {new}
          /\ \A a \in Logged(Messages, now)[Messages] : a.at > clock - Window[limiter]
      BY <1>2, <2>1, LoggedIs DEF new
    <2> QED BY <1>1, <1>2, <2>1, <2>2
  <1>5. /\ timestamps' \subseteq Admissions /\ IsFiniteSet(timestamps')
        /\ Cardinality(timestamps') <= Limit["message"]
    <2>1. Cardinality(Kept(c)) \in Nat /\ Cardinality(Kept(c)) < Limit["message"]
      BY <1>1, <1>2, KeptIs DEF HasRoom
    <2>2. IsFiniteSet(Kept(c)) /\ Kept(c) \subseteq Admissions
      BY <1>2, KeptIs DEF TypeOK
    <2>3. /\ IsFiniteSet(Kept(c) \cup {new}) /\ Cardinality(Kept(c) \cup {new}) \in Nat
          /\ Cardinality(Kept(c) \cup {new}) <= Cardinality(Kept(c)) + 1
      BY <2>2, AddedCount
    <2> QED BY <1>1, <1>2, <1>3, <2>1, <2>2, <2>3
  <1>6. TypeOK' /\ Timely'
    <2>1. earned' \in 0 .. Limit["message"]
      BY <1>1, <1>2 DEF TypeOK
    <2>2. /\ dedup' \in [ClientIds -> Nat \cup {Never}]
          /\ served' \in [ClientIds -> Nat \cup {Never}]
      BY <1>1, <1>2 DEF TypeOK
    <2>3. call' \in [Callers -> [pc : {"idle", "check", "admitted"}, about : Ids \cup Keys,
                                 now : Nat \cup {Never}]]
      BY <1>1, <1>2 DEF TypeOK, NoCall, Ids
    <2>4. TypeOK'
      BY <1>1, <1>2, <1>4, <1>5, <2>1, <2>2, <2>3 DEF TypeOK
    <2>5. Timely'
      BY <1>1, <1>2 DEF RateInv, Timely, TypeOK, NoCall
    <2> QED BY <2>4, <2>5
  <1>7. MessageLog'
    <2>1. \A a \in log[Messages] :
            a.at > clock - Window["message"] => a \in Kept(c)
      BY <1>1, <1>2, KeptIs, CheckFacts DEF RateInv, MessageLog
    <2>2. log'[Messages] \subseteq timestamps'
      BY <1>1, <1>4, <2>1 DEF RateInv, MessageLog
    <2>3. \A a \in timestamps' : a.at <= clock /\ a.at <= now + MaxLag["message"]
      <3>1. \A a \in Kept(c) : a.at <= clock
        BY <1>2, KeptIs DEF RateInv, MessageLog
      <3> QED BY <1>1, <1>2, <1>3, <3>1, KeptIs, CheckFacts
    <2> QED BY <1>1, <1>2, <1>4, <2>2, <2>3 DEF MessageLog
  <1>8. banned <= now
    <2>1. blockedUntil <= now
      BY <1>1, <1>2 DEF Blocked, TypeOK, Never
    <2> QED BY <1>1, <2>1, NotBlocked
  <1>9. PenaltyKnown'
    <2>1. banned \in Int
      BY <1>2 DEF TypeOK, Never
    <2>2. PenaltyServed'
      BY <1>1, <1>2, <1>3, <1>4, <1>8, <2>1 DEF RateInv, PenaltyKnown, PenaltyServed
    <2>3. banned <= lastSeen' + Penalty + MaxLag["message"]
      BY <1>2, <1>8, <2>1
    <2> QED BY <1>1, <1>2, <2>2, <2>3 DEF RateInv, PenaltyKnown
  <1>10. EarnedSince'
    <2>1. IsFiniteSet(SincePenalty)
      BY FS_Subset, SincePenalty \in SUBSET timestamps, <1>2 DEF TypeOK, SincePenalty
    <2>2. SincePenalty' \in SUBSET (SincePenalty \cup {new})
      BY <1>1, <1>2, KeptIs DEF SincePenalty
    <2>3. IsFiniteSet(SincePenalty \cup {new})
          /\ Cardinality(SincePenalty \cup {new}) <= Cardinality(SincePenalty) + 1
      BY <2>1, AddedCount
    <2>4. /\ Cardinality(SincePenalty') <= Cardinality(SincePenalty \cup {new})
          /\ IsFiniteSet(SincePenalty')
      BY <2>2, <2>3, FS_Subset
    <2>5. /\ Cardinality(SincePenalty') \in Nat /\ Cardinality(SincePenalty) \in Nat
          /\ Cardinality(SincePenalty \cup {new}) \in Nat
      BY <2>1, <2>3, <2>4, FS_CardinalityType
    <2>6. Cardinality(SincePenalty') <= Cardinality(SincePenalty) + 1
      BY <2>3, <2>4, <2>5
    <2>7. earned < Limit["message"] => Cardinality(SincePenalty) <= earned
      BY DEF RateInv, EarnedSince
    <2>8. earned' < Limit["message"] => Cardinality(SincePenalty') <= earned'
      BY <1>1, <1>2, <2>5, <2>6, <2>7 DEF TypeOK
    <2> QED BY <2>8 DEF EarnedSince
  <1>11. DedupKept'
    BY <1>1, <1>2 DEF RateInv, DedupKept, TypeOK
  <1>12. (\A k \in Keys : Windows(k))'
    BY <1>1, <1>4, WindowsSame DEF RateInv
  <1> QED BY <1>6, <1>7, <1>9, <1>10, <1>11, <1>12 DEF RateInv

LEMMA ForgetStep == ASSUME RateInv, NEW c \in Callers, Forget(c) PROVE RateInv'
  <1> USE DEF Forget, NoCall
  <1>1. TypeOK' /\ Timely'
    BY DEF RateInv, TypeOK, Timely, Ids, Never
  <1>2. MessageLog' /\ PenaltyKnown' /\ EarnedSince'
    BY DEF RateInv, MessageLog, PenaltyKnown, PenaltyServed, EarnedSince, SincePenalty
  <1>3. DedupKept'
    BY DEF RateInv, DedupKept, TypeOK, Never, Timely
  <1>4. (\A k \in Keys : Windows(k))'
    BY WindowsSame DEF RateInv
  <1> QED BY <1>1, <1>2, <1>3, <1>4 DEF RateInv

\* What the cleanup drops has expired for every call; the account it forgets has no
\* message in the last Window, and no penalty that a waiting call could be refused for.
LEMMA CleanupStep == RateInv /\ Cleanup => RateInv'
  <1> SUFFICES ASSUME RateInv, Cleanup PROVE RateInv'
    OBVIOUS
  <1> USE DEF Cleanup, historyVars
  <1>1. /\ limiter = "message" /\ sweepAt \in Nat /\ sweepAt <= clock /\ clock \in Nat
        /\ lastSeen \in Nat /\ MaxLag["message"] \in Nat /\ Penalty \in Nat /\ TTL \in Nat
        /\ Window["message"] \in Nat /\ banned \in Int
        /\ \A a \in timestamps : a.at \in Nat
    BY Constants DEF RateInv, Timely, TypeOK, Never, Limiters, Admissions
  <1>2. timestamps' \subseteq timestamps /\ IsFiniteSet(timestamps')
        /\ Cardinality(timestamps') <= Limit["message"]
    <2>1. CASE Unseen
      <3>1. timestamps' = {} /\ Limit["message"] \in Nat
        BY <2>1, Constants DEF Limiters
      <3>2. IsFiniteSet({}) /\ Cardinality({}) = 0
        BY FS_EmptySet
      <3> QED BY <3>1, <3>2
    <2>2. CASE ~Unseen
      <3>1. timestamps' = timestamps
        BY <2>2
      <3>2. IsFiniteSet(timestamps) /\ Cardinality(timestamps) <= Limit["message"]
        BY DEF RateInv, TypeOK
      <3> QED BY <3>1, <3>2
    <2> QED BY <2>1, <2>2
  <1>3. TypeOK' /\ Timely'
    <2>1. dedup' \in [ClientIds -> Nat \cup {Never}]
      BY DEF RateInv, TypeOK
    <2>2. TypeOK'
      BY <1>2, <2>1 DEF RateInv, TypeOK, Never
    <2> QED BY <2>2 DEF RateInv, Timely
  <1>4. MessageLog'
    <2>1. CASE Unseen
      <3>1. log[Messages] = {}
        BY <1>1, <2>1, Constants DEF RateInv, MessageLog, Unseen
      <3> QED BY <2>1, <3>1 DEF MessageLog
    <2>2. CASE ~Unseen
      BY <2>2 DEF RateInv, MessageLog
    <2> QED BY <2>1, <2>2
  <1>5. PenaltyKnown'
    <2>1. CASE Unseen
      BY <1>1, <2>1, Constants DEF RateInv, PenaltyKnown, PenaltyServed, Unseen
    <2>2. CASE ~Unseen
      BY <2>2 DEF RateInv, PenaltyKnown, PenaltyServed
    <2> QED BY <2>1, <2>2
  <1>6. EarnedSince'
    <2>1. SincePenalty' \in SUBSET SincePenalty
      BY <1>2 DEF SincePenalty
    <2>2. SincePenalty \in SUBSET timestamps
      BY DEF SincePenalty
    <2>3. IsFiniteSet(SincePenalty)
      BY <2>2, FS_Subset DEF RateInv, TypeOK
    <2>4. /\ Cardinality(SincePenalty') <= Cardinality(SincePenalty)
          /\ IsFiniteSet(SincePenalty')
      BY <2>1, <2>3, FS_Subset
    <2>5. Cardinality(SincePenalty') \in Nat /\ Cardinality(SincePenalty) \in Nat
      BY <2>3, <2>4, FS_CardinalityType
    <2>6. earned < Limit["message"] => Cardinality(SincePenalty) <= earned
      BY DEF RateInv, EarnedSince
    <2>7. earned \in Nat
      BY DEF RateInv, TypeOK
    <2>8. earned < Limit["message"] => Cardinality(SincePenalty') <= earned
      BY <2>4, <2>5, <2>6, <2>7
    <2> QED BY <2>8 DEF EarnedSince
  <1>7. DedupKept'
    <2> SUFFICES ASSUME NEW i \in ClientIds, served[i] # Never
                 PROVE  dedup'[i] = served[i] + TTL \/ clock >= served[i] + TTL
      BY DEF DedupKept
    <2>1. dedup[i] = served[i] + TTL \/ clock >= served[i] + TTL
      BY DEF RateInv, DedupKept
    <2>2. dedup[i] \in Int /\ served[i] \in Nat
      BY DEF RateInv, TypeOK, Never
    <2>3. dedup'[i] = dedup[i] \/ dedup[i] <= sweepAt
      BY <1>1, <2>2 DEF Live
    <2> QED BY <1>1, <2>1, <2>2, <2>3
  <1>8. (\A k \in Keys : Windows(k))'
    BY WindowsSame DEF RateInv
  <1> QED BY <1>3, <1>4, <1>5, <1>6, <1>7, <1>8 DEF RateInv

-----------------------------------------------------------------------------
(* allowWithInfo of the HTTP limiters.                                     *)

LEMMA AllowFacts ==
  ASSUME RateInv, NEW c \in Callers, Allow(c)
  PROVE  /\ limiter = "http" /\ call[c].about \in Keys /\ call[c].now \in Nat
         /\ call[c].now <= clock /\ clock <= call[c].now + MaxLag["http"] /\ clock \in Nat
         /\ Limit["http"] \in Nat /\ Limit["http"] > 0
         /\ Window["http"] \in Nat /\ Window["http"] > 0 /\ MaxLag["http"] \in Nat
         /\ 2 * MaxLag["http"] <= Window["http"] + 3
  BY Constants DEF RateInv, Timely, Allow, TypeOK, Limiters

\* What the call does to its own key, whether or not the sweep dropped the entry before.
LEMMA OwnEntry ==
  ASSUME RateInv, NEW c \in Callers, Allow(c)
  PROVE  LET k == call[c].about
             now == call[c].now
             entry == entries'[k]
         IN /\ Expired(entries[k], now) => entry = [count |-> 1, reset |-> now + Window["http"]]
            /\ ~Expired(entries[k], now) =>
                 /\ entry.reset = entries[k].reset
                 /\ entry.count = IF entries[k].count <= Limit["http"]
                                  THEN entries[k].count + 1 ELSE entries[k].count
            /\ log' = IF entry.count <= Limit["http"] THEN Logged(k, now) ELSE log
            /\ entry \in [count : 0 .. Limit["http"] + 1, reset : Nat \cup {Never}]
  <1> DEFINE k == call[c].about
             now == call[c].now
  <1>1. k \in Keys /\ now \in Nat
    BY AllowFacts
  <1>2. entries[k] \in [count : 0 .. Limit["http"] + 1, reset : Nat \cup {Never}]
    BY <1>1 DEF RateInv, TypeOK
  <1>3. entries'[k] = Counted(Swept(now)[k], now)
    BY <1>1 DEF Allow, Swept
  <1>4. log' = IF entries'[k].count <= Limit["http"] THEN Logged(k, now) ELSE log
    BY <1>3 DEF Allow
  <1>5. CASE Expired(entries[k], now)
    <2>1. Swept(now)[k] = Zero \/ Swept(now)[k] = entries[k]
      BY <1>1 DEF Swept
    <2>2. Expired(Swept(now)[k], now)
      BY <1>1, <1>5, <2>1 DEF Expired, Zero, Never
    <2>3. entries'[k] = [count |-> 1, reset |-> now + Window["http"]]
      BY <1>3, <2>2 DEF Counted
    <2> QED BY <1>1, <1>4, <1>5, <2>3, AllowFacts
  <1>6. CASE ~Expired(entries[k], now)
    <2>1. Swept(now)[k] = entries[k]
      BY <1>1, <1>6 DEF Swept
    <2>2. entries'[k] = [entries[k] EXCEPT !.count = IF @ <= Limit["http"] THEN @ + 1 ELSE @]
      BY <1>3, <1>6, <2>1 DEF Counted
    <2> QED BY <1>2, <1>4, <1>6, <2>2, AllowFacts
  <1> QED BY <1>5, <1>6

\* The entry of another key stays, or the sweep drops it because its window is over.
LEMMA OtherEntry ==
  ASSUME RateInv, NEW c \in Callers, Allow(c), NEW j \in Keys, j # call[c].about
  PROVE  /\ log'[j] = log[j] /\ swept \subseteq swept'
         /\ \/ entries'[j] = entries[j]
            \/ entries'[j] = Zero /\ entries[j].reset < call[c].now /\ j \in swept'
  <1> DEFINE k == call[c].about
             now == call[c].now
  <1>1. /\ entries' = [Swept(now) EXCEPT ![k] = Counted(Swept(now)[k], now)]
        /\ swept' = swept \cup {i \in Keys \ {k} : entries'[i] # entries[i]}
    BY DEF Allow
  <1>2. entries'[j] = Swept(now)[j]
    BY <1>1 DEF Swept
  <1>3. entries'[j] = entries[j] \/ (entries'[j] = Zero /\ entries[j].reset < now)
    BY <1>2 DEF Swept, Expired
  <1>4. entries'[j] # entries[j] => j \in swept'
    BY <1>1
  <1>5. log'[j] = log[j]
    <2>1. k \in Keys \cup {Messages} /\ now \in Nat /\ TypeOK
      BY AllowFacts DEF RateInv
    <2>2. Logged(k, now)[j] = log[j]
      BY <2>1, LoggedIs
    <2> QED BY <2>2, OwnEntry
  <1> QED BY <1>1, <1>3, <1>4, <1>5

LEMMA AllowTypes ==
  ASSUME RateInv, NEW c \in Callers, Allow(c)
  PROVE  TypeOK' /\ Timely'
  <1> DEFINE k == call[c].about
             now == call[c].now
             Entry == [count : 0 .. Limit["http"] + 1, reset : Nat \cup {Never}]
  <1>1. TypeOK /\ k \in Keys \cup {Messages} /\ now \in Nat
    BY AllowFacts DEF RateInv
  <1>2. /\ log' \in [Keys \cup {Messages} -> SUBSET Admissions]
        /\ \A x \in Keys \cup {Messages} : IsFiniteSet(log'[x])
    <2>1. /\ Logged(k, now) \in [Keys \cup {Messages} -> SUBSET Admissions]
          /\ \A x \in Keys \cup {Messages} : IsFiniteSet(Logged(k, now)[x])
      BY <1>1, LoggedIs
    <2>2. log' = Logged(k, now) \/ log' = log
      BY OwnEntry
    <2> QED BY <1>1, <2>1, <2>2 DEF TypeOK
  <1>3. entries' \in [Keys -> Entry]
    <2>1. Zero \in Entry
      BY AllowFacts DEF Zero
    <2>2. \A j \in Keys : entries'[j] \in Entry
      <3> SUFFICES ASSUME NEW j \in Keys PROVE entries'[j] \in Entry
        OBVIOUS
      <3>1. CASE j = k
        BY <3>1, OwnEntry
      <3>2. CASE j # k
        <4>1. entries'[j] = entries[j] \/ entries'[j] = Zero
          BY <3>2, OtherEntry
        <4>2. entries[j] \in Entry
          BY <1>1 DEF TypeOK
        <4> QED BY <2>1, <4>1, <4>2
      <3> QED BY <3>1, <3>2
    <2>3. entries' = [j \in Keys |-> entries'[j]]
      BY DEF Allow, Swept
    <2> QED BY <2>2, <2>3
  <1>4. swept' \subseteq Keys
    BY <1>1 DEF Allow, TypeOK
  <1>5. call' = [call EXCEPT ![c] = NoCall]
        /\ UNCHANGED <<limiter, clock, sweepAt, stateVars, banned, earned, served>>
    BY DEF Allow
  <1>6. call' \in [Callers -> [pc : {"idle", "check", "admitted"}, about : Ids \cup Keys,
                               now : Nat \cup {Never}]]
    BY <1>1, <1>5 DEF TypeOK, NoCall, Ids
  <1>7. TypeOK'
    BY <1>1, <1>2, <1>3, <1>4, <1>5, <1>6 DEF TypeOK, stateVars
  <1>8. Timely'
    BY <1>1, <1>5 DEF RateInv, Timely, TypeOK, NoCall
  <1> QED BY <1>7, <1>8

LEMMA OtherWindows ==
  ASSUME RateInv, NEW c \in Callers, Allow(c), NEW j \in Keys, j # call[c].about
  PROVE  Windows(j)'
  <1>1. PICK A, B, C \in SUBSET Admissions, a, b, r \in Int : Follow(j, A, B, C, a, b, r)
    BY DEF RateInv, Windows
  <1>2. log'[j] = log[j] /\ swept \subseteq swept' /\ clock' = clock
    BY OtherEntry DEF Allow
  <1>3. CASE entries'[j] = entries[j]
    <2>1. Follow(j, A, B, C, a, b, r)'
      BY <1>1, <1>2, <1>3 DEF Follow
    <2> QED BY <2>1 DEF Windows
  <1>4. CASE entries'[j] = Zero /\ entries[j].reset < call[c].now /\ j \in swept'
    <2>1. entries'[j].reset = Never
      BY <1>4 DEF Zero
    <2>2. r < clock
      BY <1>1, <1>4, AllowFacts DEF Follow
    <2>3. Follow(j, A, B, C, a, b, r)'
      BY <1>1, <1>2, <1>4, <2>1, <2>2 DEF Follow
    <2> QED BY <2>3 DEF Windows
  <1> QED BY <1>3, <1>4, OtherEntry

\* The call counts in the window that holds, or opens one: then the present window is the
\* last, and the last the one before; what that one admitted is older than Window.
LEMMA OwnWindows ==
  ASSUME RateInv, NEW c \in Callers, Allow(c),
         NEW k \in Keys, k = call[c].about, NEW now \in Nat, now = call[c].now
  PROVE  Windows(k)'
  <1> DEFINE L == Limit["http"]
             W == Window["http"]
             Lag == MaxLag["http"]
  <1>1. /\ limiter = "http" /\ k \in Keys /\ now \in Nat /\ now <= clock
        /\ clock <= now + Lag /\ clock \in Nat /\ L \in Nat /\ L > 0 /\ W \in Nat /\ W > 0
        /\ Lag \in Nat /\ 2 * Lag <= W + 3
    BY AllowFacts
  <1>2. /\ clock' = clock
        /\ k \in swept' <=> k \in swept
    BY <1>1 DEF Allow
  <1>3. PICK new \in Admissions : new = Admission(k, now) /\ new.at = now
    BY <1>1, AdmissionIsNew DEF RateInv
  <1>4. log'[k] \subseteq log[k] \cup {new} /\ log[k] \subseteq Admissions
    <2>1. Logged(k, now)[k] \subseteq log[k] \cup {new} /\ TypeOK
      BY <1>1, <1>3, LoggedIs DEF RateInv
    <2> QED BY <1>1, <2>1, OwnEntry DEF TypeOK
  <1>5. PICK A, B, C \in SUBSET Admissions, a, b, r \in Int : Follow(k, A, B, C, a, b, r)
    BY <1>1 DEF RateInv, Windows
  <1>6. /\ entries[k].reset \in Int
        /\ entries[k].count \in Nat /\ entries[k].count <= L + 1
    BY <1>1 DEF RateInv, TypeOK, Never
  <1>7. /\ IsFiniteSet({new}) /\ Cardinality({new}) = 1 /\ {new} \in SUBSET Admissions
        /\ IsFiniteSet({}) /\ Cardinality({}) = 0
    BY <1>3, FS_Singleton, FS_EmptySet
  <1>8. /\ Expired(entries[k], now) => entries'[k] = [count |-> 1, reset |-> now + W]
        /\ ~Expired(entries[k], now) =>
             /\ entries'[k].reset = entries[k].reset
             /\ entries'[k].count = IF entries[k].count <= L
                                    THEN entries[k].count + 1 ELSE entries[k].count
        /\ log' = IF entries'[k].count <= L THEN Logged(k, now) ELSE log
        /\ entries'[k].count \in Nat
    BY OwnEntry
  <1>9. CASE ~Expired(entries[k], now)
    <2>1. entries[k].reset >= now /\ entries[k].reset # Never
      BY <1>1, <1>6, <1>9 DEF Expired, Never
    <2>2. entries'[k].reset = entries[k].reset /\ r = entries[k].reset
          /\ Cardinality(C) <= entries[k].count
      BY <1>1, <1>5, <1>9, <2>1, <1>8 DEF Follow
    <2>3. CASE entries'[k].count <= L
      <3>1. entries'[k].count = entries[k].count + 1
        BY <1>1, <1>6, <1>9, <2>3, <1>8
      <3>2. /\ IsFiniteSet(C \cup {new}) /\ Cardinality(C) \in Nat
            /\ Cardinality(C \cup {new}) \in Nat
            /\ Cardinality(C \cup {new}) <= Cardinality(C) + 1
        BY <1>5, AddedCount DEF Follow
      <3>3. Cardinality(C \cup {new}) <= entries'[k].count /\ Cardinality(C \cup {new}) <= L
        BY <1>1, <1>6, <2>2, <2>3, <3>1, <3>2
      <3>4. \A x \in C \cup {new} : x.at <= r
        BY <1>3, <1>5, <2>1, <2>2 DEF Follow
      <3>5. log'[k] \subseteq A \cup B \cup (C \cup {new}) /\ C \cup {new} \in SUBSET Admissions
        BY <1>3, <1>4, <1>5 DEF Follow
      <3>6. Follow(k, A, B, C \cup {new}, a, b, r)'
        BY <1>2, <1>5, <2>1, <2>2, <3>2, <3>3, <3>4, <3>5 DEF Follow
      <3> QED BY <3>5, <3>6 DEF Windows
    <2>4. CASE ~(entries'[k].count <= L)
      <3>1. log' = log /\ entries'[k].count >= entries[k].count
        BY <1>1, <1>6, <1>9, <1>8, <2>4
      <3>2. Cardinality(C) \in Nat
        BY <1>5, FS_CardinalityType DEF Follow
      <3>3. entries'[k].count \in Nat
        BY <1>8
      <3>4. Cardinality(C) <= entries'[k].count
        BY <1>6, <2>2, <3>1, <3>2, <3>3
      <3>5. Follow(k, A, B, C, a, b, r)'
        BY <1>2, <1>5, <2>1, <2>2, <3>1, <3>4 DEF Follow
      <3> QED BY <3>5 DEF Windows
    <2> QED BY <2>3, <2>4
  <1>10. CASE Expired(entries[k], now)
    <2> DEFINE end == now + W
    <2>1. /\ entries'[k].reset = end /\ entries'[k].count = 1 /\ end # Never /\ end \in Int
          /\ log' = Logged(k, now)
      BY <1>1, <1>10, <1>8 DEF Never
    <2>2. entries[k].reset < now
      BY <1>10 DEF Expired
    <2>3. r < clock
      BY <1>1, <1>5, <2>2 DEF Follow
    <2>4. \A x \in log'[k] : x.at > clock - W
      BY <1>1, <2>1, LoggedIs DEF RateInv
    <2>5. a + W - Lag < b /\ b + W - Lag < r /\ r + W - Lag < end
      BY <1>1, <1>5, <2>3 DEF Follow
    <2>6. log'[k] \subseteq B \cup C \cup {new}
      <3>1. a < clock - W + 1
        BY <1>1, <2>3, <2>5
      <3>2. \A x \in A : x.at \in Nat /\ x.at <= a
        BY <1>5 DEF Follow, Admissions
      <3>3. \A x \in A : x \notin log'[k]
        BY <1>1, <2>4, <3>1, <3>2
      <3> QED BY <1>4, <1>5, <3>3 DEF Follow
    <2>7. CASE k \in swept
      <3>1. Follow(k, B, C, {new}, b, r, end)'
        BY <1>1, <1>2, <1>3, <1>5, <1>7, <2>1, <2>5, <2>6, <2>7 DEF Follow
      <3> QED BY <1>7, <2>1, <3>1 DEF Windows
    <2>8. CASE k \notin swept /\ entries[k].reset = Never
      <3> DEFINE e == now - 1
                 d == e - W - 1
      <3>1. B = {} /\ C = {}
        BY <1>5, <2>8 DEF Follow
      <3>2. d \in Int /\ e \in Int /\ d + W - Lag < e /\ e + W < end /\ e + W - Lag < end
            /\ now <= end
        BY <1>1
      <3> HIDE DEF d, e, end
      <3>3. Follow(k, {}, {}, {new}, d, e, end)'
        BY <1>1, <1>2, <1>3, <1>7, <2>1, <2>6, <3>1, <3>2 DEF Follow
      <3> QED BY <1>7, <2>1, <3>2, <3>3 DEF Windows
    <2>9. CASE k \notin swept /\ entries[k].reset # Never
      <3>1. A = {} /\ b + W < r /\ r = entries[k].reset
        BY <1>5, <2>9 DEF Follow
      <3>2. r + W < end
        BY <1>1, <1>6, <2>2, <3>1
      <3>3. \A x \in B : x \notin log'[k]
        <4>1. b < clock - W
          BY <1>1, <2>3, <3>1
        <4>2. \A x \in B : x.at \in Nat /\ x.at <= b
          BY <1>5 DEF Follow, Admissions
        <4> QED BY <1>1, <2>4, <4>1, <4>2
      <3>4. log'[k] \subseteq {} \cup C \cup {new}
        BY <2>6, <3>3
      <3>5. Follow(k, {}, C, {new}, b, r, end)'
        BY <1>1, <1>2, <1>3, <1>5, <1>7, <2>1, <2>5, <3>2, <3>4, <2>9 DEF Follow
      <3> QED BY <1>7, <2>1, <3>5 DEF Windows
    <2> QED BY <2>7, <2>8, <2>9
  <1> QED BY <1>9, <1>10

LEMMA AllowStep == ASSUME RateInv, NEW c \in Callers, Allow(c) PROVE RateInv'
  <1>1. TypeOK' /\ Timely'
    BY AllowTypes
  <1>2. log'[Messages] = log[Messages] /\ limiter = "http"
    <2>1. Logged(call[c].about, call[c].now)[Messages] = log[Messages]
      BY AllowFacts, LoggedIs, Constants DEF RateInv
    <2> QED BY <2>1, OwnEntry, AllowFacts
  <1>3. MessageLog' /\ PenaltyKnown' /\ EarnedSince' /\ DedupKept'
    <2>1. UNCHANGED <<limiter, clock, timestamps, blockedUntil, dedup, lastSeen, banned,
                      earned, served>>
      BY DEF Allow, stateVars
    <2> QED
      BY <1>2, <2>1 DEF RateInv, MessageLog, PenaltyKnown, PenaltyServed, EarnedSince,
                        SincePenalty, DedupKept
  <1>4. ASSUME NEW k \in Keys PROVE Windows(k)'
    <2>1. CASE k # call[c].about
      BY <2>1, OtherWindows
    <2>2. CASE k = call[c].about
      <3>1. PICK now \in Nat : now = call[c].now
        BY AllowFacts
      <3> QED BY <2>2, <3>1, OwnWindows
    <2> QED BY <2>1, <2>2
  <1> QED BY <1>1, <1>3, <1>4 DEF RateInv

-----------------------------------------------------------------------------
(* The theorems.                                                           *)

LEMMA RateStep == RateInv /\ [Next]_vars => RateInv'
  <1> SUFFICES ASSUME RateInv, [Next]_vars PROVE RateInv'
    OBVIOUS
  <1>1. CASE Tick
    BY <1>1, TickStep
  <1>2. ASSUME NEW c \in Callers, NEW i \in Ids, Send(c, i) PROVE RateInv'
    BY <1>2, AskStep DEF Send
  <1>3. ASSUME NEW c \in Callers, NEW k \in Keys, Request(c, k) PROVE RateInv'
    BY <1>3, AskStep DEF Request
  <1>4. ASSUME NEW c \in Callers,
               CheckUncounted(c) \/ CheckRefuse(c) \/ CheckAdmit(c) \/ Keep(c) \/ Forget(c)
        PROVE  RateInv'
    BY <1>4, CheckUncountedStep, CheckRefuseStep, CheckAdmitStep, KeepStep, ForgetStep
  <1>5. ASSUME NEW c \in Callers, Allow(c) PROVE RateInv'
    BY <1>5, AllowStep
  <1>6. CASE CleanupTick \/ Cleanup
    BY <1>6, CleanupTickStep, CleanupStep
  <1>7. CASE UNCHANGED vars
    <2> USE DEF vars, stateVars, historyVars
    <2>1. TypeOK' /\ Timely'
      BY <1>7 DEF RateInv, TypeOK, Timely
    <2>2. Standing'
      BY <1>7, StandingSame DEF RateInv, Standing
    <2> QED BY <2>1, <2>2 DEF RateInv, Standing
  <1> QED BY <1>1, <1>2, <1>3, <1>4, <1>5, <1>6, <1>7 DEF Next

LEMMA RateIsSafe == Spec => []RateInv
  BY InitRate, RateStep, PTL DEF Spec

\* Of the messages that arrived in the last Window no more than Limit were admitted; of
\* the requests of a key no more than twice its limit, or three times if its entry was
\* swept, for every limit, window and lag (Check and allowWithInfo, rate_limit.go and
\* http_rate_limit.go).
THEOREM WindowsHold == Spec => []WindowHolds
  <1>1. RateInv => WindowHolds
    <2> SUFFICES ASSUME RateInv PROVE WindowHolds
      OBVIOUS
    <2>1. Cardinality(log[Messages]) <= Limit["message"]
      <3>1. /\ IsFiniteSet(timestamps) /\ log[Messages] \in SUBSET timestamps
            /\ Cardinality(timestamps) <= Limit["message"]
        BY DEF RateInv, TypeOK, MessageLog
      <3>2. /\ IsFiniteSet(log[Messages])
            /\ Cardinality(log[Messages]) <= Cardinality(timestamps)
        BY <3>1, FS_Subset
      <3>3. /\ Cardinality(log[Messages]) \in Nat /\ Cardinality(timestamps) \in Nat
            /\ Limit["message"] \in Nat
        BY <3>1, <3>2, FS_CardinalityType, Constants DEF Limiters
      <3> QED BY <3>1, <3>2, <3>3
    <2>2. ASSUME NEW k \in Keys
          PROVE  Cardinality(log[k]) <= (IF k \in swept THEN 3 ELSE 2) * Limit["http"]
      <3>1. PICK A, B, C \in SUBSET Admissions, a, b, r \in Int :
              Follow(k, A, B, C, a, b, r)
        BY DEF RateInv, Windows
      <3> DEFINE L == Limit["http"]
      <3>2. /\ L \in Nat
            /\ IsFiniteSet(A) /\ IsFiniteSet(B) /\ IsFiniteSet(C)
            /\ Cardinality(A) <= L /\ Cardinality(B) <= L /\ Cardinality(C) <= L
        BY <3>1, Constants DEF Follow, Limiters
      <3>3. /\ IsFiniteSet(B \cup C)
            /\ Cardinality(B \cup C) \in Nat /\ Cardinality(B \cup C) <= 2 * L
        <4>1. /\ IsFiniteSet(B \cup C) /\ Cardinality(B \cup C) \in Nat
              /\ Cardinality(B \cup C) <= L + L
          BY <3>2, UnionCount
        <4> QED BY <3>2, <4>1
      <3>4. /\ IsFiniteSet(A \cup (B \cup C))
            /\ Cardinality(A \cup (B \cup C)) \in Nat
            /\ Cardinality(A \cup (B \cup C)) <= 3 * L
        <4>1. 2 * L \in Nat
          BY <3>2
        <4>2. /\ IsFiniteSet(A \cup (B \cup C)) /\ Cardinality(A \cup (B \cup C)) \in Nat
              /\ Cardinality(A \cup (B \cup C)) <= L + 2 * L
          BY <3>2, <3>3, <4>1, UnionCount
        <4> QED BY <3>2, <4>2
      <3>5. CASE k \in swept
        <4>1. log[k] \in SUBSET (A \cup (B \cup C))
          BY <3>1 DEF Follow
        <4>2. /\ Cardinality(log[k]) <= Cardinality(A \cup (B \cup C))
              /\ Cardinality(log[k]) \in Nat
          BY <3>4, <4>1, FS_Subset, FS_CardinalityType
        <4> QED BY <3>2, <3>4, <3>5, <4>2
      <3>6. CASE k \notin swept
        <4>1. log[k] \in SUBSET (B \cup C)
          BY <3>1, <3>6 DEF Follow
        <4>2. /\ Cardinality(log[k]) <= Cardinality(B \cup C)
              /\ Cardinality(log[k]) \in Nat
          BY <3>3, <4>1, FS_Subset, FS_CardinalityType
        <4> QED BY <3>2, <3>3, <3>6, <4>2
      <3> QED BY <3>5, <3>6
    <2> QED BY <2>1, <2>2 DEF RateInv, WindowHolds
  <1> QED BY <1>1, RateIsSafe, PTL

\* No message is admitted during a penalty, and no cleanup ends one early (Check and
\* cleanup, rate_limit.go).
THEOREM PenaltiesAreServed == Spec => []PenaltyServed
  <1>1. RateInv => PenaltyServed
    BY DEF RateInv, PenaltyKnown
  <1> QED BY <1>1, RateIsSafe, PTL

\* A penalty is imposed for Limit messages admitted since the last one, never for those it
\* was already served for (Check, rate_limit.go).
THEOREM PenaltiesAreEarned == Spec => PenaltyEarned
  <1>1. RateInv /\ [Next]_vars =>
          [banned' > banned => earned >= Limit["message"]]_vars
    <2> SUFFICES ASSUME RateInv, Next, banned' > banned PROVE earned >= Limit["message"]
      OBVIOUS
    <2>1. PICK c \in Callers : CheckRefuse(c)
      <3>1. banned' # banned
        BY DEF RateInv, TypeOK, Never
      <3> QED
        BY <3>1 DEF Next, Tick, Send, Request, Ask, CheckUncounted, CheckAdmit, Keep, Forget,
                    Allow, CleanupTick, Cleanup, historyVars
    <2>2. Checking(c) /\ ~Blocked(c) /\ ~Duplicate(c) /\ ~HasRoom(c)
      BY <2>1 DEF CheckRefuse
    <2>3. /\ call[c].now \in Nat /\ MaxLag["message"] \in Nat /\ Window["message"] \in Nat
          /\ Penalty \in Nat /\ Limit["message"] \in Nat
          /\ Window["message"] + MaxLag["message"] <= Penalty
      BY <2>2, CheckFacts, Constants DEF Limiters
    <2>4. banned <= call[c].now
      <3>1. blockedUntil <= call[c].now
        BY <2>2, <2>3 DEF Blocked, RateInv, TypeOK, Never
      <3> QED BY <2>2, <3>1, NotBlocked
    <2>5. Kept(c) \in SUBSET SincePenalty
      <3>1. banned \in Int /\ \A a \in timestamps : a.at \in Nat
        BY DEF RateInv, TypeOK, Never, Admissions
      <3> QED BY <2>3, <2>4, <3>1, KeptIs DEF RateInv, SincePenalty
    <2>6. IsFiniteSet(SincePenalty)
      <3>1. SincePenalty \in SUBSET timestamps
        BY DEF SincePenalty
      <3> QED BY <3>1, FS_Subset DEF RateInv, TypeOK
    <2>7. /\ Cardinality(Kept(c)) <= Cardinality(SincePenalty)
          /\ Cardinality(Kept(c)) \in Nat /\ Cardinality(SincePenalty) \in Nat
      BY <2>5, <2>6, FS_Subset, FS_CardinalityType
    <2>8. Cardinality(SincePenalty) >= Limit["message"]
      BY <2>2, <2>3, <2>7 DEF HasRoom
    <2> QED BY <2>3, <2>7, <2>8 DEF RateInv, EarnedSince, TypeOK
  <1> QED BY <1>1, RateIsSafe, PTL DEF Spec, PenaltyEarned

\* A clientId that was admitted, and not forgotten, is not admitted again for TTL (the
\* dedup of Check, and the cleanup, rate_limit.go).
THEOREM DedupsHold == Spec => DedupHolds
  <1> DEFINE Again(i) == served[i] # Never /\ served'[i] \notin {served[i], Never}
  <1>1. RateInv /\ [Next]_vars =>
          [\A i \in ClientIds : Again(i) => clock >= served[i] + TTL]_vars
    <2> SUFFICES ASSUME RateInv, Next, NEW i \in ClientIds, Again(i)
                 PROVE  clock >= served[i] + TTL
      OBVIOUS
    <2>1. PICK c \in Callers : CheckAdmit(c) /\ call[c].about = i
      <3>1. served' # served /\ served'[i] # served[i] /\ served'[i] # Never
        OBVIOUS
      <3>2. PICK c \in Callers : CheckAdmit(c) \/ Forget(c)
        BY <3>1 DEF Next, Tick, Send, Request, Ask, CheckUncounted, CheckRefuse, Keep, Allow,
                    CleanupTick, Cleanup, historyVars
      <3>3. ~Forget(c)
        BY <3>1 DEF Forget, RateInv, TypeOK
      <3> QED BY <3>1, <3>2, <3>3 DEF CheckAdmit, RateInv, TypeOK
    <2>2. Checking(c) /\ ~Duplicate(c)
      BY <2>1 DEF CheckAdmit
    <2>3. dedup[i] <= clock
      <3>1. dedup[i] \in Int
        BY DEF RateInv, TypeOK, Never
      <3> QED BY <2>1, <2>2, <3>1, CheckFacts DEF Duplicate
    <2>4. dedup[i] = served[i] + TTL \/ clock >= served[i] + TTL
      BY DEF RateInv, DedupKept
    <2> QED BY <2>3, <2>4
  <1> QED BY <1>1, RateIsSafe, PTL DEF Spec, DedupHolds
=============================================================================
