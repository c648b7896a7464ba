------------------------- MODULE LoginDefenseProofs -------------------------
(* Proofs about LoginDefense for every set of workers and clients, and every *)
(* policy, attempt length and horizon that its assumptions admit.            *)
EXTENDS LoginDefense, FiniteSetTheorems, TLAPS

-----------------------------------------------------------------------------
(* The inductive invariant.  A bucket remembers its limit's worth of guesses *)
(* from its start; what an attempt in flight will add is bounded by the      *)
(* attempts that passed the gate before the lock fell.                       *)

\* An attempt took the time when it passed its client's bucket, not long ago.
Recent(w) == attempts[w] # Idle =>
  /\ attempts[w].now <= clock
  /\ attempts[w].at # "client" => attempts[w].now # 0
  /\ attempts[w].now # 0 => clock <= attempts[w].now + Lifetime
AttemptsAreRecent == \A w \in Workers : Recent(w)

\* The lock of the account bucket is the one its last count set.
BucketShape ==
  LET b == buckets[Account] IN b # NoBucket =>
    /\ b.count >= 1
    /\ b.until = IF b.count >= AccountLimit THEN b.updated + AccountLockout ELSE 0

\* A guess that still matters is in the bucket's window or before it, and the
\* bucket was written at most an attempt earlier.  Retention removes the bucket
\* only when a window has gone by.
GuessesHaveTheirBucket ==
  LET b == buckets[Account] IN
  \A x \in 0..Horizon : tried[x] > 0 =>
    /\ x <= clock
    /\ b # NoBucket => x <= b.updated + Lifetime /\ x <= b.start + AccountWindow
    /\ b = NoBucket => x + AccountWindow < clock + Lifetime

\* The attempts past the gate that may still count, and those of a period.
IsPast(w) ==
  attempts[w] # Idle /\ attempts[w].at \in {"user", "count_client", "count_account"}
Past(t) == {w \in Workers : IsPast(w) /\ attempts[w].now \in Period(t)}

\* No attempt in flight has a time in the period.
Over(t) == t + AccountWindow < clock + Lifetime

\* What a period may hold, from the bucket's count and start: a window that began
\* before the period lets through what is left of its limit, and when its lock
\* falls, what is past the gate; the next window does the same again.
Most == 2 * (AccountLimit - 1) + 2 * (Cardinality(Workers) - 1)
Within(t, b, g, f) ==
  LET k == Cardinality(Workers) - 1 IN
  IF b.start < t
  THEN IF b.count < AccountLimit THEN g < b.count ELSE g + f <= AccountLimit - 1 + k
  ELSE IF b.count < AccountLimit THEN g <= AccountLimit - 2 + k + b.count
       ELSE g + f <= Most
PeriodBounded(t) ==
  /\ IsFiniteSet(Guesses(t))
  /\ Cardinality(Guesses(t)) <= Most
  /\ ~Over(t) /\ buckets[Account] # NoBucket
       => Within(t, buckets[Account], Cardinality(Guesses(t)), Cardinality(Past(t)))
PeriodsBounded == \A t \in 1..Horizon : PeriodBounded(t)

LoginDefenseInv ==
  TypeOK /\ AttemptsAreRecent /\ BucketShape /\ GuessesHaveTheirBucket /\ PeriodsBounded

-----------------------------------------------------------------------------
(* The policy and the shapes *)

LEMMA Policy ==
  /\ AccountLimit \in Nat /\ AccountLimit > 1
  /\ AccountWindow \in Nat /\ AccountWindow > Lifetime
  /\ AccountLockout \in Nat /\ AccountWindow <= AccountLockout
  /\ ClientLimit \in Nat /\ ClientWindow \in Nat /\ ClientRetry \in Nat
  /\ Lifetime \in Nat
  /\ Horizon \in Nat /\ Horizon >= 1
  /\ Account \in Keys
  /\ \A c \in Clients : c \in Keys /\ c # Account
  /\ IsFiniteSet(Workers)
BY AccountIsNoClient, PolicyIsPositive, AccountPolicy, AttemptsAreShort,
   WorkersAreFinite DEF Keys

\* No window outlives a row that retention removes.
LEMMA RetentionCovers == Retention \in Nat /\ Retention >= AccountWindow
<1> DEFINE S == {AccountWindow, AccountLockout, ClientWindow, ClientRetry}
           Longest(m) == \A n \in S : n <= m
<1>1. S \subseteq Nat
  BY Policy
<1>2. \E m \in S : Longest(m)
  BY Policy
<1>3. Retention \in S /\ Longest(Retention)
  BY <1>2 DEF Retention
<1> QED
  BY <1>1, <1>3, Policy

\* The steps an attempt of a kind can be at.
StepsOf(op) ==
  Counting \cup
    (IF op = "grant" THEN {"account", "user", "reset_user", "reset_bucket"}
     ELSE IF op = "proof" THEN {"client", "account"} ELSE {})
Kinds == {"grant", "proof", "unknown"}

LEMMA AttemptShape ==
  ASSUME NEW a
  PROVE  a \in Attempt <=>
           /\ \E s \in StepsOf(a.op) :
                a \in [op : {a.op}, now : Time, client : Clients, seen : UserLock,
                       at : {s}]
           /\ a.op \in Kinds
BY DEF Attempt, AttemptOf, StepsOf, Kinds

LEMMA IdleIsNoAttempt == Idle \notin Attempt
<1>1. Idle.op \notin Kinds
  BY DEF Idle, Kinds
<1> QED
  BY <1>1, AttemptShape

LEMMA InFlight ==
  ASSUME TypeOK, NEW w \in Workers, attempts[w] # Idle
  PROVE  /\ attempts[w].op \in Kinds
         /\ attempts[w].at \in StepsOf(attempts[w].op)
         /\ attempts[w] \in [op : Kinds, now : Time, client : Clients,
                             seen : UserLock, at : STRING \cup StepsOf(attempts[w].op)]
<1>1. attempts[w] \in Attempt
  BY DEF TypeOK
<1> QED
  BY <1>1, AttemptShape

LEMMA Remade ==
  ASSUME NEW op \in Kinds, NEW now \in Time, NEW client \in Clients,
         NEW seen \in UserLock, NEW at \in StepsOf(op)
  PROVE  LET a == [op |-> op, now |-> now, client |-> client, seen |-> seen,
                   at |-> at]
         IN  a \in Attempt /\ a # Idle
<1> DEFINE a == [op |-> op, now |-> now, client |-> client, seen |-> seen,
                 at |-> at]
<1>1. a \in Attempt
  BY AttemptShape
<1> QED
  BY <1>1, IdleIsNoAttempt

\* What an attempt that moves leaves as it was.
LEMMA Going ==
  ASSUME TypeOK, NEW w \in Workers, attempts[w] # Idle,
         NEW step \in StepsOf(attempts[w].op), Goto(w, step)
  PROVE  /\ attempts' \in [Workers -> Attempt \cup {Idle}]
         /\ attempts'[w] # Idle
         /\ attempts'[w].at = step
         /\ attempts'[w].now = attempts[w].now
         /\ \A v \in Workers \ {w} : attempts'[v] = attempts[v]
<1> DEFINE a == attempts[w]
           b == [op |-> a.op, now |-> a.now, client |-> a.client, seen |-> a.seen,
                 at |-> step]
<1>1. /\ a.op \in Kinds
      /\ a \in [op : Kinds, now : Time, client : Clients, seen : UserLock,
                at : STRING \cup StepsOf(a.op)]
  BY InFlight
<1>2. [a EXCEPT !.at = step] = b
  BY <1>1
<1>3. b \in Attempt /\ b # Idle
  BY <1>1, Remade
<1>4. attempts' = [attempts EXCEPT ![w] = b]
  BY <1>2 DEF Goto
<1>5. attempts \in [Workers -> Attempt \cup {Idle}]
  BY DEF TypeOK
<1>6. attempts'[w] = b /\ \A v \in Workers \ {w} : attempts'[v] = attempts[v]
  BY <1>4, <1>5
<1>7. attempts' \in [Workers -> Attempt \cup {Idle}]
  BY <1>3, <1>4, <1>5
<1> HIDE DEF a
<1> QED
  BY <1>3, <1>6, <1>7 DEF a

LEMMA Finishing ==
  ASSUME TypeOK, NEW w \in Workers, Finish(w)
  PROVE  /\ attempts' \in [Workers -> Attempt \cup {Idle}]
         /\ attempts'[w] = Idle
         /\ \A v \in Workers \ {w} : attempts'[v] = attempts[v]
BY DEF Finish, TypeOK

-----------------------------------------------------------------------------
(* The steps of an attempt: what they leave of the attempts' times, and that *)
(* only the gate of the account lets one through.                            *)

Passes(w) == At(w, "account") /\ ~AccountLocked(attempts[w].now)

StepOf(w) ==
  /\ attempts' \in [Workers -> Attempt \cup {Idle}]
  /\ \A v \in Workers \ {w} : attempts'[v] = attempts[v]
  /\ Recent(w)'
  /\ IsPast(w)' => attempts'[w].now = attempts[w].now /\ (IsPast(w) \/ Passes(w))

LEMMA GoingStep ==
  ASSUME TypeOK, NEW w \in Workers, attempts[w] # Idle, Recent(w),
         NEW step \in StepsOf(attempts[w].op), Goto(w, step), clock' = clock,
         attempts[w].at # "client",
         step \in {"user", "count_client", "count_account"} => IsPast(w) \/ Passes(w)
  PROVE  StepOf(w)
<1>1. /\ attempts' \in [Workers -> Attempt \cup {Idle}]
      /\ attempts'[w] # Idle
      /\ attempts'[w].at = step
      /\ attempts'[w].now = attempts[w].now
      /\ \A v \in Workers \ {w} : attempts'[v] = attempts[v]
  BY Going
<1> QED
  BY <1>1 DEF StepOf, Recent, IsPast

LEMMA FinishingStep ==
  ASSUME TypeOK, NEW w \in Workers, Finish(w)
  PROVE  StepOf(w)
BY Finishing DEF StepOf, Recent, IsPast

LEMMA VerifyStep ==
  ASSUME TypeOK, NEW w \in Workers, attempts[w] # Idle, Recent(w),
         attempts[w].at # "client", clock' = clock, Verify(w), IsPast(w) \/ Passes(w)
  PROVE  StepOf(w)
<1>1. CASE Goto(w, "count_client")
  BY <1>1, GoingStep DEF StepsOf, Counting
<1>2. CASE attempts[w].op = "grant" /\ Goto(w, "reset_user")
  BY <1>2, GoingStep DEF StepsOf, Counting
<1>3. CASE attempts[w].op = "proof" /\ Finish(w)
  BY <1>3, FinishingStep
<1> QED
  BY <1>1, <1>2, <1>3 DEF Verify

\* An attempt that begins, takes the time or finds no user is replaced.
LEMMA ReplacedStep ==
  ASSUME TypeOK, NEW w \in Workers, NEW a \in Attempt,
         attempts' = [attempts EXCEPT ![w] = a], clock' = clock,
         a.now <= clock, a.at # "client" => a.now # 0,
         a.now # 0 => clock <= a.now + Lifetime,
         a.at \in {"user", "count_client", "count_account"}
           => a.now = attempts[w].now /\ IsPast(w)
  PROVE  StepOf(w)
<1>1. attempts \in [Workers -> Attempt \cup {Idle}]
  BY DEF TypeOK
<1>2. /\ attempts' \in [Workers -> Attempt \cup {Idle}] /\ attempts'[w] = a
      /\ \A v \in Workers \ {w} : attempts'[v] = attempts[v]
  BY <1>1
<1> QED
  BY <1>2 DEF StepOf, Recent, IsPast

\* What the clock gives is a time.
LEMMA ClockIsTime ==
  ASSUME TypeOK
  PROVE  /\ clock \in Nat /\ clock \in Time /\ clock # 0
         /\ Horizon + AccountLockout + ClientRetry \in Nat
         /\ 0 \in Time /\ Time \subseteq Nat
         /\ \A n \in 0..Horizon : /\ n \in Time
                                  /\ n + AccountLockout \in Time
                                  /\ n + ClientRetry \in Time
BY Policy DEF TypeOK, Time

LEMMA GateSteps ==
  ASSUME TypeOK, AttemptsAreRecent, NEW w \in Workers, Gate(w)
  PROVE  StepOf(w)
<1> USE DEF AttemptsAreRecent
<1>0. clock' = clock
  BY DEF Gate, BeginGrant, BeginProof, ReadClientBucket, ReadAccountBucket, ReadUser
<1>1. ASSUME NEW c \in Clients, BeginGrant(w, c) PROVE StepOf(w)
  <2> DEFINE a == [op |-> "grant", now |-> clock, client |-> c, seen |-> Unlocked,
                   at |-> "account"]
  <2>1. Unlocked \in UserLock /\ "account" \in StepsOf("grant") /\ "grant" \in Kinds
    BY ClockIsTime DEF Unlocked, UserLock, StepsOf, Kinds
  <2>2. a \in Attempt
    BY <2>1, Remade, ClockIsTime
  <2>3. a.now = clock /\ a.at = "account"
    OBVIOUS
  <2>4. clock <= clock /\ clock <= clock + Lifetime
    BY Policy, ClockIsTime
  <2>5. attempts' = [attempts EXCEPT ![w] = a]
    BY <1>1 DEF BeginGrant
  <2> HIDE DEF a
  <2> QED
    BY <1>0, <2>2, <2>3, <2>4, <2>5, ReplacedStep, ClockIsTime
<1>2. ASSUME NEW c \in Clients, BeginProof(w, c) PROVE StepOf(w)
  <2> DEFINE a == [op |-> "proof", now |-> 0, client |-> c, seen |-> user,
                   at |-> "client"]
  <2>1. user \in UserLock /\ "client" \in StepsOf("proof") /\ "proof" \in Kinds
    BY DEF TypeOK, StepsOf, Kinds
  <2>2. a \in Attempt
    BY <2>1, Remade, ClockIsTime
  <2>3. a.now = 0 /\ a.at = "client" /\ 0 <= clock
    BY ClockIsTime
  <2>4. attempts' = [attempts EXCEPT ![w] = a]
    BY <1>2 DEF BeginProof
  <2> HIDE DEF a
  <2> QED
    BY <1>0, <2>2, <2>3, <2>4, ReplacedStep
<1>3. CASE ReadClientBucket(w)
  <2> DEFINE a == attempts[w]
  <2>1. /\ a # Idle /\ a.at = "client" /\ a.at \in StepsOf(a.op) /\ a.op \in Kinds
        /\ a \in [op : Kinds, now : Time, client : Clients, seen : UserLock,
                  at : STRING \cup StepsOf(a.op)]
    BY <1>3, InFlight DEF ReadClientBucket, At
  <2>2. "account" \in StepsOf(a.op)
    BY <2>1 DEF StepsOf, Counting, Kinds
  <2>3. CASE attempts' = [attempts EXCEPT ![w].now = clock, ![w].at = "account"]
    <3> DEFINE c == [op |-> a.op, now |-> clock, client |-> a.client,
                     seen |-> a.seen, at |-> a.at]
               b == [op |-> a.op, now |-> clock, client |-> a.client,
                     seen |-> a.seen, at |-> "account"]
    <3>1. [a EXCEPT !.now = clock] = c
      BY <2>1
    <3>2. [c EXCEPT !.at = "account"] = b
      OBVIOUS
    <3>3. attempts' = [attempts EXCEPT ![w] =
                         [[attempts[w] EXCEPT !.now = clock] EXCEPT !.at = "account"]]
      BY <2>3 DEF TypeOK
    <3>4. attempts' = [attempts EXCEPT ![w] = b]
      BY <3>1, <3>2, <3>3
    <3>5. a.client \in Clients /\ a.seen \in UserLock
      BY <2>1
    <3>6. b \in Attempt
      BY <2>1, <2>2, <3>5, Remade, ClockIsTime
    <3>7. b.now = clock /\ b.at = "account"
      OBVIOUS
    <3>8. clock <= clock /\ clock <= clock + Lifetime
      BY Policy, ClockIsTime
    <3> HIDE DEF b
    <3> QED
      BY <1>0, <3>4, <3>6, <3>7, <3>8, ReplacedStep, ClockIsTime
  <2>4. CASE Finish(w)
    BY <2>4, FinishingStep
  <2> QED
    BY <1>3, <2>3, <2>4 DEF ReadClientBucket
<1>4. CASE ReadAccountBucket(w)
  <2>1. /\ attempts[w] # Idle /\ attempts[w].at = "account"
        /\ attempts[w].at \in StepsOf(attempts[w].op) /\ attempts[w].op \in Kinds
    BY <1>4, InFlight DEF ReadAccountBucket, At
  <2>2. CASE Goto(w, "only_client")
    BY <1>0, <2>1, <2>2, GoingStep DEF StepsOf, Counting
  <2>3. CASE ~AccountLocked(attempts[w].now) /\ Verify(w)
    BY <1>0, <2>1, <2>3, VerifyStep DEF Passes, At
  <2>4. CASE ~AccountLocked(attempts[w].now) /\ attempts[w].op # "proof" /\ Goto(w, "user")
    <3>1. "user" \in StepsOf(attempts[w].op)
      BY <2>1, <2>4 DEF StepsOf, Counting, Kinds
    <3> QED
      BY <1>0, <2>1, <2>4, <3>1, GoingStep DEF Passes, At
  <2> QED
    BY <1>4, <2>2, <2>3, <2>4 DEF ReadAccountBucket
<1>5. CASE ReadUser(w)
  <2> DEFINE a == attempts[w]
  <2>1. /\ a # Idle /\ a.at = "user" /\ a.at \in StepsOf(a.op) /\ a.op \in Kinds
        /\ a \in [op : Kinds, now : Time, client : Clients, seen : UserLock,
                  at : STRING \cup StepsOf(a.op)]
    BY <1>5, InFlight DEF ReadUser, At
  <2>2. IsPast(w)
    BY <2>1 DEF IsPast
  <2>3. CASE attempts' = [attempts EXCEPT ![w].op = "unknown", ![w].at = "count_client"]
    <3> DEFINE c == [op |-> "unknown", now |-> a.now, client |-> a.client,
                     seen |-> a.seen, at |-> a.at]
               b == [op |-> "unknown", now |-> a.now, client |-> a.client,
                     seen |-> a.seen, at |-> "count_client"]
    <3>1. [a EXCEPT !.op = "unknown"] = c
      BY <2>1
    <3>2. [c EXCEPT !.at = "count_client"] = b
      OBVIOUS
    <3>3. attempts' = [attempts EXCEPT ![w] =
            [[attempts[w] EXCEPT !.op = "unknown"] EXCEPT !.at = "count_client"]]
      BY <2>3 DEF TypeOK
    <3>4. attempts' = [attempts EXCEPT ![w] = b]
      BY <3>1, <3>2, <3>3
    <3>5. /\ "unknown" \in Kinds /\ "count_client" \in StepsOf("unknown")
          /\ a.now \in Time /\ a.client \in Clients /\ a.seen \in UserLock
      BY <2>1 DEF Kinds, StepsOf, Counting
    <3>6. b \in Attempt
      BY <3>5, Remade
    <3>7. b.now = a.now /\ b.at = "count_client"
      OBVIOUS
    <3>8. a.now <= clock /\ a.now # 0 /\ clock <= a.now + Lifetime
      BY <2>1 DEF Recent
    <3> HIDE DEF b
    <3> QED
      BY <1>0, <2>2, <3>4, <3>6, <3>7, <3>8, ReplacedStep
  <2>4. CASE Goto(w, "only_client")
    BY <1>0, <2>1, <2>4, GoingStep DEF StepsOf, Counting
  <2>5. CASE Verify(w)
    BY <1>0, <2>1, <2>2, <2>5, VerifyStep
  <2> QED
    BY <1>5, <2>3, <2>4, <2>5 DEF ReadUser
<1> QED
  BY <1>1, <1>2, <1>3, <1>4, <1>5 DEF Gate


\* What an attempt that took the time can count under.
LEMMA Stamped ==
  ASSUME TypeOK, AttemptsAreRecent, NEW w \in Workers, attempts[w] # Idle,
         attempts[w].at # "client"
  PROVE  /\ attempts[w].now \in 1..Horizon
         /\ attempts[w].now <= clock
         /\ clock <= attempts[w].now + Lifetime
<1>1. attempts[w].now \in Time
  BY InFlight
<1>2. Recent(w)
  BY DEF AttemptsAreRecent
<1>3. clock \in 1..Horizon /\ attempts[w].now \in Nat
  BY <1>1, ClockIsTime DEF TypeOK
<1> QED
  BY <1>2, <1>3, Policy DEF Recent

LEMMA CountingSteps ==
  ASSUME TypeOK, AttemptsAreRecent, NEW w \in Workers,
         Failure(w) \/ Success(w) \/ Abandon(w)
  PROVE  StepOf(w)
<1>0. clock' = clock
  BY DEF Failure, Success, CountClientFailure, CountAccountFailure, ReadBack,
         RecordFailedLogin, ResetLoginDefenseState, ResetAuthFailureBucket, Abandon
<1>1. attempts[w] # Idle
  BY DEF Failure, Success, CountClientFailure, CountAccountFailure, ReadBack,
         RecordFailedLogin, ResetLoginDefenseState, ResetAuthFailureBucket, Abandon, At
<1>2. Recent(w)
  BY DEF AttemptsAreRecent
<1>3. Counting \subseteq StepsOf(attempts[w].op)
  BY DEF StepsOf
<1>4. CASE Finish(w)
  BY <1>4, FinishingStep
<1>5. CASE CountClientFailure(w) /\ ~Finish(w)
  <2>1. attempts[w].at = "count_client" /\ Goto(w, "count_account")
    BY <1>5 DEF CountClientFailure
  <2>2. IsPast(w)
    BY <1>1, <2>1 DEF IsPast
  <2> QED
    BY <1>0, <1>1, <1>2, <1>3, <2>1, <2>2, GoingStep DEF Counting
<1>6. CASE CountAccountFailure(w)
  <2>1. attempts[w].at = "count_account" /\ Goto(w, "read_back")
    BY <1>6 DEF CountAccountFailure, At
  <2> QED
    BY <1>0, <1>1, <1>2, <1>3, <2>1, GoingStep DEF Counting
<1>7. CASE ReadBack(w) /\ ~Finish(w)
  <2> DEFINE a == attempts[w]
             b == buckets[Account]
             lock == [count |-> b.count, until |-> b.until]
  <2>1. /\ a.at = "read_back"
        /\ attempts' = [attempts EXCEPT ![w].seen = lock, ![w].at = "copy"]
    BY <1>7 DEF ReadBack, At
  <2>2. /\ a.op \in Kinds
        /\ a \in [op : Kinds, now : Time, client : Clients, seen : UserLock,
                  at : STRING \cup StepsOf(a.op)]
    BY <1>1, InFlight
  <2>3. lock \in UserLock
    BY Policy DEF TypeOK, Bucket, UserLock
  <2> HIDE DEF lock
  <2> DEFINE c == [op |-> a.op, now |-> a.now, client |-> a.client,
                   seen |-> lock, at |-> a.at]
             d == [op |-> a.op, now |-> a.now, client |-> a.client,
                   seen |-> lock, at |-> "copy"]
  <2>4. [a EXCEPT !.seen = lock] = c
    BY <2>2
  <2>5. [c EXCEPT !.at = "copy"] = d
    OBVIOUS
  <2>6. attempts' = [attempts EXCEPT ![w] =
                      [[attempts[w] EXCEPT !.seen = lock] EXCEPT !.at = "copy"]]
    BY <2>1 DEF TypeOK
  <2>7. attempts' = [attempts EXCEPT ![w] = d]
    BY <2>4, <2>5, <2>6
  <2>8. d \in Attempt
    BY <1>3, <2>2, <2>3, Remade DEF Counting
  <2>9. d.now = a.now /\ d.at = "copy"
    OBVIOUS
  <2>10. a.now <= clock /\ a.now # 0 /\ clock <= a.now + Lifetime
    BY <1>1, <1>2, <2>1 DEF Recent
  <2> HIDE DEF d
  <2> QED
    BY <1>0, <2>7, <2>8, <2>9, <2>10, ReplacedStep
<1>8. CASE ResetLoginDefenseState(w)
  <2>1. attempts[w].at = "reset_user" /\ Goto(w, "reset_bucket")
    BY <1>8 DEF ResetLoginDefenseState, At
  <2>2. "reset_bucket" \in StepsOf(attempts[w].op)
    BY <1>1, <2>1, InFlight DEF StepsOf, Counting, Kinds
  <2> QED
    BY <1>0, <1>1, <1>2, <2>1, <2>2, GoingStep
<1> QED
  BY <1>4, <1>5, <1>6, <1>7, <1>8
     DEF Failure, Success, RecordFailedLogin, ResetAuthFailureBucket, Abandon

-----------------------------------------------------------------------------
(* Types *)

LEMMA CountedIsBucket ==
  ASSUME TypeOK, NEW k \in Keys, NEW now \in 1..Horizon
  PROVE  Counted(k, now) \in Bucket /\ Counted(k, now).count >= 1
<1>1. /\ now \in Time /\ 0 \in Time /\ now + Lockout(k) \in Time
      /\ Limit(k) \in Nat
  BY ClockIsTime, Policy DEF Lockout, Limit
<1>2. buckets[k] \in Bucket
  BY DEF TypeOK
<1>3. /\ Inserted(k, now) \in Bucket
      /\ Inserted(k, now).count >= 1
  BY <1>1 DEF Inserted, Bucket
<1>4. /\ Advanced(k, now) \in Bucket
      /\ Advanced(k, now).count >= 1
  BY <1>1, <1>2 DEF Advanced, Bucket
<1> QED
  BY <1>3, <1>4 DEF Counted

\* What a step leaves of the rows.
LEMMA NoBucketIsBucket == NoBucket \in Bucket /\ Unlocked \in UserLock
BY Policy DEF NoBucket, Bucket, Unlocked, UserLock, Time

LEMMA TypeNext ==
  ASSUME TypeOK, AttemptsAreRecent, [Next]_vars
  PROVE  TypeOK'
<1> USE DEF TypeOK
<1>1. ASSUME NEW w \in Workers, Gate(w) PROVE TypeOK'
  <2>1. attempts' \in [Workers -> Attempt \cup {Idle}]
    BY <1>1, GateSteps DEF StepOf
  <2> QED
    BY <1>1, <2>1 DEF Gate, BeginGrant, BeginProof, ReadClientBucket,
                      ReadAccountBucket, ReadUser
<1>2. ASSUME NEW w \in Workers, Failure(w) \/ Success(w) \/ Abandon(w) PROVE TypeOK'
  <2>1. attempts' \in [Workers -> Attempt \cup {Idle}]
    BY <1>2, CountingSteps DEF StepOf
  <2>2. attempts[w] # Idle => attempts[w].seen \in UserLock /\ attempts[w].client \in Keys
    BY InFlight, Policy
  <2>3. CASE CountClientFailure(w)
    <3>1. attempts[w].now \in 1..Horizon /\ attempts[w].client \in Keys
      BY <2>2, <2>3, Stamped DEF CountClientFailure, At
    <3>2. Counted(attempts[w].client, attempts[w].now) \in Bucket
      BY <3>1, CountedIsBucket
    <3> QED
      BY <2>1, <2>3, <3>1, <3>2 DEF CountClientFailure
  <2>4. CASE CountAccountFailure(w)
    <3>1. attempts[w].now \in 1..Horizon
      BY <2>4, Stamped DEF CountAccountFailure, At
    <3>2. Counted(Account, attempts[w].now) \in Bucket
      BY <3>1, CountedIsBucket, Policy
    <3>3. tried' \in [0..Horizon -> Nat]
      BY <2>4, <3>1 DEF CountAccountFailure
    <3> QED
      BY <2>1, <2>4, <3>2, <3>3 DEF CountAccountFailure
  <2>5. CASE ReadBack(w)
    BY <2>1, <2>5 DEF ReadBack
  <2>6. CASE RecordFailedLogin(w)
    BY <2>1, <2>2, <2>6 DEF RecordFailedLogin, At
  <2>7. CASE ResetLoginDefenseState(w)
    BY <2>1, <2>7, NoBucketIsBucket DEF ResetLoginDefenseState
  <2>8. CASE ResetAuthFailureBucket(w)
    BY <2>1, <2>8, NoBucketIsBucket DEF ResetAuthFailureBucket
  <2>9. CASE Abandon(w)
    BY <2>1, <2>9 DEF Abandon
  <2> QED
    BY <1>2, <2>3, <2>4, <2>5, <2>6, <2>7, <2>8, <2>9 DEF Failure, Success
<1>3. ASSUME NEW k \in Keys, CleanupExpiredAuthFailureBuckets(k) PROVE TypeOK'
  BY <1>3, NoBucketIsBucket DEF CleanupExpiredAuthFailureBuckets
<1>4. CASE Tick
  <2>1. clock' \in 1..Horizon
    BY <1>4, Policy DEF Tick
  <2>2. tried' \in [0..Horizon -> Nat]
    BY <1>4 DEF Tick
  <2> QED
    BY <1>4, <2>1, <2>2 DEF Tick
<1>5. CASE UNCHANGED vars
  BY <1>5 DEF vars
<1> QED
  BY <1>1, <1>2, <1>3, <1>4, <1>5 DEF Next

LEMMA RecentNext ==
  ASSUME TypeOK, AttemptsAreRecent, [Next]_vars
  PROVE  AttemptsAreRecent'
<1>1. ASSUME NEW w \in Workers, Gate(w) \/ Failure(w) \/ Success(w) \/ Abandon(w)
      PROVE  AttemptsAreRecent'
  <2>1. StepOf(w)
    BY <1>1, GateSteps, CountingSteps
  <2>2. clock' = clock
    BY <1>1 DEF Gate, BeginGrant, BeginProof, ReadClientBucket, ReadAccountBucket,
         ReadUser, Failure, Success, CountClientFailure, CountAccountFailure, ReadBack,
         RecordFailedLogin, ResetLoginDefenseState, ResetAuthFailureBucket, Abandon
  <2> QED
    BY <2>1, <2>2 DEF StepOf, AttemptsAreRecent, Recent
<1>2. ASSUME NEW k \in Keys, CleanupExpiredAuthFailureBuckets(k)
      PROVE  AttemptsAreRecent'
  BY <1>2 DEF CleanupExpiredAuthFailureBuckets, AttemptsAreRecent, Recent
<1>3. CASE Tick
  <2> SUFFICES ASSUME NEW w \in Workers, attempts[w] # Idle PROVE Recent(w)'
    BY <1>3 DEF Tick, AttemptsAreRecent, Recent
  <2>1. attempts[w].now \in Nat /\ clock \in Nat /\ Lifetime \in Nat
    BY InFlight, ClockIsTime, Policy
  <2>2. Recent(w) /\ clock' = clock + 1 /\ attempts' = attempts
        /\ (attempts[w].now # 0 => clock < attempts[w].now + Lifetime)
    BY <1>3 DEF Tick, AttemptsAreRecent
  <2> QED
    BY <2>1, <2>2 DEF Recent
<1>4. CASE UNCHANGED vars
  BY <1>4 DEF vars, AttemptsAreRecent, Recent
<1> QED
  BY <1>1, <1>2, <1>3, <1>4 DEF Next

LEMMA TypeInit == Init => TypeOK /\ AttemptsAreRecent
BY Policy, NoBucketIsBucket DEF Init, TypeOK, AttemptsAreRecent, Recent

\* Rows of auth_failure_buckets and users, and attempts, keep their shapes: every
\* time that recordFailedAuthBucket writes fits, since an attempt never takes a time
\* after the clock's.
THEOREM TypesHold == Spec => []TypeOK
<1>1. Init => TypeOK /\ AttemptsAreRecent
  BY TypeInit
<1>2. TypeOK /\ AttemptsAreRecent /\ [Next]_vars => (TypeOK /\ AttemptsAreRecent)'
  BY TypeNext, RecentNext
<1> QED
  BY <1>1, <1>2, PTL DEF Spec


-----------------------------------------------------------------------------
(* What a step does to the account: its bucket, its guesses, and who is past *)
(* the gate.                                                                 *)

RowsStay == buckets'[Account] = buckets[Account] /\ tried' = tried /\ clock' = clock
Counts(w) ==
  /\ At(w, "count_account")
  /\ buckets'[Account] = Counted(Account, attempts[w].now)
  /\ tried' = [tried EXCEPT ![attempts[w].now] = @ + 1]
  /\ attempts'[w].at = "read_back"
  /\ clock' = clock
Forgets ==
  buckets'[Account] = NoBucket /\ tried' = [t \in 0..Horizon |-> 0] /\ clock' = clock
Retires ==
  /\ buckets[Account].updated + Retention < clock
  /\ buckets'[Account] = NoBucket /\ tried' = tried /\ clock' = clock
PassesTime ==
  /\ clock' = clock + 1 /\ buckets'[Account] = buckets[Account]
  /\ \A x \in 0..Horizon : tried'[x] = tried[x] \/ tried'[x] = 0
Acts(w) == StepOf(w) /\ (RowsStay \/ Counts(w) \/ Forgets)
Waits == attempts' = attempts /\ (RowsStay \/ Retires \/ PassesTime)

LEMMA AccountStep ==
  ASSUME TypeOK, AttemptsAreRecent, [Next]_vars
  PROVE  (\E w \in Workers : Acts(w)) \/ Waits
<1>1. ASSUME NEW w \in Workers, Gate(w) PROVE Acts(w)
  <2>1. RowsStay
    BY <1>1 DEF Gate, BeginGrant, BeginProof, ReadClientBucket, ReadAccountBucket,
                ReadUser, RowsStay
  <2> QED
    BY <1>1, <2>1, GateSteps DEF Acts
<1>2. ASSUME NEW w \in Workers, Failure(w) \/ Success(w) \/ Abandon(w) PROVE Acts(w)
  <2>1. StepOf(w)
    BY <1>2, CountingSteps
  <2>2. CASE CountClientFailure(w)
    <3>1. attempts[w].client # Account
      BY <2>2, InFlight, Policy DEF CountClientFailure, At
    <3> QED
      BY <2>1, <2>2, <3>1 DEF CountClientFailure, RowsStay, Acts, TypeOK
  <2>3. CASE CountAccountFailure(w)
    <3>1. buckets'[Account] = Counted(Account, attempts[w].now)
      BY <2>3, Policy DEF CountAccountFailure, TypeOK
    <3>2. attempts'[w].at = "read_back"
      <4>1. attempts[w] # Idle /\ "read_back" \in StepsOf(attempts[w].op)
        BY <2>3 DEF CountAccountFailure, At, StepsOf, Counting
      <4> QED
        BY <2>3, <4>1, Going DEF CountAccountFailure
    <3> QED
      BY <2>1, <2>3, <3>1, <3>2 DEF CountAccountFailure, Counts, Acts
  <2>4. CASE ReadBack(w) \/ RecordFailedLogin(w) \/ ResetLoginDefenseState(w) \/ Abandon(w)
    BY <2>1, <2>4 DEF ReadBack, RecordFailedLogin, ResetLoginDefenseState, Abandon,
                      RowsStay, Acts
  <2>5. CASE ResetAuthFailureBucket(w)
    BY <2>1, <2>5, Policy DEF ResetAuthFailureBucket, Forgets, Acts, TypeOK
  <2> QED
    BY <1>2, <2>2, <2>3, <2>4, <2>5 DEF Failure, Success
<1>3. ASSUME NEW k \in Keys, CleanupExpiredAuthFailureBuckets(k) PROVE Waits
  <2>1. CASE k = Account
    BY <1>3, <2>1 DEF CleanupExpiredAuthFailureBuckets, Retires, Waits, TypeOK
  <2>2. CASE k # Account
    BY <1>3, <2>2 DEF CleanupExpiredAuthFailureBuckets, RowsStay, Waits, TypeOK
  <2> QED
    BY <2>1, <2>2
<1>4. CASE Tick
  <2>1. \A x \in 0..Horizon : tried'[x] = tried[x] \/ tried'[x] = 0
    BY <1>4 DEF Tick
  <2> QED
    BY <1>4, <2>1 DEF Tick, PassesTime, Waits
<1>5. CASE UNCHANGED vars
  BY <1>5 DEF vars, RowsStay, Waits
<1> QED
  BY <1>1, <1>2, <1>3, <1>4, <1>5 DEF Next

LEMMA AccountBucket ==
  ASSUME TypeOK
  PROVE  /\ buckets[Account] \in Bucket
         /\ buckets[Account].count \in Nat /\ buckets[Account].start \in Nat
         /\ buckets[Account].until \in Nat /\ buckets[Account].updated \in Nat
BY Policy, ClockIsTime DEF TypeOK, Bucket

\* The bucket a failure leaves.
LEMMA AccountCounted ==
  ASSUME TypeOK, NEW m \in 1..Horizon
  PROVE  LET b == buckets[Account]
             n == Counted(Account, m)
         IN  /\ n \in Bucket /\ n # NoBucket /\ n.count >= 1 /\ n.updated = m
             /\ n.until = IF n.count >= AccountLimit THEN m + AccountLockout ELSE 0
             /\ b = NoBucket => n.count = 1 /\ n.start = m
             /\ b # NoBucket /\ b.start + AccountWindow >= m
                  => n.count = b.count + 1 /\ n.start = b.start
             /\ b # NoBucket /\ b.start + AccountWindow < m
                  => n.count = 1 /\ n.start = m
<1>1. /\ Account \in Keys /\ AccountLimit \in Nat /\ AccountLimit > 1
      /\ Window(Account) = AccountWindow /\ Limit(Account) = AccountLimit
      /\ Lockout(Account) = AccountLockout
  BY Policy DEF Window, Limit, Lockout
<1>2. Counted(Account, m) \in Bucket /\ Counted(Account, m).count >= 1
  BY <1>1, CountedIsBucket
<1>3. Counted(Account, m) # NoBucket
  BY <1>2 DEF NoBucket
<1>4. CASE buckets[Account] = NoBucket
  <2>1. Counted(Account, m) = [count |-> 1, start |-> m, updated |-> m, until |-> 0]
    BY <1>1, <1>4 DEF Counted, Inserted
  <2> QED
    BY <1>1, <1>2, <1>3, <1>4, <2>1
<1>5. CASE buckets[Account] # NoBucket
  <2> DEFINE b == buckets[Account]
             in == b.start + AccountWindow >= m
             c == IF in THEN b.count + 1 ELSE 1
  <2>1. Counted(Account, m) =
          [count |-> c, start |-> IF in THEN b.start ELSE m,
           until |-> IF c >= AccountLimit THEN m + AccountLockout ELSE 0,
           updated |-> m]
    BY <1>1, <1>5 DEF Counted, Advanced
  <2>2. in <=> ~(b.start + AccountWindow < m)
    BY Policy, AccountBucket
  <2> QED
    BY <1>2, <1>3, <1>5, <2>1, <2>2
<1> QED
  BY <1>4, <1>5

LEMMA BucketShapeNext ==
  ASSUME TypeOK, AttemptsAreRecent, BucketShape, [Next]_vars
  PROVE  BucketShape'
<1>1. ASSUME NEW w \in Workers, Counts(w) PROVE BucketShape'
  <2>1. attempts[w].now \in 1..Horizon
    BY <1>1, Stamped DEF Counts, At
  <2> QED
    BY <1>1, <2>1, AccountCounted DEF Counts, BucketShape
<1>2. CASE buckets'[Account] \in {buckets[Account], NoBucket}
  BY <1>2 DEF BucketShape
<1> QED
  BY <1>1, <1>2, AccountStep DEF Acts, Waits, RowsStay, Forgets, Retires, PassesTime

LEMMA GuessesHaveTheirBucketNext ==
  ASSUME TypeOK, AttemptsAreRecent, GuessesHaveTheirBucket, [Next]_vars
  PROVE  GuessesHaveTheirBucket'
<1> USE DEF GuessesHaveTheirBucket
<1>1. /\ clock \in Nat /\ tried \in [0..Horizon -> Nat]
      /\ AccountWindow \in Nat /\ Lifetime \in Nat /\ Lifetime < AccountWindow
  BY Policy, ClockIsTime DEF TypeOK
<1>2. CASE RowsStay
  BY <1>2 DEF RowsStay
<1>3. ASSUME NEW w \in Workers, Counts(w) PROVE GuessesHaveTheirBucket'
  <2> DEFINE m == attempts[w].now
             b == buckets[Account]
             n == buckets'[Account]
  <2>1. m \in 1..Horizon /\ m <= clock /\ clock <= m + Lifetime /\ clock' = clock
    BY <1>3, Stamped DEF Counts, At
  <2>2. /\ n # NoBucket /\ n.updated = m /\ b.start \in Nat
        /\ b = NoBucket => n.start = m
        /\ b # NoBucket /\ b.start + AccountWindow >= m => n.start = b.start
        /\ b # NoBucket /\ b.start + AccountWindow < m => n.start = m
    BY <1>3, <2>1, AccountCounted, AccountBucket DEF Counts
  <2>3. SUFFICES ASSUME NEW x \in 0..Horizon, tried'[x] > 0
                 PROVE  x <= clock /\ x <= n.updated + Lifetime
                        /\ x <= n.start + AccountWindow
    BY <2>1, <2>2
  <2>4. tried[x] > 0 \/ x = m
    BY <1>1, <1>3, <2>3 DEF Counts
  <2>5. x <= clock /\ x <= m + Lifetime
    BY <1>1, <2>1, <2>4
  <2>6. x <= n.start + AccountWindow
    <3>1. CASE n.start = m
      BY <1>1, <2>1, <2>5, <3>1
    <3>2. CASE b # NoBucket /\ b.start + AccountWindow >= m
      BY <1>1, <2>1, <2>2, <2>4, <3>2
    <3> QED
      BY <1>1, <2>1, <2>2, <3>1, <3>2
  <2> QED
    BY <2>2, <2>5, <2>6
<1>4. CASE Forgets
  BY <1>1, <1>4 DEF Forgets
<1>5. CASE Retires
  <2> SUFFICES ASSUME NEW x \in 0..Horizon, tried[x] > 0, buckets[Account] # NoBucket
               PROVE  x + AccountWindow < clock + Lifetime
    BY <1>5 DEF Retires
  <2>1. x <= buckets[Account].updated + Lifetime /\ buckets[Account].updated \in Nat
    BY AccountBucket
  <2>2. buckets[Account].updated + Retention < clock
    BY <1>5 DEF Retires
  <2> QED
    BY <1>1, <2>1, <2>2, RetentionCovers
<1>6. CASE PassesTime
  <2> SUFFICES ASSUME NEW x \in 0..Horizon, tried'[x] > 0
               PROVE  tried[x] > 0 /\ (x <= clock => x <= clock + 1)
                      /\ (x + AccountWindow < clock + Lifetime
                            => x + AccountWindow < clock + 1 + Lifetime)
    BY <1>6 DEF PassesTime
  <2> QED
    BY <1>1, <1>6 DEF PassesTime
<1> QED
  BY <1>2, <1>3, <1>4, <1>5, <1>6, AccountStep DEF Acts, Waits


-----------------------------------------------------------------------------
(* The guesses of a period, and the attempts that may add to them.           *)

LEMMA PeriodTimes ==
  ASSUME NEW t \in 1..Horizon, NEW s \in Period(t)
  PROVE  /\ s \in 1..Horizon /\ s \in Nat /\ t \in Nat
         /\ t <= s /\ s + 2 * Lifetime < t + AccountWindow
BY Policy DEF Period

\* No guess in the period, no guess at all.
LEMMA WithoutGuesses ==
  ASSUME tried \in [0..Horizon -> Nat], NEW t \in 1..Horizon,
         \A s \in Period(t) : ~(tried[s] > 0)
  PROVE  Guesses(t) = {}
<1>1. ASSUME NEW s \in Period(t) PROVE {s} \X (1..tried[s]) = {}
  <2>1. tried[s] \in Nat /\ ~(tried[s] > 0)
    BY PeriodTimes
  <2>2. 1..tried[s] = {}
    BY <2>1
  <2> QED
    BY <2>2
<1> QED
  BY <1>1 DEF Guesses

LEMMA GuessesShrink ==
  ASSUME TypeOK, TypeOK', NEW t \in 1..Horizon,
         \A x \in 0..Horizon : tried'[x] = tried[x] \/ tried'[x] = 0
  PROVE  Guesses(t)' \subseteq Guesses(t)
<1>1. ASSUME NEW s \in Period(t) PROVE {s} \X (1..tried'[s]) \subseteq {s} \X (1..tried[s])
  <2>1. tried[s] \in Nat /\ (tried'[s] = tried[s] \/ tried'[s] = 0)
    BY PeriodTimes DEF TypeOK
  <2>2. 1..tried'[s] \subseteq 1..tried[s]
    BY <2>1
  <2> QED
    BY <2>2
<1> QED
  BY <1>1 DEF Guesses, Period

LEMMA OneMoreGuess ==
  ASSUME TypeOK, NEW m \in 1..Horizon, tried' = [tried EXCEPT ![m] = @ + 1],
         NEW t \in 1..Horizon
  PROVE  /\ Guesses(t)' \subseteq Guesses(t) \cup {<<m, tried[m] + 1>>}
         /\ m \notin Period(t) => Guesses(t)' = Guesses(t)
<1>1. ASSUME NEW s \in Period(t), s # m PROVE tried'[s] = tried[s]
  BY <1>1, PeriodTimes DEF TypeOK
<1>2. {m} \X (1..tried'[m]) \subseteq {m} \X (1..tried[m]) \cup {<<m, tried[m] + 1>>}
  <2>1. tried[m] \in Nat /\ tried'[m] = tried[m] + 1
    BY DEF TypeOK
  <2>2. 1..tried'[m] \subseteq 1..tried[m] \cup {tried[m] + 1}
    BY <2>1
  <2> QED
    BY <2>2
<1>3. Guesses(t)' = UNION {{s} \X (1..tried'[s]) : s \in Period(t)}
  BY DEF Guesses, Period
<1>4. Guesses(t)' \subseteq Guesses(t) \cup {<<m, tried[m] + 1>>}
  <2> SUFFICES ASSUME NEW s \in Period(t)
               PROVE  {s} \X (1..tried'[s]) \subseteq Guesses(t) \cup {<<m, tried[m] + 1>>}
    BY <1>3
  <2>1. {s} \X (1..tried[s]) \subseteq Guesses(t)
    BY DEF Guesses
  <2> QED
    BY <1>1, <1>2, <2>1
<1>5. ASSUME m \notin Period(t) PROVE Guesses(t)' = Guesses(t)
  <2>1. \A s \in Period(t) : tried'[s] = tried[s]
    BY <1>1, <1>5
  <2> QED
    BY <1>3, <2>1 DEF Guesses
<1> QED
  BY <1>4, <1>5

\* The attempts past the gate are finitely many, and one that is not leaves room.
LEMMA PastCounted ==
  ASSUME NEW t
  PROVE  /\ IsFiniteSet(Past(t)) /\ Cardinality(Past(t)) \in Nat
         /\ Cardinality(Workers) \in Nat
         /\ Cardinality(Past(t)) <= Cardinality(Workers)
         /\ \A w \in Workers :
              /\ w \notin Past(t) => Cardinality(Past(t)) <= Cardinality(Workers) - 1
              /\ w \in Past(t) => Cardinality(Past(t)) >= 1
<1>1. Past(t) \subseteq Workers /\ IsFiniteSet(Workers)
  BY Policy DEF Past
<1>2. /\ IsFiniteSet(Past(t)) /\ Cardinality(Past(t)) \in Nat
      /\ Cardinality(Workers) \in Nat
      /\ Cardinality(Past(t)) <= Cardinality(Workers)
  BY <1>1, FS_Subset, FS_CardinalityType
<1>3. ASSUME NEW w \in Workers, w \notin Past(t)
      PROVE  Cardinality(Past(t)) <= Cardinality(Workers) - 1
  <2>1. IsFiniteSet(Workers \ {w})
        /\ Cardinality(Workers \ {w}) = Cardinality(Workers) - 1
    BY <1>1, FS_RemoveElement
  <2>2. Past(t) \subseteq Workers \ {w}
    BY <1>1, <1>3
  <2>3. Cardinality(Past(t)) <= Cardinality(Workers \ {w})
    BY <2>1, <2>2, FS_Subset
  <2> QED
    BY <2>1, <2>3
<1>4. ASSUME NEW w \in Workers, w \in Past(t) PROVE Cardinality(Past(t)) >= 1
  <2>1. Cardinality(Past(t)) # 0
    BY <1>2, <1>4, FS_EmptySet
  <2> QED
    BY <1>2, <2>1
<1> QED
  BY <1>2, <1>3, <1>4

\* An attempt's step changes nobody else's place.
LEMMA PastAfter ==
  ASSUME NEW w \in Workers, StepOf(w), NEW t
  PROVE  /\ Past(t)' \subseteq Past(t) \cup {w}
         /\ w \in Past(t)' => w \in Past(t) \/ (Passes(w) /\ attempts[w].now \in Period(t))
<1>1. Period(t)' = Period(t)
  BY DEF Period
<1> QED
  BY <1>1 DEF StepOf, Past, IsPast


-----------------------------------------------------------------------------
(* A period stays bounded                                                    *)

Held(t) == Cardinality(Guesses(t))
Coming(t) == Cardinality(Past(t))

LEMMA PeriodNumbers ==
  ASSUME TypeOK, NEW t \in 1..Horizon, PeriodBounded(t)
  PROVE  /\ Held(t) \in Nat /\ Coming(t) \in Nat /\ Cardinality(Workers) \in Nat
         /\ t \in Nat /\ clock \in Nat /\ Most \in Int
         /\ AccountLimit \in Nat /\ AccountLimit > 1
         /\ buckets[Account].count \in Nat /\ buckets[Account].start \in Nat
<1>1. Held(t) \in Nat
  BY FS_CardinalityType DEF PeriodBounded, Held
<1>2. Coming(t) \in Nat /\ Cardinality(Workers) \in Nat
  BY PastCounted DEF Coming
<1>3. AccountLimit \in Nat /\ AccountLimit > 1 /\ t \in Nat
  BY Policy
<1>4. Most \in Int
  BY <1>2, <1>3 DEF Most
<1> QED
  BY <1>1, <1>2, <1>3, <1>4, AccountBucket, ClockIsTime

\* Time does not bring a period back.
LEMMA Later ==
  ASSUME NEW n \in Nat, NEW c \in Nat, NEW d \in Nat, NEW l \in Nat, d >= c,
         n < c + l
  PROVE  n < d + l
OBVIOUS

LEMMA StaysOver ==
  ASSUME TypeOK, TypeOK', clock' >= clock, NEW t \in 1..Horizon
  PROVE  Over(t) => Over(t)'
<1>1. clock \in Nat /\ clock' \in Nat /\ t \in Nat
  BY DEF TypeOK
<1>2. AccountWindow \in Nat /\ Lifetime \in Nat /\ t + AccountWindow \in Nat
  BY Policy
<1> QED
  BY <1>1, <1>2, Later DEF Over

LEMMA PeriodCalm ==
  ASSUME TypeOK, TypeOK', NEW t \in 1..Horizon, PeriodBounded(t),
         Guesses(t)' \subseteq Guesses(t), Past(t)' \subseteq Past(t),
         buckets'[Account] = buckets[Account], clock' >= clock
  PROVE  PeriodBounded(t)'
<1>1. IsFiniteSet(Guesses(t)') /\ Held(t)' <= Held(t) /\ Held(t)' \in Nat
  BY FS_Subset, FS_CardinalityType DEF PeriodBounded, Held
<1>2. Coming(t)' <= Coming(t) /\ Coming(t)' \in Nat
  BY PastCounted, FS_Subset, FS_CardinalityType DEF Coming
<1>3. Over(t) => Over(t)'
  BY StaysOver
<1>4. Held(t) <= Most
  BY DEF PeriodBounded, Held
<1>5. Within(t, buckets[Account], Held(t), Coming(t))
        => Within(t, buckets[Account], Held(t)', Coming(t)')
  <2> HIDE DEF Held, Coming
  <2> QED
    BY <1>1, <1>2, PeriodNumbers DEF Within
<1>6. Held(t)' <= Most
  BY <1>1, <1>4, PeriodNumbers
<1> QED
  BY <1>1, <1>3, <1>5, <1>6 DEF PeriodBounded, Held, Coming

\* A period without guesses, or without a bucket to go on with.
LEMMA MostIsPositive == Most \in Nat /\ Most >= Cardinality(Workers)
                        /\ Cardinality(Workers) \in Nat
<1>1. Cardinality(Workers) \in Nat
  BY Policy, FS_CardinalityType
<1> QED
  BY <1>1, Policy DEF Most

LEMMA PeriodForgets ==
  ASSUME NEW t \in 1..Horizon, Forgets
  PROVE  PeriodBounded(t)'
<1>1. (Guesses(t) = {})'
  <2>1. \A s \in Period(t) : {s} \X (1..tried'[s]) = {}
    <3> TAKE s \in Period(t)
    <3>1. tried'[s] = 0
      BY PeriodTimes DEF Forgets
    <3>2. 1..tried'[s] = {}
      BY <3>1
    <3> QED
      BY <3>2
  <2> QED
    BY <2>1 DEF Guesses, Period
<1>2. IsFiniteSet(Guesses(t)') /\ Cardinality(Guesses(t)') = 0
  BY <1>1, FS_EmptySet
<1> QED
  BY <1>2, MostIsPositive DEF PeriodBounded, Forgets

LEMMA PeriodRetires ==
  ASSUME NEW t \in 1..Horizon, PeriodBounded(t), Retires
  PROVE  PeriodBounded(t)'
<1>1. Guesses(t)' = Guesses(t)
  BY DEF Retires, Guesses, Period
<1> QED
  BY <1>1 DEF PeriodBounded, Retires, Most

\* While the period holds a guess, a bucket at its limit is locked for all its
\* times: an attempt that passes finds no guess.
LEMMA PassesAnOpenLock ==
  ASSUME TypeOK, AttemptsAreRecent, BucketShape, GuessesHaveTheirBucket,
         NEW t \in 1..Horizon, NEW w \in Workers, Passes(w),
         attempts[w].now \in Period(t), buckets[Account] # NoBucket,
         buckets[Account].count >= AccountLimit
  PROVE  Guesses(t) = {}
<1> DEFINE m == attempts[w].now
           b == buckets[Account]
<1>1. b.until = b.updated + AccountLockout /\ b.updated \in Nat
  BY AccountBucket DEF BucketShape
<1>2. ~(b.until > m)
  BY DEF Passes, AccountLocked, Locked
<1>3. m \in Nat /\ t \in Nat /\ m + 2 * Lifetime < t + AccountWindow
  BY PeriodTimes
<1>4. \A s \in Period(t) : ~(tried[s] > 0)
  <2> SUFFICES ASSUME NEW s \in Period(t), tried[s] > 0 PROVE FALSE
    OBVIOUS
  <2>1. s \in 0..Horizon /\ s \in Nat /\ t <= s
    BY PeriodTimes
  <2>2. s <= b.updated + Lifetime
    BY <2>1 DEF GuessesHaveTheirBucket
  <2> HIDE DEF m, b
  <2> QED
    BY <1>1, <1>2, <1>3, <2>1, <2>2, Policy
<1> QED
  BY <1>4, WithoutGuesses DEF TypeOK

LEMMA PeriodLetsThrough ==
  ASSUME TypeOK, TypeOK', AttemptsAreRecent, BucketShape, GuessesHaveTheirBucket,
         NEW t \in 1..Horizon, PeriodBounded(t), NEW w \in Workers, StepOf(w), RowsStay
  PROVE  PeriodBounded(t)'
<1>1. Guesses(t)' = Guesses(t) /\ clock' >= clock /\ buckets'[Account] = buckets[Account]
  BY ClockIsTime DEF RowsStay, Guesses, Period
<1>2. CASE w \in Past(t) \/ w \notin Past(t)'
  <2>1. Past(t)' \subseteq Past(t)
    BY <1>2, PastAfter
  <2> QED
    BY <1>1, <2>1, PeriodCalm
<1>3. CASE w \notin Past(t) /\ w \in Past(t)'
  <2>1. Passes(w) /\ attempts[w].now \in Period(t)
    BY <1>3, PastAfter
  <2>2. /\ (Cardinality(Past(t)) \in Nat)'
        /\ (Cardinality(Past(t)) <= Cardinality(Workers))'
    BY PastCounted, PTL
  <2>3. Coming(t)' \in Nat /\ Coming(t)' <= Cardinality(Workers)
    BY <2>2 DEF Coming
  <2>4. buckets[Account] # NoBucket /\ buckets[Account].count >= AccountLimit
          => Held(t) = 0
    BY <2>1, PassesAnOpenLock, FS_EmptySet DEF Held
  <2>5. Held(t)' = Held(t) /\ (Over(t)' <=> Over(t)) /\ IsFiniteSet(Guesses(t)')
    BY <1>1 DEF Held, Over, RowsStay, PeriodBounded
  <2>6. Held(t)' <= Most
    BY <2>5 DEF PeriodBounded, Held
  <2>7. ASSUME buckets[Account] # NoBucket,
               Within(t, buckets[Account], Held(t), Coming(t))
        PROVE  Within(t, buckets[Account], Held(t)', Coming(t)')
    <3>1. Held(t)' = Held(t)
      BY <2>5
    <3>2. CASE buckets[Account].count < AccountLimit
      BY <2>7, <3>1, <3>2 DEF Within
    <3>3. CASE ~(buckets[Account].count < AccountLimit)
      <4>1. Held(t)' = 0
        BY <2>4, <2>7, <3>1, <3>3, PeriodNumbers
      <4>2. Held(t)' + Coming(t)' <= AccountLimit - 1 + (Cardinality(Workers) - 1)
        BY <2>3, <4>1, PeriodNumbers
      <4>3. Held(t)' + Coming(t)' <= Most
        BY <2>3, <4>1, MostIsPositive
      <4> QED
        BY <3>3, <4>2, <4>3 DEF Within
    <3> QED
      BY <3>2, <3>3
  <2> QED
    BY <1>1, <2>5, <2>6, <2>7 DEF PeriodBounded, Held, Coming
<1> QED
  BY <1>2, <1>3


\* A guess in the period comes from an attempt that was past the gate in it.
Adds(h, g, e, f) == \/ h <= g /\ e <= f
                    \/ h <= g + 1 /\ e + 1 <= f
Counter(b) == b.count \in Nat /\ b.start \in Nat

\* A first failure, where the period holds nothing before it.
LEMMA WithinFirst ==
  ASSUME NEW t \in Nat, NEW n, Counter(n), n.count = 1,
         NEW h \in Nat, NEW e \in Nat, Cardinality(Workers) \in Nat,
         e <= Cardinality(Workers) - 1, h <= 1, n.start < t => h = 0
  PROVE  Within(t, n, h, e)
BY Policy DEF Within, Counter

\* A failure that starts a new window in the period.
LEMMA WithinRestart ==
  ASSUME NEW t \in Nat, NEW b, NEW n, Counter(b), Counter(n), n.count = 1,
         NEW g \in Nat, NEW h \in Nat, NEW f \in Nat, NEW e \in Nat,
         Cardinality(Workers) \in Nat, e <= Cardinality(Workers) - 1,
         Adds(h, g, e, f), b.start < t, n.start >= t, Within(t, b, g, f)
  PROVE  Within(t, n, h, e)
<1> DEFINE k == Cardinality(Workers) - 1
<1>1. AccountLimit \in Nat /\ AccountLimit > 1 /\ k \in Nat
  BY Policy
<1>2. h <= AccountLimit - 1 + k
  <2>1. CASE b.count < AccountLimit
    <3>1. g < b.count
      BY <2>1 DEF Within
    <3> QED
      BY <1>1, <2>1, <3>1 DEF Adds, Counter
  <2>2. CASE ~(b.count < AccountLimit)
    <3>1. g + f <= AccountLimit - 1 + k
      BY <2>2 DEF Within
    <3> QED
      BY <1>1, <3>1 DEF Adds
  <2> QED
    BY <2>1, <2>2
<1>3. n.count < AccountLimit /\ ~(n.start < t)
  BY <1>1 DEF Counter
<1> HIDE DEF k
<1>4. h <= AccountLimit - 2 + k + n.count
  BY <1>1, <1>2
<1> QED
  BY <1>3, <1>4 DEF Within, k

\* A failure that advances the count.
LEMMA WithinAdvance ==
  ASSUME NEW t \in Nat, NEW b, NEW n, Counter(b), Counter(n), n.count = b.count + 1,
         n.start = b.start,
         NEW g \in Nat, NEW h \in Nat, NEW f \in Nat, NEW e \in Nat,
         Cardinality(Workers) \in Nat, e <= Cardinality(Workers) - 1,
         Adds(h, g, e, f), Within(t, b, g, f)
  PROVE  Within(t, n, h, e)
<1> DEFINE k == Cardinality(Workers) - 1
<1>1. AccountLimit \in Nat /\ AccountLimit > 1 /\ k \in Nat
      /\ b.count \in Nat /\ e <= k
  BY Policy DEF Counter
<1>2. Most = 2 * (AccountLimit - 1) + 2 * k
  BY DEF Most
<1>3. CASE b.count >= AccountLimit
  <2>1. ~(b.count < AccountLimit) /\ ~(n.count < AccountLimit)
    BY <1>1, <1>3
  <2>2. h + e <= g + f
    BY DEF Adds
  <2>3. Most \in Int
    BY <1>1, <1>2
  <2>4. IF b.start < t THEN g + f <= AccountLimit - 1 + k ELSE g + f <= Most
    BY <2>1 DEF Within
  <2>5. IF b.start < t THEN h + e <= AccountLimit - 1 + k ELSE h + e <= Most
    BY <1>1, <2>2, <2>3, <2>4
  <2> QED
    BY <2>1, <2>5 DEF Within
<1>4. CASE b.count < AccountLimit
  <2>1. h <= g + 1
    BY DEF Adds
  <2>2. IF b.start < t THEN g < b.count ELSE g <= AccountLimit - 2 + k + b.count
    BY <1>4 DEF Within
  <2>3. CASE b.count + 1 < AccountLimit
    <3>1. IF b.start < t THEN h < b.count + 1
                         ELSE h <= AccountLimit - 2 + k + (b.count + 1)
      BY <1>1, <2>1, <2>2
    <3> QED
      BY <2>3, <3>1 DEF Within
  <2>4. CASE ~(b.count + 1 < AccountLimit)
    <3>1. b.count = AccountLimit - 1
      BY <1>1, <1>4, <2>4
    <3>2. IF b.start < t THEN h + e <= AccountLimit - 1 + k ELSE h + e <= Most
      BY <1>1, <1>2, <2>1, <2>2, <3>1
    <3> QED
      BY <2>4, <3>2 DEF Within
  <2> QED
    BY <2>3, <2>4
<1> QED
  BY <1>1, <1>3, <1>4

LEMMA WithinMost ==
  ASSUME NEW t \in Nat, NEW b, Counter(b), NEW g \in Nat, NEW f \in Nat,
         Cardinality(Workers) \in Nat \ {0}, Within(t, b, g, f)
  PROVE  g <= Most
<1>1. AccountLimit \in Nat /\ AccountLimit > 1 /\ b.count \in Nat
  BY Policy DEF Counter
<1> QED
  BY <1>1 DEF Within, Most


\* What the bucket says of the guesses the period holds.
LEMMA PeriodIsFresh ==
  ASSUME TypeOK, GuessesHaveTheirBucket, NEW t \in 1..Horizon, ~Over(t),
         buckets[Account] = NoBucket
  PROVE  Held(t) = 0
<1>1. ASSUME NEW s \in Period(t), tried[s] > 0 PROVE FALSE
  <2>1. s \in 0..Horizon /\ s \in Nat /\ t \in Nat /\ t <= s
    BY PeriodTimes
  <2>2. s + AccountWindow < clock + Lifetime
    BY <1>1, <2>1 DEF GuessesHaveTheirBucket
  <2>3. ~(t + AccountWindow < clock + Lifetime)
    BY DEF Over
  <2>4. clock \in Nat /\ AccountWindow \in Nat /\ Lifetime \in Nat
    BY ClockIsTime, Policy
  <2> QED
    BY <2>1, <2>2, <2>3, <2>4
<1>2. Guesses(t) = {}
  BY <1>1, WithoutGuesses DEF TypeOK
<1> QED
  BY <1>2, FS_EmptySet DEF Held

LEMMA PeriodIsAhead ==
  ASSUME TypeOK, GuessesHaveTheirBucket, NEW t \in 1..Horizon, NEW m \in Nat, m < t,
         buckets[Account] # NoBucket, buckets[Account].start + AccountWindow < m
  PROVE  Held(t) = 0
<1>1. ASSUME NEW s \in Period(t), tried[s] > 0 PROVE FALSE
  <2>1. s \in 0..Horizon /\ s \in Nat /\ t \in Nat /\ t <= s
    BY PeriodTimes
  <2>2. s <= buckets[Account].start + AccountWindow
    BY <1>1, <2>1 DEF GuessesHaveTheirBucket
  <2>3. buckets[Account].start + AccountWindow \in Nat
    BY AccountBucket, Policy
  <2> QED
    BY <2>1, <2>2, <2>3
<1>2. Guesses(t) = {}
  BY <1>1, WithoutGuesses DEF TypeOK
<1> QED
  BY <1>2, FS_EmptySet DEF Held

\* The numbers of a counted failure.
LEMMA CountedNumbers ==
  ASSUME TypeOK, NEW t \in 1..Horizon, PeriodBounded(t), NEW w \in Workers,
         StepOf(w), Counts(w), attempts[w].now \in 1..Horizon
  PROVE  /\ IsFiniteSet(Guesses(t)')
         /\ Held(t)' \in Nat /\ Coming(t)' \in Nat
         /\ Cardinality(Workers) \in Nat \ {0}
         /\ Coming(t)' <= Cardinality(Workers) - 1
         /\ Adds(Held(t)', Held(t), Coming(t)', Coming(t))
         /\ Held(t)' <= Held(t) + 1
         /\ attempts[w].now \notin Period(t) => Held(t)' = Held(t)
<1> DEFINE m == attempts[w].now
           x == <<m, tried[m] + 1>>
<1>1. IsFiniteSet(Guesses(t)) /\ Held(t) \in Nat /\ Coming(t) \in Nat
  BY PeriodNumbers DEF PeriodBounded
<1>2. /\ Guesses(t)' \subseteq Guesses(t) \cup {x}
      /\ m \notin Period(t) => Guesses(t)' = Guesses(t)
  BY OneMoreGuess DEF Counts
<1>3. IsFiniteSet(Guesses(t)') /\ Held(t)' \in Nat /\ Held(t)' <= Held(t) + 1
  <2>1. /\ IsFiniteSet(Guesses(t) \cup {x})
        /\ Cardinality(Guesses(t) \cup {x}) \in {Held(t), Held(t) + 1}
    BY <1>1, FS_AddElement DEF Held
  <2>2. /\ IsFiniteSet(Guesses(t)')
        /\ Cardinality(Guesses(t)') <= Cardinality(Guesses(t) \cup {x})
    BY <1>2, <2>1, FS_Subset
  <2>3. Cardinality(Guesses(t)') \in Nat
    BY <2>2, FS_CardinalityType
  <2>4. Held(t)' = Cardinality(Guesses(t)')
    BY DEF Held
  <2> HIDE DEF Held, x
  <2> QED
    BY <1>1, <2>1, <2>2, <2>3, <2>4
<1>4. w \notin Past(t)' /\ Past(t)' \subseteq Past(t) \ {w}
  <2>1. w \notin Past(t)'
    BY DEF Counts, Past, IsPast
  <2> QED
    BY <2>1, PastAfter
<1>5. /\ IsFiniteSet(Past(t)) /\ Cardinality(Workers) \in Nat
      /\ w \in Past(t) => Coming(t) >= 1
  BY PastCounted DEF Coming
<1>6. /\ IsFiniteSet(Past(t) \ {w})
      /\ Cardinality(Past(t) \ {w}) = IF w \in Past(t) THEN Coming(t) - 1 ELSE Coming(t)
  BY <1>5, FS_RemoveElement DEF Coming
<1>7. /\ Coming(t)' \in Nat
      /\ Coming(t)' <= IF w \in Past(t) THEN Coming(t) - 1 ELSE Coming(t)
  <2>1. /\ IsFiniteSet(Past(t)') /\ Cardinality(Past(t)') <= Cardinality(Past(t) \ {w})
    BY <1>4, <1>6, FS_Subset
  <2>2. Cardinality(Past(t)') \in Nat
    BY <2>1, FS_CardinalityType
  <2>3. Coming(t)' = Cardinality(Past(t)')
    BY DEF Coming
  <2> QED
    BY <1>6, <2>1, <2>2, <2>3
<1>8. Cardinality(Workers) \in Nat \ {0} /\ Coming(t)' <= Cardinality(Workers) - 1
  <2>1. /\ IsFiniteSet(Workers \ {w})
        /\ Cardinality(Workers \ {w}) = Cardinality(Workers) - 1
    BY Policy, FS_RemoveElement
  <2>2. Past(t)' \subseteq Workers \ {w}
    BY <1>4 DEF Past
  <2>3. Cardinality(Past(t)') <= Cardinality(Workers) - 1
    BY <2>1, <2>2, FS_Subset
  <2>4. Coming(t)' <= Cardinality(Workers) - 1
    BY <2>3 DEF Coming
  <2> HIDE DEF Coming
  <2> QED
    BY <1>5, <1>7, <2>4
<1>9. m \notin Period(t) => Held(t)' = Held(t)
  BY <1>2 DEF Held
<1>10. m \in Period(t) => w \in Past(t)
  BY DEF Counts, At, Past, IsPast
<1>11. Adds(Held(t)', Held(t), Coming(t)', Coming(t))
  <2> HIDE DEF Held, Coming, m
  <2>1. CASE m \notin Period(t)
    BY <1>1, <1>3, <1>5, <1>7, <1>9, <2>1 DEF Adds
  <2>2. CASE m \in Period(t)
    BY <1>1, <1>3, <1>5, <1>7, <1>10, <2>2 DEF Adds
  <2> QED
    BY <2>1, <2>2
<1> QED
  BY <1>3, <1>7, <1>8, <1>9, <1>11

LEMMA PeriodCounts ==
  ASSUME TypeOK, AttemptsAreRecent, BucketShape, GuessesHaveTheirBucket,
         NEW t \in 1..Horizon, PeriodBounded(t), NEW w \in Workers, StepOf(w), Counts(w)
  PROVE  PeriodBounded(t)'
<1> DEFINE m == attempts[w].now
           b == buckets[Account]
           n == buckets'[Account]
<1>1. /\ m \in 1..Horizon /\ m \in Nat /\ m <= clock /\ clock <= m + Lifetime
      /\ clock \in Nat /\ t \in Nat /\ AccountWindow \in Nat /\ Lifetime \in Nat
  BY Stamped, ClockIsTime, Policy DEF Counts, At
<1>2. /\ IsFiniteSet(Guesses(t)')
      /\ Held(t)' \in Nat /\ Coming(t)' \in Nat
      /\ Cardinality(Workers) \in Nat \ {0}
      /\ Coming(t)' <= Cardinality(Workers) - 1
      /\ Adds(Held(t)', Held(t), Coming(t)', Coming(t))
      /\ Held(t)' <= Held(t) + 1
      /\ m \notin Period(t) => Held(t)' = Held(t)
  BY <1>1, CountedNumbers
<1>3. Held(t) \in Nat /\ Coming(t) \in Nat /\ Held(t) <= Most
  BY PeriodNumbers DEF PeriodBounded, Held
<1>4. /\ n # NoBucket /\ Counter(n) /\ Counter(b)
      /\ b = NoBucket => n.count = 1 /\ n.start = m
      /\ b # NoBucket /\ b.start + AccountWindow >= m
           => n.count = b.count + 1 /\ n.start = b.start
      /\ b # NoBucket /\ b.start + AccountWindow < m => n.count = 1 /\ n.start = m
  <2>1. Counter(b)
    BY AccountBucket DEF Counter
  <2>2. n = Counted(Account, m)
    BY DEF Counts
  <2>3. n \in Bucket /\ n.count \in Nat /\ n.start \in Nat
    BY <1>1, <2>2, AccountCounted, ClockIsTime DEF Bucket
  <2> QED
    BY <1>1, <2>1, <2>2, <2>3, AccountCounted DEF Counter
<1>5. Over(t)' <=> Over(t)
  BY DEF Over, Counts
<1> HIDE DEF Held, Coming, m, b, n
<1>6. CASE Over(t)
  <2>1. t + AccountWindow < clock + Lifetime
    BY <1>6 DEF Over
  <2>2. ~(m + 2 * Lifetime < t + AccountWindow)
    BY <1>1, <2>1
  <2>3. m \notin Period(t)
    BY <2>2, PeriodTimes
  <2>4. Held(t)' <= Most
    BY <1>2, <1>3, <2>3
  <2> QED
    BY <1>2, <1>5, <1>6, <2>4 DEF PeriodBounded, Held
<1>7. CASE ~Over(t)
  <2>1. m < t => Held(t)' = Held(t)
    <3>1. m < t => m \notin Period(t)
      BY <1>1, PeriodTimes
    <3> QED
      BY <1>2, <3>1
  <2>2. ASSUME b = NoBucket
        PROVE  Within(t, n, Held(t)', Coming(t)')
    <3>1. Held(t) = 0
      BY <1>7, <2>2, PeriodIsFresh DEF b
    <3>2. /\ t \in Nat /\ Counter(n) /\ n.count = 1
          /\ Held(t)' \in Nat /\ Coming(t)' \in Nat /\ Cardinality(Workers) \in Nat
          /\ Coming(t)' <= Cardinality(Workers) - 1
      BY <1>1, <1>2, <1>4, <2>2
    <3>3. Held(t)' <= 1 /\ (n.start < t => Held(t)' = 0)
      BY <1>2, <1>4, <2>1, <2>2, <3>1
    <3> QED
      BY <3>2, <3>3, WithinFirst
  <2>3. /\ t \in Nat /\ Counter(b) /\ Counter(n)
        /\ Held(t) \in Nat /\ Held(t)' \in Nat
        /\ Coming(t) \in Nat /\ Coming(t)' \in Nat
        /\ Cardinality(Workers) \in Nat /\ Coming(t)' <= Cardinality(Workers) - 1
        /\ Adds(Held(t)', Held(t), Coming(t)', Coming(t))
    BY <1>1, <1>2, <1>3, <1>4
  <2>4. ASSUME b # NoBucket
        PROVE  Within(t, n, Held(t)', Coming(t)')
    <3>1. Within(t, b, Held(t), Coming(t))
      BY <1>7, <2>4 DEF PeriodBounded, Held, Coming, b
    <3>2. b.start \in Nat
      BY <1>4 DEF Counter
    <3>3. CASE b.start + AccountWindow >= m
      <4>1. n.count = b.count + 1 /\ n.start = b.start
        BY <1>4, <2>4, <3>3
      <4> QED
        BY <2>3, <3>1, <4>1, WithinAdvance
    <3>4. CASE b.start + AccountWindow < m
      <4>0. n.count = 1 /\ n.start = m
        BY <1>4, <2>4, <3>4
      <4>1. b.start < t
        <5>1. ~(t + AccountWindow < clock + Lifetime)
          BY <1>7 DEF Over
        <5> QED
          BY <1>1, <3>2, <3>4, <5>1
      <4>2. CASE m < t
        <5>1. Held(t) = 0
          BY <1>1, <2>4, <3>4, <4>2, PeriodIsAhead DEF b
        <5>2. Held(t)' <= 1 /\ (n.start < t => Held(t)' = 0)
          BY <1>2, <2>1, <4>2, <5>1
        <5> QED
          BY <2>3, <4>0, <5>2, WithinFirst
      <4>3. CASE m >= t
        <5>1. n.start >= t
          BY <4>0, <4>3
        <5> QED
          BY <2>3, <3>1, <4>0, <4>1, <5>1, WithinRestart
      <4> QED
        BY <1>1, <4>2, <4>3
    <3> QED
      BY <1>1, <3>2, <3>3, <3>4
  <2>5. Within(t, n, Held(t)', Coming(t)')
    BY <2>2, <2>4
  <2>6. Held(t)' <= Most
    BY <1>2, <2>3, <2>5, WithinMost
  <2> QED
    BY <1>2, <2>5, <2>6 DEF PeriodBounded, Held, Coming, n
<1> QED
  BY <1>6, <1>7

LEMMA PeriodsBoundedNext ==
  ASSUME LoginDefenseInv, TypeOK', [Next]_vars
  PROVE  PeriodsBounded'
<1> USE DEF LoginDefenseInv
<1> SUFFICES ASSUME NEW t \in 1..Horizon PROVE PeriodBounded(t)'
  BY DEF PeriodsBounded
<1>1. PeriodBounded(t)
  BY DEF PeriodsBounded
<1>2. ASSUME NEW w \in Workers, Acts(w) PROVE PeriodBounded(t)'
  BY <1>1, <1>2, PeriodLetsThrough, PeriodCounts, PeriodForgets DEF Acts
<1>3. CASE Waits
  <2>1. Past(t)' = Past(t)
    BY <1>3 DEF Waits, Past, IsPast, Period
  <2>2. CASE RowsStay
    <3>1. Guesses(t)' = Guesses(t) /\ clock' >= clock
      BY <2>2, ClockIsTime DEF RowsStay, Guesses, Period
    <3> QED
      BY <1>1, <2>1, <2>2, <3>1, PeriodCalm DEF RowsStay
  <2>3. CASE Retires
    BY <1>1, <2>3, PeriodRetires
  <2>4. CASE PassesTime
    <3>1. Guesses(t)' \subseteq Guesses(t)
      BY <2>4, GuessesShrink DEF PassesTime
    <3>2. clock' >= clock
      BY <2>4, ClockIsTime DEF PassesTime
    <3> QED
      BY <1>1, <2>1, <2>4, <3>1, <3>2, PeriodCalm DEF PassesTime
  <2> QED
    BY <1>3, <2>2, <2>3, <2>4 DEF Waits
<1> QED
  BY <1>2, <1>3, AccountStep

LEMMA LoginDefenseInit == Init => LoginDefenseInv
<1> SUFFICES ASSUME Init PROVE LoginDefenseInv
  OBVIOUS
<1>1. TypeOK /\ AttemptsAreRecent
  BY TypeInit
<1>2. buckets[Account] = NoBucket /\ \A x \in 0..Horizon : tried[x] = 0
  BY Policy DEF Init
<1>3. BucketShape /\ GuessesHaveTheirBucket
  BY <1>2 DEF BucketShape, GuessesHaveTheirBucket
<1>4. ASSUME NEW t \in 1..Horizon PROVE PeriodBounded(t)
  <2>1. \A s \in Period(t) : ~(tried[s] > 0)
    BY <1>2, PeriodTimes
  <2>2. Guesses(t) = {}
    BY <1>1, <2>1, WithoutGuesses DEF TypeOK
  <2> QED
    BY <1>2, <2>2, FS_EmptySet, MostIsPositive DEF PeriodBounded
<1> QED
  BY <1>1, <1>3, <1>4 DEF LoginDefenseInv, PeriodsBounded

LEMMA LoginDefenseNext == LoginDefenseInv /\ [Next]_vars => LoginDefenseInv'
<1> SUFFICES ASSUME LoginDefenseInv, [Next]_vars PROVE LoginDefenseInv'
  OBVIOUS
<1>1. TypeOK' /\ AttemptsAreRecent'
  BY TypeNext, RecentNext DEF LoginDefenseInv
<1>2. BucketShape' /\ GuessesHaveTheirBucket'
  BY BucketShapeNext, GuessesHaveTheirBucketNext DEF LoginDefenseInv
<1>3. PeriodsBounded'
  BY <1>1, PeriodsBoundedNext
<1> QED
  BY <1>1, <1>2, <1>3 DEF LoginDefenseInv

\* However attempts overlap, a period shorter than a window by two attempts sees
\* at most what two windows let through, each its limit but one and the other
\* attempts that were past the gate when the lock fell (the token route and
\* checkCredentialProofDefense read the buckets long before recordFailedAuthBucket
\* counts).
THEOREM GuessesStayBounded == Spec => []GuessesAreBounded
<1>1. LoginDefenseInv => GuessesAreBounded
  BY DEF LoginDefenseInv, PeriodsBounded, PeriodBounded, Most, GuessesAreBounded
<1> QED
  BY <1>1, LoginDefenseInit, LoginDefenseNext, PTL DEF Spec

=============================================================================
