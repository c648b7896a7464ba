---------------------------- MODULE LoginDefense ----------------------------
(***************************************************************************)
(* The defence of one account against guessing.  Failed attempts are       *)
(* counted in buckets, one for the account and one per client address; a   *)
(* bucket that reaches its limit within a window locks for a while.  The   *)
(* count of the account bucket is copied to the users row, which locks     *)
(* too.  A password grant that succeeds resets the users row and removes   *)
(* the account bucket.                                                     *)
(*                                                                         *)
(* An attempt takes the time once and reads each row by itself, so what it *)
(* decides on, and the time it writes under, may be old.  Whether a        *)
(* credential is right is an input.  Ticks of the clock are coarser than   *)
(* the code's seconds; only their order and the policy's sums matter.      *)
(***************************************************************************)
EXTENDS Naturals, FiniteSets

CONSTANTS Workers,          \* concurrent invocations
          Clients,          \* client addresses
          Account,          \* the key of the account bucket
          AccountLimit, AccountWindow, AccountLockout,
          ClientLimit, ClientWindow, ClientRetry,
          Lifetime,         \* the longest an attempt lasts once it took the time
          Horizon           \* bound on the clock

ASSUME AccountIsNoClient == Account \notin Clients
ASSUME PolicyIsPositive ==
  {AccountLimit, AccountWindow, AccountLockout,
   ClientLimit, ClientWindow, ClientRetry, Horizon} \subseteq Nat \ {0}

\* loginDefensePolicy: five failures within 15 minutes lock for 15 minutes.
ASSUME AccountPolicy == AccountLimit > 1 /\ AccountWindow <= AccountLockout
ASSUME AttemptsAreShort == Lifetime \in Nat /\ Lifetime < AccountWindow
ASSUME WorkersAreFinite == IsFiniteSet(Workers)

VARIABLES clock,     \* the time
          buckets,   \* rows of auth_failure_buckets by key
          user,      \* login_failed_count and login_locked_until
          attempts,  \* what each worker is doing
          tried      \* history: guesses counted for the account, by their time

vars == <<clock, buckets, user, attempts, tried>>

-----------------------------------------------------------------------------
(* A time of 0 is NULL, a count of 0 a row that is not there. *)

Keys == Clients \cup {Account}
Time == 0..(Horizon + AccountLockout + ClientRetry)
Bucket == [count : Nat, start : Time, until : Time, updated : Time]
NoBucket == [count |-> 0, start |-> 0, until |-> 0, updated |-> 0]

Limit(k)   == IF k = Account THEN AccountLimit ELSE ClientLimit
Window(k)  == IF k = Account THEN AccountWindow ELSE ClientWindow
Lockout(k) == IF k = Account THEN AccountLockout ELSE ClientRetry

UserLock == [count : Nat, until : Time]
Unlocked == [count |-> 0, until |-> 0]

\* seen is what the attempt has read and will use: a lock or a bucket.
Counting == {"only_client", "count_client", "count_account", "read_back", "copy"}
AttemptOf(op, steps) ==
  [op : {op}, now : Time, client : Clients, seen : UserLock, at : steps \cup Counting]

\* A grant turns into "unknown" when it finds no enabled user.
Attempt == AttemptOf("grant", {"account", "user", "reset_user", "reset_bucket"})
      \cup AttemptOf("proof", {"client", "account"})
      \cup AttemptOf("unknown", {})
Idle == [op |-> "idle"]

Finish(w) == attempts' = [attempts EXCEPT ![w] = Idle]
Goto(w, step) == attempts' = [attempts EXCEPT ![w].at = step]
At(w, step) == attempts[w] # Idle /\ attempts[w].at = step

\* A lock is open again at the second it ends.
Locked(lock, now) == lock.until > now

\* Slip: a proof that succeeds resets too.
VerifyAndReset(w) == Goto(w, "count_client") \/ Goto(w, "reset_user")

\* A wrong credential is counted; a right one ends a proof, and a grant goes on
\* to reset.
Verify(w) ==
  \/ Goto(w, "count_client")
  \/ attempts[w].op = "grant" /\ Goto(w, "reset_user")
  \/ attempts[w].op = "proof" /\ Finish(w)

-----------------------------------------------------------------------------
(* The gate *)

\* A grant takes the time and reads the bucket of its client.
BeginGrant(w, c) ==
  /\ attempts[w] = Idle
  /\ ~Locked(buckets[c], clock)
  /\ attempts' = [attempts EXCEPT ![w] =
       [op |-> "grant", now |-> clock, client |-> c, seen |-> Unlocked,
        at |-> "account"]]
  /\ UNCHANGED <<clock, buckets, user, tried>>

\* A request that will prove a credential has read the users row when it was
\* authenticated.
BeginProof(w, c) ==
  /\ attempts[w] = Idle
  /\ attempts' = [attempts EXCEPT ![w] =
       [op |-> "proof", now |-> 0, client |-> c, seen |-> user, at |-> "client"]]
  /\ UNCHANGED <<clock, buckets, user, tried>>

ReadClientBucket(w) ==
  /\ At(w, "client")
  /\ IF Locked(buckets[attempts[w].client], clock)
     THEN Finish(w)
     ELSE attempts' = [attempts EXCEPT ![w].now = clock, ![w].at = "account"]
  /\ UNCHANGED <<clock, buckets, user, tried>>

\* Slip: only the users row is asked for a lock.
AccountNeverLocked(now) == FALSE
AccountLocked(now) == Locked(buckets[Account], now)

\* An attempt on a locked account counts against its client alone.  A proof
\* asks the users row it was authenticated with, a grant reads it next.
ReadAccountBucket(w) ==
  LET a == attempts[w] IN
  /\ At(w, "account")
  /\ IF AccountLocked(a.now) \/ (a.op = "proof" /\ Locked(a.seen, a.now))
     THEN Goto(w, "only_client")
     ELSE IF a.op = "proof" THEN Verify(w) ELSE Goto(w, "user")
  /\ UNCHANGED <<clock, buckets, user, tried>>

ReadUser(w) ==
  /\ At(w, "user")
  /\ \/ attempts' = [attempts EXCEPT ![w].op = "unknown", ![w].at = "count_client"]
     \/ Locked(user, attempts[w].now) /\ Goto(w, "only_client")
     \/ ~Locked(user, attempts[w].now) /\ Verify(w)
  /\ UNCHANGED <<clock, buckets, user, tried>>

-----------------------------------------------------------------------------
(* Counting failures *)

\* One statement inserts the bucket or advances it.  A count that starts a new
\* window is not locked.
Inserted(k, now) ==
  [count |-> 1, start |-> now, updated |-> now,
   until |-> IF Limit(k) <= 1 THEN now + Lockout(k) ELSE 0]
Advanced(k, now) ==
  LET b == buckets[k]
      inWindow == b.start + Window(k) >= now
      count == IF inWindow THEN b.count + 1 ELSE 1
  IN [count |-> count, start |-> IF inWindow THEN b.start ELSE now,
      until |-> IF count >= Limit(k) THEN now + Lockout(k) ELSE 0,
      updated |-> now]
\* Slip: every failure starts a new window.
CountedAlone(k, now) == Inserted(k, now)
Counted(k, now) ==
  IF buckets[k] = NoBucket THEN Inserted(k, now) ELSE Advanced(k, now)

CountClientFailure(w) ==
  LET a == attempts[w] IN
  /\ At(w, "count_client") \/ At(w, "only_client")
  /\ buckets' = [buckets EXCEPT ![a.client] = Counted(a.client, a.now)]
  /\ IF a.at = "count_client" THEN Goto(w, "count_account") ELSE Finish(w)
  /\ UNCHANGED <<clock, user, tried>>

CountAccountFailure(w) ==
  /\ At(w, "count_account")
  /\ buckets' = [buckets EXCEPT ![Account] = Counted(Account, attempts[w].now)]
  /\ tried' = [tried EXCEPT ![attempts[w].now] = @ + 1]
  /\ Goto(w, "read_back")
  /\ UNCHANGED <<clock, user>>

\* A bucket that was removed meanwhile fails the request.  Without a user there
\* is no row to copy to.
ReadBack(w) ==
  LET b == buckets[Account] IN
  /\ At(w, "read_back")
  /\ IF b = NoBucket \/ attempts[w].op = "unknown"
     THEN Finish(w)
     ELSE attempts' = [attempts EXCEPT
            ![w].seen = [count |-> b.count, until |-> b.until], ![w].at = "copy"]
  /\ UNCHANGED <<clock, buckets, user, tried>>

RecordFailedLogin(w) ==
  /\ At(w, "copy")
  /\ user' = attempts[w].seen
  /\ Finish(w)
  /\ UNCHANGED <<clock, buckets, tried>>

-----------------------------------------------------------------------------
(* Success, time, and retention *)

ResetLoginDefenseState(w) ==
  /\ At(w, "reset_user")
  /\ user' = Unlocked
  /\ Goto(w, "reset_bucket")
  /\ UNCHANGED <<clock, buckets, tried>>

\* The guesses before a success no longer matter.
ResetAuthFailureBucket(w) ==
  /\ At(w, "reset_bucket")
  /\ buckets' = [buckets EXCEPT ![Account] = NoBucket]
  /\ tried' = [t \in 0..Horizon |-> 0]
  /\ Finish(w)
  /\ UNCHANGED <<clock, user>>

\* Rows idle for longer than every window and lockout of the policy.
Retention ==
  CHOOSE m \in {AccountWindow, AccountLockout, ClientWindow, ClientRetry} :
    \A n \in {AccountWindow, AccountLockout, ClientWindow, ClientRetry} : n <= m

CleanupExpiredAuthFailureBuckets(k) ==
  /\ buckets[k] # NoBucket
  /\ buckets[k].updated + Retention < clock
  /\ buckets[k].until < clock
  /\ buckets' = [buckets EXCEPT ![k] = NoBucket]
  /\ UNCHANGED <<clock, user, attempts, tried>>

\* An attempt ends long before a window of the account does.  Guesses that no
\* period can hold together with later ones are forgotten.
Tick ==
  /\ clock < Horizon
  /\ \A w \in Workers :
       attempts[w] # Idle /\ attempts[w].now # 0 => clock < attempts[w].now + Lifetime
  /\ clock' = clock + 1
  /\ tried' = [t \in 0..Horizon |->
                IF t + AccountWindow <= clock' + Lifetime THEN 0 ELSE tried[t]]
  /\ UNCHANGED <<buckets, user, attempts>>

\* An invocation can end between any two of its steps.
Abandon(w) ==
  /\ attempts[w] # Idle
  /\ Finish(w)
  /\ UNCHANGED <<clock, buckets, user, tried>>

-----------------------------------------------------------------------------
Init ==
  /\ clock = 1
  /\ buckets = [k \in Keys |-> NoBucket]
  /\ user = Unlocked
  /\ attempts = [w \in Workers |-> Idle]
  /\ tried = [t \in 0..Horizon |-> 0]

Gate(w) ==
  \/ \E c \in Clients : BeginGrant(w, c) \/ BeginProof(w, c)
  \/ ReadClientBucket(w)
  \/ ReadAccountBucket(w)
  \/ ReadUser(w)

Failure(w) ==
  \/ CountClientFailure(w)
  \/ CountAccountFailure(w)
  \/ ReadBack(w)
  \/ RecordFailedLogin(w)

Success(w) == ResetLoginDefenseState(w) \/ ResetAuthFailureBucket(w)

Next ==
  \/ \E w \in Workers : Gate(w) \/ Failure(w) \/ Success(w) \/ Abandon(w)
  \/ \E k \in Keys : CleanupExpiredAuthFailureBuckets(k)
  \/ Tick

Spec == Init /\ [][Next]_vars

-----------------------------------------------------------------------------
(* Properties *)

\* Rows and attempts have their shapes.
TypeOK ==
  /\ clock \in 1..Horizon
  /\ buckets \in [Keys -> Bucket]
  /\ user \in UserLock
  /\ attempts \in [Workers -> Attempt \cup {Idle}]
  /\ tried \in [0..Horizon -> Nat]

\* However attempts overlap, no period that is shorter than a window by two
\* attempts sees more guesses than two windows let through: below its limit,
\* and from the other attempts that were past the gate when its lock fell.
Period(t) == {s \in 1..Horizon : t <= s /\ s + 2 * Lifetime < t + AccountWindow}
Guesses(t) == UNION {{s} \X (1..tried[s]) : s \in Period(t)}
GuessesAreBounded ==
  \A t \in 1..Horizon :
    Cardinality(Guesses(t))
      <= 2 * (AccountLimit - 1) + 2 * (Cardinality(Workers) - 1)

\* The reset of a successful grant is not undone by an older failure: when no
\* attempt is in flight, a users row is locked only if the account bucket, whose
\* lock it copies, is.
LockHasItsBucket ==
  (\A w \in Workers : attempts[w] = Idle) /\ Locked(user, clock)
    => Locked(buckets[Account], clock)
=============================================================================
