----------------------------- MODULE AccountCodes -----------------------------
(***************************************************************************)
(* Codes that are mailed to an address and act on an account: change of    *)
(* the email address, verification of it, and deletion of the account by   *)
(* someone who lost the password.  A code is reserved in D1, sealed into a *)
(* queue, taken from it by a consumer that knows no table, and comes back  *)
(* with a request of its reader.  Beside them the challenge of the email  *)
(* verification protocol, by which an issuer vouches for an address.       *)
(*                                                                         *)
(* One account is modelled; of the others, the addresses they have.        *)
(* Codes and challenge are numbered in the order they are drawn; the      *)
(* program draws them at random.  Stamps and sessions of the account are   *)
(* numbered likewise: none is ever drawn twice.                            *)
(***************************************************************************)
EXTENDS Naturals, FiniteSets

CONSTANTS Addresses, Requests,
          Null,
          MaxId,        \* bound: codes and challenge drawn
          MaxSession    \* bound: sessions of an account

ASSUME NullIsNoAddress == Null \notin Addresses
ASSUME BoundsAreNatural == {MaxId, MaxSession} \subseteq Nat

Ids == 1 .. MaxId
Purposes == {"email_change", "email_verify", "account_delete"}

VARIABLES account,    \* the columns of the users row that codes read and write
          taken,      \* addresses of other accounts
          drawn,      \* number of codes and challenge drawn
          codes,      \* rows of account_lifecycle_tokens
          expired,    \* codes and challenge past expires_at
          messages,   \* the queue
          inbox,      \* codes that reached the mailbox they were sent to
          challenge,  \* the email_verification_challenges row of the session
          requests,   \* what each request has read and still has to do
          proven      \* history: the address whose reader last acted for it

vars == <<account, taken, drawn, codes, expired, messages, inbox, challenge, requests, proven>>

-----------------------------------------------------------------------------
Account == [state : {"enabled", "disabled", "purged"},
            email : Addresses \cup {Null}, stamp : 0 .. MaxSession,
            session : 0 .. MaxSession, verified : BOOLEAN]
Code == [purpose : Purposes, target : Addresses \cup {Null},
         stamp : 0 .. MaxSession,
         state : {"active", "consumed", "superseded"},
         delivery : {"pending", "accepted", "failed"}]
NoCode  == [state |-> "none"]    \* not drawn, or drawn for a challenge
Deleted == [state |-> "deleted"]
Message == [state : {"queued", "done", "dead"}, to : Addresses]
NoMessage == [state |-> "none"]
Challenge == [id : Ids, email : Addresses, stamp : 0 .. MaxSession,
              session : 0 .. MaxSession, used : BOOLEAN]
NoChallenge == [id |-> 0]
Request == [op : {"email_change", "email_verify", "account_delete",
                  "change", "verify", "delete", "challenge", "prove"},
            at : {"reserve", "enqueue", "accept", "fail", "commit"},
            to : Addresses \cup {Null}, stamp : 0 .. MaxSession,
            session : 0 .. MaxSession, code : 0 .. MaxId, late : BOOLEAN]
Idle == [op |-> "idle"]

Enabled == account.state = "enabled"
Active(t) == codes[t].state = "active"
Free(a) == a \notin taken \cup {account.email}

\* What a handler reads before it awaits anything and uses after it: a value
\* that its operation never looks at again is not kept.
Read(op, at, to, code) ==
  [op |-> op, at |-> at, to |-> to, stamp |-> account.stamp,
   session |-> IF op \in {"challenge", "prove"} THEN account.session ELSE 0,
   code |-> code, late |-> code \in expired]

Begin(r, q) ==
  /\ requests[r] = Idle
  /\ requests' = [requests EXCEPT ![r] = q]
  /\ UNCHANGED <<account, taken, drawn, codes, expired, messages, inbox, challenge, proven>>

At(r, ops, at) == requests[r].op \in ops /\ requests[r].at = at
Finish(r) == requests' = [requests EXCEPT ![r] = Idle]
Goto(r, at, code) ==
  requests' = [requests EXCEPT ![r].at = at, ![r].code = code]

-----------------------------------------------------------------------------
(* A code is asked for, reserved, put into the queue, and its row is marked *)

PostEmailToken(r, to) ==
  Enabled /\ Begin(r, Read("email_change", "reserve", to, 0))
PostVerifyEmail(r) ==
  Enabled /\ Begin(r, Read("email_verify", "reserve", account.email, 0))
\* Anyone who knows the address asks; without an account nothing is reserved and
\* a message that the consumer drops takes the same way.
PostDeleteRecover(r) ==
  Enabled /\ Begin(r, Read("account_delete", "reserve", account.email, 0))

\* The account stands where the request read it.
SameGeneration(q) == Enabled /\ account.stamp = q.stamp

Eligible(q) ==
  /\ SameGeneration(q)
  /\ q.op = "email_change" => Free(q.to)

\* Slip: a code that was not delivered yet is left to its own request.
SupersededIfDelivered(purpose) ==
  {t \in Ids : /\ Active(t) /\ codes[t].purpose = purpose
               /\ codes[t].delivery = "accepted"}

Superseded(purpose) == {t \in Ids : Active(t) /\ codes[t].purpose = purpose}

ReserveAccountLifecycleToken(r) ==
  LET q == requests[r]
      t == drawn + 1 IN
  /\ At(r, Purposes, "reserve")
  /\ drawn < MaxId
  /\ IF Eligible(q)
     THEN /\ drawn' = t
          /\ codes' = [s \in Ids |->
               IF s = t
               THEN [purpose |-> q.op, stamp |-> q.stamp,
                     target |-> IF q.op = "email_change" THEN q.to ELSE Null,
                     state |-> "active", delivery |-> "pending"]
               ELSE IF s \in Superseded(q.op)
                    THEN [codes[s] EXCEPT !.state = "superseded"]
                    ELSE codes[s]]
          /\ Goto(r, "enqueue", t)
     ELSE UNCHANGED <<drawn, codes>> /\ Finish(r)
  /\ UNCHANGED <<account, taken, expired, messages, inbox, challenge, proven>>

\* Slip: a send that was not confirmed in five seconds counts as one that was.
AnyAnswer(queued) == {"accept"}

\* 202 is answered when the queue has confirmed the message.  A message may be
\* in the queue although the confirmation is lost or late.
Answers(queued) == IF queued THEN {"accept", "fail"} ELSE {"fail"}

DeliverAccountLifecycleToken(r) ==
  LET q == requests[r] IN
  /\ At(r, Purposes, "enqueue")
  /\ \E queued \in BOOLEAN : \E answer \in Answers(queued) :
       /\ messages' = IF queued
            THEN [messages EXCEPT ![q.code] =
                    [state |-> "queued", to |-> q.to]]
            ELSE messages
       /\ Goto(r, answer, q.code)
  /\ UNCHANGED <<account, taken, drawn, codes, expired, inbox, challenge, proven>>

Undecided(t) == Active(t) /\ codes[t].delivery = "pending"

MarkDeliveryAccepted(r) ==
  LET t == requests[r].code IN
  /\ At(r, Purposes, "accept")
  /\ codes' = IF Undecided(t)
              THEN [codes EXCEPT ![t].delivery = "accepted"] ELSE codes
  /\ Finish(r)
  /\ UNCHANGED <<account, taken, drawn, expired, messages, inbox, challenge, proven>>

MarkDeliveryFailed(r) ==
  LET t == requests[r].code IN
  /\ At(r, Purposes, "fail")
  /\ codes' = IF Undecided(t)
              THEN [codes EXCEPT ![t].delivery = "failed", ![t].state = "superseded"]
              ELSE codes
  /\ Finish(r)
  /\ UNCHANGED <<account, taken, drawn, expired, messages, inbox, challenge, proven>>

-----------------------------------------------------------------------------
(* The consumer of the queue.  It sends by the message alone.                *)

Settle(t, state) == messages' = [messages EXCEPT ![t].state = state]

\* Acknowledged: sent, or past its expiry.  Retried: refused, unreadable for
\* want of a key, or sent by a provider whose answer was lost or late.  A message
\* that was retried often enough is a dead letter.
ConsumeAccountLifecycleMail(t) ==
  /\ messages[t].state = "queued"
  /\ IF t \in expired
     THEN Settle(t, "done") /\ UNCHANGED inbox
     ELSE \E sent \in BOOLEAN :
            /\ inbox' = IF sent THEN inbox \cup {t} ELSE inbox
            /\ \/ UNCHANGED messages \/ Settle(t, "dead")
               \/ sent /\ Settle(t, "done")
  /\ UNCHANGED <<account, taken, drawn, codes, expired, challenge, requests, proven>>

Expire(t) ==
  /\ t \in 1 .. drawn \ expired
  /\ expired' = expired \cup {t}
  /\ UNCHANGED <<account, taken, drawn, codes, messages, inbox, challenge, requests, proven>>

-----------------------------------------------------------------------------
(* A code comes back with a request of its reader                            *)

\* The session of the account that asks for the change sends the code and the
\* address it is for.
PostEmail(r, t, to) ==
  /\ t \in inbox /\ Enabled
  /\ Begin(r, Read("change", "commit", to, t))

PostVerifyEmailToken(r, t) ==
  /\ t \in inbox /\ Enabled
  /\ Begin(r, Read("verify", "commit", Null, t))

PostDeleteRecoverToken(r, t) ==
  /\ t \in inbox /\ Enabled
  /\ Begin(r, Read("delete", "commit", Null, t))

\* With the password and no code.
DeleteAccountRoute(r) ==
  Enabled /\ Begin(r, Read("delete", "commit", Null, 0))

\* Slips: clauses that a statement could lack.
HoldsForAnyGeneration(q, purpose) ==
  /\ Active(q.code) /\ ~q.late
  /\ codes[q.code].delivery = "accepted" /\ codes[q.code].purpose = purpose
  /\ purpose = "email_change" => codes[q.code].target = q.to
HoldsThoughReplaced(q, purpose) ==
  /\ codes[q.code].state \in {"active", "superseded"} /\ ~q.late
  /\ codes[q.code].delivery = "accepted" /\ codes[q.code].purpose = purpose
  /\ codes[q.code].stamp = q.stamp
  /\ purpose = "email_change" => codes[q.code].target = q.to

Holds(q, purpose) ==
  /\ Active(q.code) /\ ~q.late
  /\ codes[q.code].delivery = "accepted" /\ codes[q.code].purpose = purpose
  /\ codes[q.code].stamp = q.stamp
  /\ purpose = "email_change" => codes[q.code].target = q.to

\* A new stamp, and every session of the account ends.
NewGeneration == [account EXCEPT !.stamp = @ + 1, !.session = @ + 1]
MayRenew == account.session < MaxSession

\* Slip: the address was free when the code was reserved.
TrustsTheReservation(q) == SameGeneration(q) /\ Holds(q, "email_change")

MayChangeEmail(q) ==
  SameGeneration(q) /\ Free(q.to) /\ Holds(q, "email_change")

ChangeAccountEmail(r) ==
  LET q == requests[r] IN
  /\ At(r, {"change"}, "commit")
  /\ MayRenew
  /\ IF MayChangeEmail(q)
     THEN /\ account' = [NewGeneration EXCEPT !.email = q.to, !.verified = TRUE]
          /\ codes' = [codes EXCEPT ![q.code].state = "consumed"]
          /\ proven' = messages[q.code].to
     ELSE UNCHANGED <<account, codes, proven>>
  /\ Finish(r)
  /\ UNCHANGED <<taken, drawn, expired, messages, inbox, challenge>>

VerifyAccountEmail(r) ==
  LET q == requests[r] IN
  /\ At(r, {"verify"}, "commit")
  /\ IF SameGeneration(q) /\ Holds(q, "email_verify")
     THEN /\ account' = [account EXCEPT !.verified = TRUE]
          /\ codes' = [codes EXCEPT ![q.code].state = "consumed"]
          /\ proven' = messages[q.code].to
     ELSE UNCHANGED <<account, codes, proven>>
  /\ Finish(r)
  /\ UNCHANGED <<taken, drawn, expired, messages, inbox, challenge>>

\* The code that was used is consumed, the others are superseded.
\* (The last owner of an organization is refused, see Organizations: Abandon.)
BeginRecoverableAccountDeletion(r) ==
  LET q == requests[r] IN
  /\ At(r, {"delete"}, "commit")
  /\ MayRenew
  /\ IF SameGeneration(q) /\ (q.code = 0 \/ Holds(q, "account_delete"))
     THEN /\ account' = [NewGeneration EXCEPT !.state = "disabled"]
          /\ codes' = [t \in Ids |->
               IF Active(t)
               THEN [codes[t] EXCEPT
                       !.state = IF t = q.code THEN "consumed" ELSE "superseded"]
               ELSE codes[t]]
     ELSE UNCHANGED <<account, codes>>
  /\ Finish(r)
  /\ UNCHANGED <<taken, drawn, expired, messages, inbox, challenge, proven>>

-----------------------------------------------------------------------------
(* The email verification protocol.  An account has one challenge for each of *)
(* its sessions; the challenge of a session that ended is never found again.  *)

PostChallenge(r) ==
  Enabled /\ Begin(r, Read("challenge", "commit", account.email, 0))

\* The session, the address and the stamp of the request are the account's.
ActiveFamily(q) ==
  /\ SameGeneration(q)
  /\ account.email = q.to /\ account.session = q.session

CreateEmailVerificationChallengeRecord(r) ==
  LET q == requests[r] IN
  /\ At(r, {"challenge"}, "commit")
  /\ drawn < MaxId
  /\ IF ActiveFamily(q)
     THEN /\ drawn' = drawn + 1
          /\ challenge' = [id |-> drawn + 1, email |-> q.to, stamp |-> q.stamp,
                           session |-> q.session, used |-> FALSE]
     ELSE UNCHANGED <<drawn, challenge>>
  /\ Finish(r)
  /\ UNCHANGED <<account, taken, codes, expired, messages, inbox, proven>>

OwnChallenge(q) ==
  challenge = [id |-> q.code, email |-> q.to, stamp |-> q.stamp,
               session |-> q.session, used |-> FALSE]

\* The challenge is found and the proof compared with it; the request then asks
\* the network for the keys of the issuer.
VerifyEmailVerification(r) ==
  /\ Enabled
  /\ LET q == Read("prove", "commit", account.email, challenge.id) IN
     ~q.late /\ OwnChallenge(q) /\ Begin(r, q)

\* Slip: the batch trusts the session and the address that authenticated.
ConsumesWhatWasRead(q) == OwnChallenge(q) /\ q.code \notin expired

\* The time is taken again before the batch.
MayConsume(q) ==
  OwnChallenge(q) /\ ActiveFamily(q) /\ q.code \notin expired

ConsumeEmailVerificationChallenge(r) ==
  LET q == requests[r] IN
  /\ At(r, {"prove"}, "commit")
  /\ IF MayConsume(q)
     THEN /\ challenge' = [challenge EXCEPT !.used = TRUE]
          /\ account' = [account EXCEPT !.verified = TRUE]
          /\ proven' = q.to
     ELSE UNCHANGED <<account, challenge, proven>>
  /\ Finish(r)
  /\ UNCHANGED <<taken, drawn, codes, expired, messages, inbox>>

\* The request dies, or is refused by a check that is not modelled.
Abandon(r) ==
  /\ requests[r] # Idle
  /\ Finish(r)
  /\ UNCHANGED <<account, taken, drawn, codes, expired, messages, inbox, challenge, proven>>

-----------------------------------------------------------------------------
(* What other parts do to the account, and other accounts to addresses        *)

Store(changed) ==
  /\ account' = changed
  /\ UNCHANGED <<taken, drawn, expired, messages, inbox, challenge, requests, proven>>

ChangeCredentials ==
  Enabled /\ MayRenew /\ Store(NewGeneration) /\ UNCHANGED codes

RevokeDeviceSession ==
  /\ Enabled /\ MayRenew
  /\ Store([account EXCEPT !.session = @ + 1])
  /\ UNCHANGED codes

RecoverAccountDeletion ==
  /\ account.state = "disabled" /\ MayRenew
  /\ Store([NewGeneration EXCEPT !.state = "enabled"])
  /\ UNCHANGED codes

\* Slip: the address stays in the row.
NamedTombstone == [account EXCEPT !.state = "purged", !.verified = FALSE]

Tombstone == [account EXCEPT !.state = "purged", !.email = Null, !.verified = FALSE]

\* The rows of codes go with the account; the address is free again.
FinalizeAccountPurge ==
  /\ account.state = "disabled"
  /\ Store(Tombstone)
  /\ codes' = [t \in Ids |-> IF codes[t] \in Code THEN Deleted ELSE codes[t]]

\* Another account registers at an address or changes to it, under the same
\* clauses, or gives it up.
OtherAccounts(a) ==
  /\ a # account.email
  /\ taken' = IF a \in taken THEN taken \ {a} ELSE taken \cup {a}
  /\ UNCHANGED <<account, drawn, codes, expired, messages, inbox, challenge,
                 requests, proven>>

-----------------------------------------------------------------------------
\* An account of before migration 0017 counts as verified.
Init ==
  /\ account \in [state : {"enabled"}, email : Addresses, stamp : {0},
                  session : {0}, verified : BOOLEAN]
  /\ proven = IF account.verified THEN account.email ELSE Null
  /\ taken = {} /\ drawn = 0 /\ expired = {} /\ inbox = {}
  /\ codes = [t \in Ids |-> NoCode]
  /\ messages = [t \in Ids |-> NoMessage]
  /\ challenge = NoChallenge
  /\ requests = [r \in Requests |-> Idle]

Ask(r) ==
  \/ \E a \in Addresses : PostEmailToken(r, a)
  \/ PostVerifyEmail(r) \/ PostDeleteRecover(r) \/ DeleteAccountRoute(r)
  \/ PostChallenge(r) \/ VerifyEmailVerification(r)

BringCode(r) ==
  \E t \in Ids : \/ \E a \in Addresses : PostEmail(r, t, a)
                 \/ PostVerifyEmailToken(r, t) \/ PostDeleteRecoverToken(r, t)

Serve(r) ==
  \/ ReserveAccountLifecycleToken(r) \/ DeliverAccountLifecycleToken(r)
  \/ MarkDeliveryAccepted(r) \/ MarkDeliveryFailed(r)
  \/ ChangeAccountEmail(r) \/ VerifyAccountEmail(r)
  \/ BeginRecoverableAccountDeletion(r)
  \/ CreateEmailVerificationChallengeRecord(r)
  \/ ConsumeEmailVerificationChallenge(r)
  \/ Abandon(r)

Next ==
  \/ \E r \in Requests : Ask(r) \/ BringCode(r) \/ Serve(r)
  \/ \E t \in Ids : ConsumeAccountLifecycleMail(t) \/ Expire(t)
  \/ ChangeCredentials \/ RevokeDeviceSession
  \/ RecoverAccountDeletion \/ FinalizeAccountPurge
  \/ \E a \in Addresses : OtherAccounts(a)

Spec == Init /\ [][Next]_vars

-----------------------------------------------------------------------------
(* Properties *)

\* Rows, messages and requests have their shapes, and the account has an address
\* until it is purged.
TypeOK ==
  /\ account \in Account /\ (account.email = Null <=> account.state = "purged")
  /\ taken \in SUBSET Addresses
  /\ drawn \in 0 .. MaxId
  /\ codes \in [Ids -> Code \cup {NoCode, Deleted}]
  /\ expired \in SUBSET Ids /\ inbox \in SUBSET Ids
  /\ messages \in [Ids -> Message \cup {NoMessage}]
  /\ challenge \in Challenge \cup {NoChallenge}
  /\ requests \in [Requests -> Request \cup {Idle}]
  /\ proven \in Addresses \cup {Null}

\* The address counts as verified only if its holder acted for this account: by
\* the code of a mail that went to it, or by a proof of its issuer.  Changes of
\* the address, of credentials and sessions, late mail and several codes at a
\* time notwithstanding.
VerifiedAddressWasProven == account.verified => proven = account.email

\* No reservation meets the index of one active code for each purpose, and no
\* change of the address that of addresses: a batch that did would fail for a
\* reason that its request was not told of.
UniqueIndexesHold ==
  /\ \A s, t \in Ids : s # t /\ Active(s) /\ Active(t)
       => codes[s].purpose # codes[t].purpose
  /\ account.email \notin taken

\* A code whose request was answered with success is in a mailbox, or in the
\* queue, or it expired or was refused as often as the queue tries.
AnsweredCodesGoOut ==
  \A t \in Ids : codes[t] \in Code /\ codes[t].delivery = "accepted" =>
    t \in inbox \cup expired \/ messages[t].state \in {"queued", "dead"}

\* The account is put up for deletion by its password or by the reader of a mail
\* to the address it has at that moment; an address it gave up, or that another
\* account has now, is of no use.
DeletionsComeFromTheOwner ==
  [][Enabled /\ account'.state = "disabled" =>
       \E r \in Requests :
         /\ requests[r].op = "delete" /\ requests'[r] = Idle
         /\ requests[r].code = 0 \/ messages[requests[r].code].to = account.email]_vars

\* Of several codes of one purpose only the one that was asked for last acts:
\* an older one that arrives late, or that is brought after it, does nothing.
OnlyTheLatestCodeActs ==
  [][\A t \in Ids : codes'[t].state = "consumed" /\ codes[t].state # "consumed" =>
       \A s \in Ids : s > t /\ codes[s] \in Code =>
         codes[s].purpose # codes[t].purpose]_vars

=============================================================================
