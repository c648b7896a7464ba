# HonoWarden in TLA+

HonoWarden is a password manager server: a Cloudflare Worker (`src/src/app.ts`)
over a D1 database (SQLite), an R2 bucket, queues and Durable Objects.  Every
HTTP request is one worker invocation.  An invocation has no memory shared with
any other; it reads rows, awaits, and later sends a D1 *batch*, which commits as
one transaction.  The program's difficulty lies there: whatever was read may
have changed by the time the batch runs, so each batch repeats in its `WHERE`
clauses what the handler decided on, and whatever a batch does not repeat can be
stale.  The modules here model requests as actors with a snapshot, tables as
functions of row ids, and batches as atomic actions guarded by their `WHERE`
clauses.

## The system

| component | state | operations | hard behaviour |
| --- | --- | --- | --- |
| Login sessions (`auth-repository.ts`, token route of `app.ts`) | `users.security_stamp`, `devices`, `refresh_tokens`, signed access tokens | password grant, refresh grant, replay detection, authentication of a bearer, logout, device revocation | rotation races, replay against a new login, stale grants across a credential change |
| Session TOTP assurance (`mfa-session-repository.ts`) | `user_totp`, the proof columns of `devices` | enrol, step up, change, remove | a code verified before the batch that consumes it, proofs of a replaced factor |
| Credential mutations (`credential-repository.ts`) | the credential generation of `users` | change password, KDF, stamp | compare-and-set on the stamp, revoking everything in the same batch |
| Auth requests (`auth-request-repository.ts`) | `auth_requests` | create, approve, deny, exchange, expire, delete | approvals that outlive credentials, two answers, a second exchange |
| Login defence (`login-defense.ts`) | failure buckets, `users.login_locked_until`, TOTP challenges | record a failure, lock, reset, issue and consume a challenge | counters updated by racing failures and successes |
| Account lifecycle (`account-lifecycle-repository.ts`, `account-lifecycle-purge.ts`) | `account_lifecycle_tokens`, `account_deletions`, R2 objects | change or verify the address, request deletion, recover, purge | codes that outlive what they were asked for, a purge that crashes between R2 and D1, overlapping calls |
| Lifecycle mail (`account-lifecycle-mail-*.ts`) | queue, `delivery_state` | reserve, enqueue, send, retry | duplicated, lost and late mail, a confirmation that is lost |
| Email verification (`email-verification*.ts`) | `email_verification_challenges` | issue a challenge, consume its proof | the session or the address changes while keys are fetched |
| Attachments (`attachment-repository.ts`) | `cipher_attachments`, R2 objects | allocate, upload, delete, expire | two stores without a common transaction |
| Vault (`cipher-repository.ts`, `folder-repository.ts`) | `ciphers`, `folders` | create, update, move, trash, restore, delete, share | edits built on an old revision, a folder deleted under a move |
| User key rotation (`user-key-rotation-*.ts`) | everything that is under the user key | read the vault table by table, replace it in one batch | what is written between the client's sync, the reads and the batch |
| Organizations (`organization-*-repository.ts`) | members, groups, collections, policies, revisions | invite, accept, confirm, change, revoke, remove; groups; policy; collections | owners and admins acting on each other at the same time, accounts that go meanwhile, clients that must hear of it |
| Sends, emergency access, personal API keys, WebAuthn, quotas, notification hub, inquiry inbox, initial setup, company settings | their own tables | see `PROJECT.json` | not modelled, see below |

Components interact through shared tables only: a credential change revokes
devices and tokens and supersedes auth requests in its own batch; deletion of an
account disables it under a new stamp in the same way; an auth request becomes a
session by the same rows a password login writes; a code carries the stamp it was
asked for under; a rotation of the user key signs every device out; the guards of
organizations read the accounts and factors of their members, and removal of a
factor and deletion of an account read the organization.  `PROJECT.json` lists every
component with its sources and status.

## What makes each component correct

- *Sessions*: a family of refresh tokens has one that works; a revoked device
  has none; every live session belongs to the present stamp; nothing that was
  revoked works again; a replay ends only its own family.
- *TOTP*: a proof on a session is of the factor enabled now; a login cannot slip
  past a factor enabled meanwhile; a code is accepted once.
- *Auth requests*: an approval dies with the credentials it was given under; a
  request is answered once and exchanged once.
- *Login defence*: whatever overlaps, the guesses counted in a period as long
  as a window, but for the time of two attempts, stay within what two windows
  allow; a lock and the count it came from agree.
- *Attachments*: an attachment that is shown has its bytes; the quota holds; a
  row never outlives or leaves the personal vault of its cipher.
- *Purge*: what the progress counts is gone from R2; progress never moves back;
  recovery and purge exclude each other; a row is kept until its object is gone;
  a purge that is repeated ends, and ends with every row deleted.
- *Codes and mail*: an address counts as verified only if its holder acted for
  the account; deletion is asked for by the password or the reader of the present
  address; of several codes the latest acts; a code that was answered with success
  goes out.
- *Vault, key rotation*: after a rotation everything is under one key; no
  ciphertext of an older key comes back; a rotation overwrites only what its
  client saw; a shared cipher keeps nothing of its former owner.
- *Organizations*: an owner who can log in and administer remains; who left holds
  nothing; an admin cannot touch owners and admins; whoever gains or loses access
  polls a later revision.

`PROJECT.json` lists the hazards at the lines where they bite, with the
properties that answer them.

## Modules

| module | models | checked and proved by |
| --- | --- | --- |
| `SessionAuthority` | what login sessions promise, without rows, requests or batches | refined by `Sessions`, `AuthRequests` |
| `Sessions` | login sessions, TOTP assurance, credential changes, deletion and recovery as they touch sessions | run `sessions`; `SessionsProofs` |
| `AuthRequests` | extends `Sessions` with login by another device, over the same rows | run `auth_requests`; `AuthRequestsProofs` |
| `LoginDefense` | failure buckets, lock of the account, reset, cleanup | runs `login_defense`, `login_reset`; `LoginDefenseProofs` |
| `Attachments` | `cipher_attachments` and R2, uploads, compensations, deletions, sharing, cleanup | runs `attachments`, `attachments_stranded`; `AttachmentsProofs` |
| `AccountPurge` | `account_deletions`, the operator's methods and the R2 purge | runs `purge`, `purge_tombstone`; `AccountPurgeProofs` |
| `Vault` | folders, ciphers, attachments and device keys under a user key, and its rotation | runs `vault`, `vault_folders`; `VaultProofs` |
| `Organizations` | members, groups, collections, the two-factor policy, revisions, and the accounts of members | run `organizations`; `OrganizationsProofs` |
| `AccountCodes` | mailed codes from reservation to use, their queue and consumer, the verification challenge, and the account they act on | run `account_codes`; `AccountCodesProofs` |
| `*Proofs` | theorems about those modules | TLAPS |
| `MC*` | instances for TLC: symmetry sets, constraints | |

### How state and actions correspond to the code

Every module has a function from workers to what an invocation has read and
still has to do (`flight`, `serving`, `calls`, `attempts`).  One action is one
D1 statement or batch, one R2 call, or the reads a handler makes before it next
writes.  When a handler reads several rows and nothing it does depends on their
being read apart, the read is one action; where it matters (the two buckets and
the users row in `LoginDefense`, the row read again after a failed mark in
`Attachments`) each is its own.  `Abandon` ends an invocation between any two
steps: an exception, a lost connection, or the platform stopping it.

*Sessions.*  `user` is the generation of the `users` row (stamp, password,
disabled), `devices` the row of each device with its session and the proof
columns of migration 0027, `tokens` the rows of `refresh_tokens`, `expired` the
tokens past `expires_at`, `factor` the row of `user_totp`, `access` the claims
of access tokens signed so far, and `spent` the stamps that were used (a UUID
is never drawn twice).  A handler is a read action (`ReadForPassword`,
`ReadForRefresh`, `AuthenticateVaultRequest`, ...) that fills `flight[w]` and a
batch action (`CreatePasswordGrantSession`, `RotateRefreshToken`,
`CommitCredentialGenerationMutation`, ...) whose guard is the batch's `WHERE`
clauses.  When the batch changes nothing the handler fails; a rotation that
finds its token used goes on to `InvalidateRefreshTokenSession`.  Triggers of
migration 0027 are part of the actions whose statements fire them
(`WithoutProofs`).

*AuthRequests.*  `requests` holds the rows of `auth_requests`.  Creation,
answers, exchange, expiry and deletion are its actions; the credential batches
of `Sessions` are conjoined with `Superseded`, which is what they do to
`auth_requests` in the same transaction.

*LoginDefense.*  `buckets` holds the account's bucket and one per client
address, `user` the two columns of the users row, `attempts` the times and
values an attempt goes by.  Whether a credential is right is nondeterministic.
`tried` is a history of counted guesses.

*Attachments.*  `rows` and `objects` are the two stores.  A row is known once a
client was answered with its id; `fresh` is "its reservation has not lapsed".
The two upload routes share their steps; `settles` says that the request still
has to mark the row.  `erased` is a history of what users deleted.

*AccountPurge.*  `deletion` is the row of `account_deletions`; `rows` are keys
of the personal attachments, `objects` those in R2.  Neither contains the other:
a pending row may have no object yet, and `Attachments` shows how an object loses
its row.  A purge call takes the time once (`now`) and writes it to `updated_at`
with everything it writes to the deletion.  `Sealed` is the guard of the
statements that delete, `Stamped` the weaker one of the statement that makes the
tombstone; a `FinalizeAccountPurge` that is stamped and not sealed tombstones the
deletion and keeps the rows.  The generation that every call names is a number
here and a UUID in the code.

*Vault.*  A row is known by the user key it is encrypted under and by the time of
the write that made it; the plaintext the server never sees is not there.  A
request takes its time when it begins (`Begin`) and writes in `CommitWrite`, whose
`Selects` is the `WHERE` clause of each statement and whose `Written` is its
`SET`.  A rotation keeps what its client saw, reads the four tables in any order
and compares them twice: with the request (`RequestMatches`) and, in the batch,
with the tables (`Unchanged`).

*Organizations.*  Every route is one batch that decides within it, so an action is
a route; the interleaving is between routes of several actors and of the accounts
(`AccountStep`: enrolment and removal of factors, deletion, recovery, purge,
registration with an invitation).  `revision` and `users[u].rev` are the two
revisions a client polls, `now` the time a worker read, which may be behind.

*AccountCodes.*  `requests` are the routes that ask for codes, bring them back, or
work on a challenge; `messages` is the queue, `inbox` what reached a mailbox,
`taken` the addresses of other accounts.  `DeliverAccountLifecycleToken` lets the
confirmation of a send be lost or late, `ConsumeAccountLifecycleMail` that of the
provider.  `proven` is a history of whose reader last acted for the account.

## Runs

| run | instance | what it shows |
| --- | --- | --- |
| `sessions` | 2 workers, 2 devices, 3 tokens and 3 stamps without a factor; 2 secrets, 2 steps, 2 tokens with one | rows, claims, stamps and proofs agree under every interleaving of two requests; a code is used once and no login slips past a factor; refinement of `SessionAuthority` |
| `auth_requests` | 1 session route beside 2 auth request routes, 2 requests | approvals die with the generation, exchange happens once, still a refinement |
| `login_defense` | 2 attempts, 1 client, limits 2 and 2, window and lockout 4, attempts of 1, clock to 6 | counted guesses are bounded |
| `login_reset` | 2 attempts, 1 client, limits 2 and 3, window and lockout 2, clock to 3 | finding: a stale failure undoes a reset |
| `attachments` | 3 workers, 1 cipher, 2 attachments of sizes 2 and 1, quota 2 | bytes, quota and ownership |
| `attachments_stranded` | 1 worker, 1 attachment, only the mark can fail | finding: preserved bytes are never reconciled |
| `purge` | 2 workers, up to 3 keys, pages of 1, 2 times, 2 deletions | progress, exclusion, that rows go after their objects and only at the end, and that purges end |
| `purge_tombstone` | 1 worker, up to 2 keys, 1 time, 1 deletion | finding: a tombstone without the deletion of anything |
| `vault` | 2 requests, 1 folder, 2 ciphers, 1 attachment, 1 device, 2 user keys, 4 times | one generation after a rotation, no ciphertext of an older one, nothing unseen overwritten, shared ciphers stripped |
| `vault_folders` | the same | finding: a rotation overwrites a renamed folder |
| `organizations` | 2 members, 1 group, 1 collection, 4 batches | an owner remains, who left holds nothing, admins stay below, changes of access are noticed |
| `account_codes` | 3 addresses, 2 requests, 2 codes, 2 sessions | codes act for the reader of the address they were meant for, the latest only |

Why the bounds are enough. The races of this code are between a read and a batch
of one request and a batch of another, so two workers cover every pair;
`attachments` has three, because there the loser of a race between two retries
can meet a deletion. A rotation of refresh tokens needs two tokens of a family,
and a third lets a device log in again while an old token is replayed. Three
stamps allow two changes of credentials during one request. In `login_defense`
the clock passes a window that began before the period in question and the start
of the next; the instance reaches the bound, and the theorem covers what it does
not reach (three attempts were run with attempts of no length). An attachment of
size 2 and one of size 1 under quota 2 fit alone and not together. Three keys in
pages of one need three pages, and two deletions a recovery between two purges.
In `vault` four times let a record be written, changed by a second request, and
be met by a rotation that began before; two ciphers tell a bulk operation from a
single one. In `organizations` the organization begins with any settled roster,
so that four batches are enough for one actor to change what the guard of
another relied on. Two codes are a code and the one that replaces it, or codes
of two purposes; of three addresses one is the account's, one the other end of a
change, and the third the one that a request names although the code was for
another.  Two times are enough in `purge`, where two calls in progress have the
same or not. Larger instances (two ciphers and three attachments in
`Attachments`, three workers, or five keys in pages of two, in `AccountPurge`, its safety only) were
run as well and are left out for their running time.

Bounds that are not constants of the code: `Tokens`, `Stamps`, `Requests`,
`Attachments`, `Generations`, `Horizon`, `MaxTime`, `LastBatch`, `MaxId` and
`MaxSession` run out.  Three instances explore part of the product: `ExpiryIsQuiet`
explores expired refresh tokens beside auth requests only while no route is being
served; `InPlay` of `MCSessions` explores a second factor with one stamp and two
refresh tokens, and everything else without; `InPlay` of `MCAccountCodes` keeps
two codes of one purpose or of any two, or a code beside a challenge, while the
account changes its address and credentials, but lets nothing
expire while two purposes are outstanding, and two requests overlap only when they are for
one purpose or when one changes the address while the other proves it.  The
theorems about these modules have no such bounds.  Because ids and time run out,
an instance can stop where the program would not, so the runs do not check for
deadlock (`organizations` never stops, and does).

Time.  Four modules assume that an invocation is short against a period of the
policy: an attempt against the failure window of 15 minutes (`AttemptsAreShort`
in `LoginDefense`, whose `AccountPolicy` is that of `loginDefensePolicy`: more
than one failure locks, for no less than the window), an upload past its reservation against the 24 hours of the
reservation (`Leased` in `Attachments`), and every request against the 30 days
of recoverability, after which the inventory of the account no longer changes
(`AccountPurge`); a request that brings a code compares its expiry with a time it
took at its start (`late` in `AccountCodes`).  In `Vault` two requests never take
the same millisecond: two of one millisecond would write the same revision date,
and comparison of revisions could not tell them apart.

Fairness.  Only `PurgesEnd` needs it.  `Perseverance` says that the operator
repeats the call while the purge is unfinished, as the runbook
`docs/operations/account-lifecycle.md` asks, that a step which calls reach again
and again does not fail every time (strong fairness of each step, taken by
whichever call is at it), and that calls that only write D1 end.  Nothing is
assumed of the users.  The property has two parts: a purge reaches the tombstone
if the user at last stops being the sole confirmed owner of an organization, and
it does so with every row deleted if the user never is one during the purge.
Without the second condition the first is all that holds, see the findings.

Each property has a mutant in `PROJECT.json`: a slip that the code could have
contained, written beside the definition it replaces and marked `Slip:`, which
makes the property fail under the same instance.  The type invariants of `AuthRequests`,
`Attachments`, `Vault` and `Organizations` are proved and not repeated in the
runs.

## Findings

1. *An upload's preserved bytes can be lost to every cleanup*
   (`attachments_stranded`).  When marking a preallocated upload fails and its
   row is still pending, the route keeps the object for "a later retry or
   rollback" (`src/app.ts:10756`).  If none comes within a day,
   `deleteExpiredPendingCipherAttachments` deletes the row alone.  The key is
   stored nowhere else, so the object can no longer be deleted, not even with the
   account.
2. *A failure undoes a reset* (`login_reset`).  `recordFailedLogin` writes values
   read earlier, unconditionally.  A failed attempt that read back its bucket
   before a successful grant can lock the account after it.
3. *A rotation overwrites a renamed folder* (`vault_folders`).
   `docs/security/data-flow.md:231-233` lists stale revisions among what fails a
   rotation before it changes anything.  The request has revisions for ciphers
   only; folders are compared by id, so a rename between the client's sync and
   the server's snapshot is lost.
4. *A tombstone that deleted nothing* (`purge_tombstone`).  The last batch of a
   purge rechecks in its seal that the user is the last owner of no organization,
   and every statement that deletes asks for the seal.  The statement that sets
   `state = 'tombstoned'` (`account-lifecycle-repository.ts:1607-1612`) asks for
   `updated_at = now` instead, which the same call wrote with its progress.  If
   the user became a last owner after the call started, the batch commits the
   tombstone and the audit event of a success with every row and the user
   untouched; the call throws, and no later call can finish.
   `docs/operations/account-lifecycle.md:30-31` says that a tombstone has no
   personal rows, lines 131-132 that such a change "fails closed".  `RowsGoLast`
   is what does hold: the rows of such an account are kept, all of them.

Revisions of organizations can go back as well, which no run shows any more than
the exception in `AccessChangesAreNoticed` does.
`docs/adr/0016-company-administration.md:177-179` says that revisions "advance
monotonically", so that a member who loses access polls a later one.  Batches
of collections set the revision of the organization to the time of the request
(`organization-repository.ts:580`, `671` and `750`) and no account's: with a time
that is not later than the revision, a member loses a collection and polls
nothing new.

Observed and not contradicted by a document: a failure whose time is past the
window can clear a lock that an earlier-timed failure set while it was in
flight; a request authenticated before its session was revoked can still commit
some batches; an attachment uploaded between the two steps of a permanent
deletion leaves its object; `FinalizeAccountPurge` deletes neither the challenges
of email verification, which name the address, nor passkeys and API keys of the
account it replaces by a tombstone, while
`docs/operations/account-lifecycle.md:30-31` says that it "removes personal rows
and identity material".

## Proofs

`SessionsProofs` proves, for any number of workers, devices, tokens, stamps,
passwords, secrets and steps, and from no assumption but those `Sessions`
declares:

- `TypeCorrect`: `Spec => []TypeOK`;
- `SessionInvariant`: the inductive invariant `SessionInv`;
- `OneLiveToken`, `LiveDevicesRefresh`, `RevokedDevicesAreCutOff`,
  `SessionsAreCurrent`: what `SessionInv` says of families, devices and stamps;
- `ProofsAreCurrent`: proofs are of the factor that is enabled;
- `SessionsShowTheFactor`, `CodesAcceptedOnce`, `ReplaysEndTheirFamily`,
  `RevokedAccessStaysRevoked`: the four action properties of the run;
- `SecretsAreSpent`: the stored secrets were drawn, and the two are never one;
- `SessionsImplementAuthority`: the refinement of `SessionAuthority`.

The four invariants are not inductive.  `SessionInv` adds `Origins` (which device
and session a token row belongs to never conflicts with the device row),
`StampsSpent` (the present stamp and those of claims were drawn, so a new one is
new) and `SnapshotsOfTokens` (what a request read of a token still holds of its
row's immutable columns).  The proof does not treat the twenty-odd actions one
by one for each conjunct: it shows that every step has one of four effects on
rows (it narrows what works, restamps the account and closes everything, begins
a session, or rotates a token), and that each effect preserves the invariant.
The refinement follows from the same four effects: they are `Close`, `NewEpoch`,
`Open` and `Renew`.  `ProofsAreCurrent` has an argument of its own, by the actions
that touch the factor or the proof columns: a batch that writes a proof compares
the factor with the one the code was verified against, and a batch that changes
the factor clears every proof.  `SessionsShowTheFactor` and `CodesAcceptedOnce`
follow what a batch does to `user_totp` (`FactorEffect`): a login batch repeats the
factor its handler read and, when a code was shown, advances the last accepted step
in the same transaction, so no session gains a proof without a later code.
`SecretsSpent` is what makes a changed secret a new one.  `ReplaysEndTheirFamily`
follows the batch of replay detection, which names the session of the token it was
given.

`AuthRequestsProofs` proves every property of the run `auth_requests` for the
composition, with any number of handlers and requests and the further assumption
that SQL NULL is not the id of a request: `RequestsTypeCorrect`,
`OpenApprovalsAreCurrent`, `ExchangeNeedsOneApproval`, `AnswersStand` and
`RequestsImplementAuthority`.  It also shows that what is proved of `Sessions`
alone survives the third way in (`ComposedSessionsAreSound`,
`ComposedAccessStaysRevoked`).  The delicate point is that the exchange compares
neither the stamp nor `disabled_at`, and that the answer does not either: both
are safe only because the credential batch supersedes the open requests.
`RequestsInv` (theorem `RequestsInvariant`) says so: what a route read of the
account is current for as long as the request it read it for is still open
(`AnswersInTime`), and a request names an approver only once it has left
`pending` (`AnswersAreFinal`).  Hence an exchange is, on the tables of
`Sessions`, one more `Begins`, and the lemmas about the four effects apply to
the composition unchanged; the rest follows one request (`RequestStep`), the
account (`AccountStep`) and one route (`RouteStep`) through a step.

`AttachmentsProofs` proves, for any number of workers, ciphers and ids and every
size, quota and limit of the cron, `AttachmentsTypeCorrect`,
`ShownAttachmentsHaveBytes` (`UploadedHasBytes`),
`AttachmentsStayOnOwnCiphers` (`AttachmentsOfOwnCiphers`) and
`StorageStaysWithinQuota` (`StorageWithinQuota`).  `UploadedHasBytes` is
far from inductive: it survives a compensation only because of what the other
requests for the same key know.  `AttachmentsInv` (theorem
`AttachmentsInvariant`) adds that requests work on ids that were drawn
(`IdsInUse`), that the upload of an allocated id works on a row whose id was
answered (`KnownIds`) while a direct upload is alone with its id until its row is
shown (`OwnIds`), that a request about to mark a pending row has its object
(`MarksStored`), and that only what is not shown, and cannot be marked by others,
is undone (`UndoesUnshown`).  The argument follows one row and one request: every
step has one of five effects on a row (`RowEffect`) and one of six on a request
(`RequestEffect`), and an object is lost without a record only in an undoing
(`ObjectEffect`).  For the quota, a sum of sizes is the number of the bytes it
stands for (`Bytes`), so that a step which counts one row more adds that row's bytes
to a finite set (`QuotaHolds`).  Only an allocation and a renewal may count a row
more, and both check the sum; that marking a row does not is `LeasesHold`: a request
that has yet to mark a pending row has its reservation in force, so the row was
counted already.

`AccountPurgeProofs` proves every safety property of the run `purge`, for any
inventory, page size, number of deletions and of overlapping calls:
`PurgeTypeCorrect`, `CountedIsGone`, `RowsGoAfterTheirObjects`, `ProgressIsMonotone`
and `RecoveryExcludesPurge`.  The progress is a count, so the proof first shows
that ranks in the inventory are positive, strictly increasing and at most its
size, hence that a page holds at most `PageSize` keys and that a call which
deleted the page at its base has reached the next key (`PageReaches`).
`PurgeInv` (theorem `PurgeInvariant`) then adds that the inventory is what was
expected and no more is counted (`CountsAgree`), that a call never loses the deletion it works for and
that the recorded progress has passed its base (`CallsInStep`): a count recorded
by a slow call leaves no gap before it.  That no object of a row is left when a
call finalizes follows from the progress it has recorded itself
(`FinalizeComplete`), and so needs no seal.  The
assumptions are those of `AccountPurge`: the keys are a finite set of naturals,
which stands for the order of object keys, and pages are not empty.

`VaultProofs` proves every property of the run `vault`, for any number of records,
requests, user keys and times, from the assumptions of `Vault` (ids and keys are
distinct): `TypeCorrect`, `SharedAreStripped`, `OneGenerationLeft`,
`NoOlderCiphertext` and `OnlySeenIsOverwritten`.  The argument is about times.
`IInv` (theorem `VaultInvariant`) says that a pending request has a time that no
row, no other request and nothing a client has seen carries (`Apart`), so whatever
it writes into a row makes the row differ from all that others have read of it;
that what a rotation's client saw of a record is what is stored, or is told from
it by its date (`SeenRowsStay`); that an edit whose revision is still the
row's, of a row under the present key, is under that key too (`EditsOfKey`); and
that a rotation which is about to write was compared with its request
(`Matched`).  That a
cipher in the trash and an upload under way refuse a rotation is needed for
`OneGenerationLeft`.

`OrganizationsProofs` proves every property of the run `organizations`, for any
number of members, groups, collections, times and batches: `TypeCorrect`,
`OwnerRemains`, `OffboardingHolds`, `AdminsBelow` and `AccessChangesNoticed`.
`OwnerRemains` goes through each way of ceasing to be an enabled owner (demotion,
removal, revocation, removal of a factor, deletion, the policy itself) and the
clause that refuses the last one.  `AdminsBelow` needs that a group an admin may
touch holds members of type user only, before and after its change.

`AccountCodesProofs` proves every property of the run `account_codes`, for any
number of addresses, requests, codes and sessions: `TypeCorrect`,
`VerifiedWasProven`, `IndexesHold`, `AnsweredGoOut`, `DeletionsOfOwner` and
`LatestActs`.  None of the batches compares addresses with the mail a code went
out with; they compare security stamps.  `IInv` (theorem `CodesInvariant`) says
why that is enough: a stamp that a code or a request carries is the account's
only while the account has the address it had when the stamp was read
(`Remembers`, `AddressedTo`), because a change of the address draws a new one.
`Latest` adds that an active code is the last of its purpose.

`LoginDefenseProofs` proves both properties of the run `login_defense`, for any
number of attempts at once, any number of clients, and any policy, attempt length
and horizon that the assumptions of `LoginDefense` admit: `TypesHold` and
`GuessesStayBounded`.  `GuessesAreBounded` counts guesses of a period against two
windows of the account bucket: each lets through its limit less one, and when its
lock falls, the other attempts that are past the gate.  `LoginDefenseInv` says
where in this a state is.  `Within` bounds, by the bucket's count and start, what
the period holds (`Guesses`) together with what is still coming (`Past`, the
attempts that read the bucket before it locked); a window that began before the
period has counted at least one failure outside it.  The step that matters most is
an attempt that passes the gate of a bucket at its limit (`PassesAnOpenLock`): its
lock is over at a time of the period, so the bucket was written at least a window
before, and the period holds nothing yet.  `GuessesHaveTheirBucket` relates guesses
to the bucket whose times are those of attempts and hence up to `Lifetime` old, and
shows that retention removes a bucket only when no period can hold its guesses
together with later ones.

The period has to be shorter than a window by two attempts, and the attempts in
flight count twice.  A bound for a full window that counts them once, as the
policy suggests, holds for two attempts at a time and fails for three (TLC finds
the behaviour at a limit, window and lockout of 2 and attempts of 1): a failure
that took its time earlier and is counted after the lock moves `locked_until`
back, so that the lock ends up to one attempt early and a second batch of attempts
passes within the same window.

Model-checked only: `PurgesEnd`, which is out of this prover's reach for liveness
and `ENABLED`.  Every other property of a run that passes is a theorem.  The type
invariants of the modules whose runs do not check them are proved as well.

## Not modelled

`PROJECT.json` gives the reason for each component.  The main ones:

- Sends and emergency access have repositories but no routes: `app.ts` answers
  their paths with `unsupportedPremiumFeature`.
- Personal API keys are off by default; their grant opens a session as a password
  grant does, without asking for the second factor.
- WebAuthn, request quotas and initial setup write in single batches or
  statements that repeat every check: there is no state read before and used
  after.
- The notification hub, the inquiry inbox, company settings, audit rows, the web
  client and the operators' scripts keep no state that the modelled components
  decide on.

In the modelled components: cryptography and encodings (hashes, wrapped keys, JWT
signing, sealing of messages) are replaced by the equalities the code decides on;
audit rows and notifications that a handler emits after its batch are left out;
each module has one account, except `Organizations`, which has the members of one
organization (a batch of one account touches rows of another only there); the
three-strikes rule of the TOTP step-up, the rows of TOTP challenges and the
`auth_attempts` log; ciphers of organizations after the share; flags of grants,
expected revisions, expiry and rate limits of invitations; quotas of challenges
and codes.

## What is left

In the order of its worth: the grant of personal API keys as a further way into
`Sessions`; an abstract specification of the account's defence (a counter of
guesses with a lock) that `LoginDefense` implements up to the attempts in flight;
ciphers of organizations, whose edits depend on grants, as a composition of `Vault`
and `Organizations`; Sends, once they are mounted.
