------------------------------ MODULE Sessions ------------------------------
(***************************************************************************)
(* The login sessions of one account: its row of users, its row of         *)
(* user_totp, its devices and its refresh_tokens, and the HTTP requests    *)
(* that read and write them.                                               *)
(*                                                                         *)
(* Every request is one worker invocation that reads rows, awaits, and     *)
(* later sends one D1 batch.  A batch is atomic, but the rows may have     *)
(* changed since they were read, so every WHERE clause of the batch is     *)
(* part of the action that models it, and flight[w] holds exactly what     *)
(* the handler remembers from its reads.                                   *)
(*                                                                         *)
(* A refresh token's id, a security stamp and an encrypted TOTP secret are *)
(* fresh UUIDs or ciphertexts, so each is taken from a set of values not   *)
(* used before.  session_id is the id of the first refresh token of the    *)
(* family.  credential_generation is minted when a secret is enabled, and  *)
(* no secret is enabled twice, so a secret also names its generation.      *)
(***************************************************************************)
EXTENDS Naturals

CONSTANTS Workers,    \* concurrent invocations
          Devices,    \* device identifiers of the account
          Tokens,     \* refresh token ids, which also name sessions
          Stamps,     \* security stamps
          Passwords,  \* master password hashes
          Secrets,    \* encrypted TOTP secrets
          Steps,      \* TOTP time steps a code can match
          Null        \* SQL NULL

ASSUME StepsAssumption == Steps \subseteq Nat \ {0}
ASSUME NullAssumption ==
  Null \notin Devices \cup Tokens \cup Stamps \cup Passwords \cup Secrets
ASSUME DisjointAssumption == Stamps \cap Secrets = {}

VARIABLES user,     \* the account's row of users
          factor,   \* the account's row of user_totp
          spent,    \* stamps and secrets that can no longer be drawn
          devices,  \* rows of devices by identifier
          tokens,   \* rows of refresh_tokens by id
          expired,  \* tokens past expires_at
          access,   \* claims of every access token signed so far
          flight    \* the request each worker is serving

vars == <<user, factor, spent, devices, tokens, expired, access, flight>>

-----------------------------------------------------------------------------
(* Rows *)

Methods == {"password", "refresh", "api_key", "auth_request"}

UserRow   == [stamp : Stamps, password : Passwords, disabled : BOOLEAN]
FactorRow ==
  {row \in [status : {"none", "pending", "enabled"},
            secret : Secrets \cup {Null},
            last : Nat,                        \* 0 stands for NULL
            next : Secrets \cup {Null}] :      \* pending_encrypted_secret
     row.status # "none" => row.secret # Null}
DeviceRow ==
  {row \in [status : {"none", "live", "revoked"},
            session : Tokens \cup {Null},
            mfa : Secrets \cup {Null}] :
     row.status # "none" => row.session # Null}
TokenRow  ==
  {row \in [status : {"unused", "live", "revoked", "deleted"},
            device : Devices \cup {Null},
            session : Tokens \cup {Null}] :
     row.status # "unused" => row.device # Null /\ row.session # Null}
Claims    == [device : Devices, session : Tokens, stamp : Stamps,
              method : Methods]
Request   ==
  {r \in [op : {"idle", "password", "rotate", "invalidate", "authed",
                "enroll", "code", "change", "promote"},
          device : Devices \cup {Null}, session : Tokens \cup {Null},
          token : Tokens \cup {Null}, stamp : Stamps \cup {Null},
          password : Passwords \cup {Null},
          method : Methods \cup {Null},
          factor : Secrets \cup {Null}, next : Secrets \cup {Null},
          step : Nat] :
     /\ r.op # "idle" => r.device # Null /\ r.stamp # Null
     /\ r.op \notin {"idle", "password"} => r.session # Null
     /\ r.op \in {"rotate", "invalidate"} => r.token # Null
     /\ r.op \notin {"idle", "rotate", "invalidate"} => r.password # Null
     /\ r.op \in {"enroll", "code", "change"} => r.factor # Null
     /\ r.op = "promote" => r.factor # Null /\ r.next # Null}

NoFactor == [status |-> "none", secret |-> Null, last |-> 0, next |-> Null]
Unused   == [status |-> "unused", device |-> Null, session |-> Null]
Idle     == [op |-> "idle", device |-> Null, session |-> Null, token |-> Null,
             stamp |-> Null, password |-> Null, method |-> Null,
             factor |-> Null, next |-> Null, step |-> 0]

Live(d)        == devices[d].status = "live"
EnabledFactor  == IF factor.status = "enabled" THEN factor.secret ELSE Null

\* The predicate every batch of a logged-in session repeats: the device is
\* still unrevoked, still in the session that authenticated, and the account
\* is not disabled.
ActiveSession(r) ==
  /\ Live(r.device)
  /\ devices[r.device].session = r.session
  /\ ~user.disabled

\* The credential generation read before the await is still the stored one.
\* Slip: only the password hash is compared.
SamePassword(r) == ~user.disabled /\ user.password = r.password
SameGeneration(r) ==
  /\ ~user.disabled
  /\ user.stamp = r.stamp
  /\ user.password = r.password

Finish(w) == flight' = [flight EXCEPT ![w] = Idle]

-----------------------------------------------------------------------------
(* UPDATE ... SET revoked_at on sets of rows *)

TokensOf(D)  == {t \in Tokens : tokens[t].device \in D}
\* Slip: a replay revokes every family of the device.
FamilyOfDevice(d, s) == TokensOf({d})
Family(d, s) == {t \in Tokens : tokens[t].device = d /\ tokens[t].session = s}

Revoked(T) == [t \in Tokens |->
                 IF t \in T /\ tokens[t].status = "live"
                 THEN [tokens[t] EXCEPT !.status = "revoked"] ELSE tokens[t]]

Closed(D) == [d \in Devices |->
                IF d \in D /\ Live(d)
                THEN [devices[d] EXCEPT !.status = "revoked"] ELSE devices[d]]

\* The triggers of migration 0027: replacing or removing the factor clears
\* the proof of every device; the batch then records the one of the session
\* that has just shown the new factor.

\* Slip: the triggers are missing.
KeptProofs    == devices
WithoutProofs == [d \in Devices |-> [devices[d] EXCEPT !.mfa = Null]]

OnlyProof(d, secret) == [WithoutProofs EXCEPT ![d].mfa = secret]

-----------------------------------------------------------------------------
(* Opening a session: the password grant of POST /identity/connect/token *)

\* The handler reads the account, checks the password it was sent and, when
\* TOTP is enabled, a code for a step later than the last accepted one.
ReadForPassword(w, d) ==
  /\ flight[w] = Idle
  /\ ~user.disabled
  /\ \E step \in Steps \cup {0} :
       /\ IF factor.status = "enabled" THEN step > factor.last ELSE step = 0
       /\ flight' = [flight EXCEPT ![w] =
            [Idle EXCEPT !.op = "password", !.device = d,
                         !.stamp = user.stamp, !.password = user.password,
                         !.factor = EnabledFactor, !.step = step]]
  /\ UNCHANGED <<user, factor, spent, devices, tokens, expired, access>>

\* The guard of the batch that follows.  Without a code it requires that TOTP
\* is still not enabled; with one, that the generation is the one read and
\* that no request has accepted this step or a later one in between.
\* Slip: a login without a code does not ask again whether TOTP is enabled.
MayOpenWithoutCode(r) ==
  SameGeneration(r) /\ (r.factor # Null => /\ factor.secret = r.factor
                                          /\ r.step > factor.last)
MayOpen(r) ==
  /\ SameGeneration(r)
  /\ IF r.factor = Null
     THEN factor.status # "enabled"
     ELSE /\ factor.status = "enabled"
          /\ factor.secret = r.factor
          /\ r.step > factor.last

\* The three statements: upsert of the device, which starts family t with the
\* proof m, and its first refresh token.  Tokens of the device's earlier
\* families keep their rows.
\* Slip: a device that comes back keeps the session it was in.
ReopenSession(d, t, m) ==
  LET s == IF devices[d].session = Null THEN t ELSE devices[d].session IN
  /\ tokens[t].status = "unused"
  /\ devices' = [devices EXCEPT ![d] =
                   [status |-> "live", session |-> s, mfa |-> m]]
  /\ tokens' = [tokens EXCEPT ![t] =
                   [status |-> "live", device |-> d, session |-> s]]
\* Slip: the insert of the token does not name session_id, the nullable column
\* that migration 0023 added.
OpenUnbound(d, t, m) ==
  /\ tokens[t].status = "unused"
  /\ devices' = [devices EXCEPT ![d] =
                   [status |-> "live", session |-> t, mfa |-> m]]
  /\ tokens' = [tokens EXCEPT ![t] =
                   [status |-> "live", device |-> d, session |-> Null]]
OpenSession(d, t, m) ==
  /\ tokens[t].status = "unused"
  /\ devices' = [devices EXCEPT ![d] =
                   [status |-> "live", session |-> t, mfa |-> m]]
  /\ tokens' = [tokens EXCEPT ![t] =
                   [status |-> "live", device |-> d, session |-> t]]

Sign(d, s, stamp, method) ==
  access' = access \cup
    {[device |-> d, session |-> s, stamp |-> stamp, method |-> method]}

CreatePasswordGrantSession(w) ==
  LET r == flight[w] IN
  /\ r.op = "password"
  /\ \/ /\ MayOpen(r)
        /\ \E t \in Tokens :
             /\ OpenSession(r.device, t, r.factor)
             /\ Sign(r.device, t, r.stamp, "password")
        /\ factor' = IF r.factor = Null THEN factor
                     ELSE [factor EXCEPT !.last = r.step]
     \/ /\ ~MayOpen(r)                               \* stale_generation
        /\ UNCHANGED <<factor, devices, tokens, access>>
  /\ Finish(w)
  /\ UNCHANGED <<user, spent, expired>>

-----------------------------------------------------------------------------
(* Keeping a session: the refresh grant *)

\* The handler joins the token with its device and its owner.  A revoked token
\* is a replay and ends the family; otherwise the token is about to be rotated.
\* Every other case is refused without a write.
ReadForRefresh(w, t) ==
  LET row == tokens[t]
      snapshot == [Idle EXCEPT !.device = row.device, !.session = row.session,
                               !.token = t, !.stamp = user.stamp]
  IN
  /\ flight[w] = Idle
  /\ \/ /\ row.status = "revoked"
        /\ flight' = [flight EXCEPT ![w] = [snapshot EXCEPT !.op = "invalidate"]]
     \/ /\ row.status = "live"
        /\ ~user.disabled
        /\ Live(row.device)
        /\ t \notin expired
        /\ flight' = [flight EXCEPT ![w] = [snapshot EXCEPT !.op = "rotate"]]
  /\ UNCHANGED <<user, factor, spent, devices, tokens, expired, access>>

\* Slip: the insert does not look at the current token's revoked_at.
MayRotateTwice(r) ==
  Live(r.device) /\ devices[r.device].session = r.session /\ ~user.disabled
  /\ user.stamp = r.stamp
MayRotate(r) ==
  /\ tokens[r.token].status = "live"
  /\ Live(r.device)
  /\ devices[r.device].session = r.session
  /\ ~user.disabled
  /\ user.stamp = r.stamp

\* Insert the replacement, revoke the current token and touch the device in
\* one batch.  When a row was missing the family is invalidated, but by a
\* second batch: that is a later step of this worker.
RotateRefreshToken(w) ==
  LET r == flight[w] IN
  /\ r.op = "rotate"
  /\ \/ /\ MayRotate(r)
        /\ \E t \in Tokens :
             /\ tokens[t].status = "unused"
             /\ tokens' = [Revoked({r.token}) EXCEPT ![t] =
                  [status |-> "live", device |-> r.device,
                   session |-> r.session]]
        /\ Sign(r.device, r.session, r.stamp, "refresh")
        /\ Finish(w)
     \/ /\ ~MayRotate(r)                             \* reuse_detected
        /\ flight' = [flight EXCEPT ![w].op = "invalidate"]
        /\ UNCHANGED <<tokens, access>>
  /\ UNCHANGED <<user, factor, spent, devices, expired>>

\* The device is closed only if it is still in the family of the replay.
\* Slip: it is closed whatever it has logged into since.
DeviceOfReplayAnySession(r) == {r.device}
DeviceOfReplay(r) == {d \in {r.device} : devices[d].session = r.session}

InvalidateRefreshTokenSession(w) ==
  LET r == flight[w] IN
  /\ r.op = "invalidate"
  /\ tokens' = Revoked(Family(r.device, r.session))
  /\ devices' = Closed(DeviceOfReplay(r))
  /\ Finish(w)
  /\ UNCHANGED <<user, factor, spent, expired, access>>

-----------------------------------------------------------------------------
(* Requests that carry an access token *)

\* The claims name the session; the device must still be in it, and the stamp
\* must be the account's.  What the handler keeps is a snapshot.
AuthenticateVaultRequest(w, c) ==
  /\ flight[w] = Idle
  /\ c \in access
  /\ Live(c.device)
  /\ devices[c.device].session = c.session
  /\ ~user.disabled
  /\ user.stamp = c.stamp
  /\ flight' = [flight EXCEPT ![w] =
       [Idle EXCEPT !.op = "authed", !.device = c.device,
                    !.session = c.session, !.stamp = user.stamp,
                    !.password = user.password, !.method = c.method,
                    !.factor = EnabledFactor]]
  /\ UNCHANGED <<user, factor, spent, devices, tokens, expired, access>>

Authenticated(w) == flight[w].op = "authed"

\* The routes that also require a recent password login.
RecentPassword(w) == Authenticated(w) /\ flight[w].method = "password"

\* Logging out, and the third wrong step-up code in a row, end the session the
\* request came with, if the device is still in it.  Its tokens go first: the
\* statement that revokes them asks for the device to be unrevoked.
InSession(r)      == Live(r.device) /\ devices[r.device].session = r.session
\* Slip: the device row is updated first, so no token matches.
OwnTokensAfter(r) == {}
OwnTokens(r)      == {t \in Family(r.device, r.session) : InSession(r)}

RevokeCurrentDeviceSession(w) ==
  LET r == flight[w] IN
  /\ Authenticated(w)
  /\ tokens' = Revoked(OwnTokens(r))
  /\ devices' = [d \in Devices |->
                   IF d = r.device /\ InSession(r)
                   THEN [devices[d] EXCEPT !.status = "revoked", !.mfa = Null]
                   ELSE devices[d]]
  /\ Finish(w)
  /\ UNCHANGED <<user, factor, spent, expired, access>>

\* Revoking another device ends all of its families; a device that is not live
\* is reported as missing and nothing is written.
RevokeDeviceSession(w, target) ==
  /\ Authenticated(w)
  /\ target # flight[w].device
  /\ devices' = Closed({target})
  /\ tokens' = Revoked(IF Live(target) THEN TokensOf({target}) ELSE {})
  /\ Finish(w)
  /\ UNCHANGED <<user, factor, spent, expired, access>>

RevokeOtherDeviceSessions(w) ==
  LET others == Devices \ {flight[w].device} IN
  /\ RecentPassword(w)
  /\ devices' = Closed(others)
  /\ tokens' = Revoked(TokensOf(others))
  /\ Finish(w)
  /\ UNCHANGED <<user, factor, spent, expired, access>>

-----------------------------------------------------------------------------
(* Replacing the credential generation *)

\* One batch: the compare-and-set of the users row to a fresh stamp, and, if it
\* took, every device and every refresh token revoked.
\* Slip: the devices keep their sessions.
NewGenerationOfTokens(password, disabled) ==
  \E stamp \in Stamps \ spent :
    /\ user' = [stamp |-> stamp, password |-> password, disabled |-> disabled]
    /\ spent' = spent \cup {stamp}
    /\ tokens' = Revoked(Tokens)
    /\ UNCHANGED devices
NewGeneration(password, disabled) ==
  \E stamp \in Stamps \ spent :
    /\ user' = [stamp |-> stamp, password |-> password, disabled |-> disabled]
    /\ spent' = spent \cup {stamp}
    /\ devices' = Closed(Devices)
    /\ tokens' = Revoked(Tokens)

CommitCredentialGenerationMutation(w, password, disabled) ==
  /\ \/ SameGeneration(flight[w]) /\ NewGeneration(password, disabled)
     \/ /\ ~SameGeneration(flight[w])                \* revision_conflict
        /\ UNCHANGED <<user, spent, devices, tokens>>
  /\ Finish(w)
  /\ UNCHANGED <<factor, expired, access>>

\* The current password is verified against the snapshot, not the stored row.
ChangeAccountMasterPassword(w) ==
  /\ Authenticated(w)
  /\ \E p \in Passwords : CommitCredentialGenerationMutation(w, p, FALSE)

ChangeAccountKdf(w) ==
  /\ Authenticated(w)
  /\ \E p \in Passwords : CommitCredentialGenerationMutation(w, p, FALSE)

RotateAccountSecurityStamp(w) ==
  /\ RecentPassword(w)
  /\ CommitCredentialGenerationMutation(w, flight[w].password, FALSE)

BeginRecoverableAccountDeletion(w) ==
  /\ Authenticated(w)
  /\ CommitCredentialGenerationMutation(w, flight[w].password, TRUE)

\* The operator restores a disabled account under a fresh stamp; devices and
\* tokens stay revoked.
RecoverAccountDeletion ==
  /\ user.disabled
  /\ \E stamp \in Stamps \ spent :
       /\ user' = [user EXCEPT !.stamp = stamp, !.disabled = FALSE]
       /\ spent' = spent \cup {stamp}
  /\ UNCHANGED <<factor, devices, tokens, expired, access, flight>>

-----------------------------------------------------------------------------
(* The TOTP factor *)

\* Starting a setup replaces any row that is not enabled by a fresh secret; a
\* row that was there is updated, and the trigger runs.
MaySetUp(r) == ActiveSession(r) /\ factor.status # "enabled"

CreatePendingTotpSetup(w) ==
  /\ RecentPassword(w)
  /\ flight[w].factor = Null
  /\ \/ /\ MaySetUp(flight[w])
        /\ \E secret \in Secrets \ spent :
             /\ factor' = [NoFactor EXCEPT !.status = "pending",
                                           !.secret = secret]
             /\ spent' = spent \cup {secret}
        /\ devices' = IF factor.status = "none" THEN devices ELSE WithoutProofs
     \/ ~MaySetUp(flight[w]) /\ UNCHANGED <<factor, spent, devices>>
  /\ Finish(w)
  /\ UNCHANGED <<user, tokens, expired, access>>

\* The routes that take a code read the row after authenticating and check the
\* code in memory; op is the batch that follows.
ReadFactor(w, op, next) ==
  \E step \in Steps :
    /\ step > IF op = "promote" THEN 0 ELSE factor.last
    /\ flight' = [flight EXCEPT ![w] =
         [@ EXCEPT !.op = op, !.factor = factor.secret, !.next = next,
                   !.step = step]]
    /\ UNCHANGED <<user, factor, spent, devices, tokens, expired, access>>

ReadForSetupVerify(w) ==
  RecentPassword(w) /\ factor.status # "none" /\ ReadFactor(w, "enroll", Null)
ReadForStepUp(w) ==
  Authenticated(w) /\ factor.status = "enabled" /\ ReadFactor(w, "code", Null)
ReadForChange(w) ==
  /\ RecentPassword(w) /\ flight[w].factor # Null
  /\ factor.status = "enabled" /\ ReadFactor(w, "change", Null)
ReadForChangeVerify(w) ==
  /\ RecentPassword(w) /\ factor.status = "enabled" /\ factor.next # Null
  /\ ReadFactor(w, "promote", factor.next)

\* Enrolling: the pending secret must be the one whose code was checked.
MayEnroll(r) ==
  /\ factor.status = "pending"
  /\ factor.secret = r.factor
  /\ r.step > factor.last
  /\ ActiveSession(r)

EnableTotpSetup(w) ==
  LET r == flight[w] IN
  /\ r.op = "enroll"
  /\ \/ /\ MayEnroll(r)
        /\ factor' = [factor EXCEPT !.status = "enabled", !.last = r.step]
        /\ devices' = OnlyProof(r.device, r.factor)
     \/ ~MayEnroll(r) /\ UNCHANGED <<factor, devices>>
  /\ Finish(w)
  /\ UNCHANGED <<user, spent, tokens, expired, access>>

\* A code for the enabled factor is consumed, and in the same batch the
\* session of the request is marked as having shown it.
\* Slip: only the read looks at the last accepted step.
MayConsumeAgain(r) ==
  factor.status = "enabled" /\ factor.secret = r.factor /\ ActiveSession(r)
MayConsume(r) ==
  /\ factor.status = "enabled"
  /\ factor.secret = r.factor
  /\ r.step > factor.last
  /\ ActiveSession(r)

ConsumeTotpSessionStepUp(w) ==
  LET r == flight[w] IN
  /\ r.op = "code"
  /\ \/ /\ MayConsume(r)
        /\ factor' = [factor EXCEPT !.last = r.step]
        /\ devices' = [devices EXCEPT ![r.device].mfa = r.factor]
     \/ ~MayConsume(r) /\ UNCHANGED <<factor, devices>>
  /\ Finish(w)
  /\ UNCHANGED <<user, spent, tokens, expired, access>>

StartPendingTotpChange(w) ==
  LET r == flight[w] IN
  /\ r.op = "change"
  /\ \/ /\ MayConsume(r)
        /\ \E secret \in Secrets \ spent :
             /\ factor' = [factor EXCEPT !.last = r.step, !.next = secret]
             /\ spent' = spent \cup {secret}
        /\ devices' = [devices EXCEPT ![r.device].mfa = r.factor]
     \/ ~MayConsume(r) /\ UNCHANGED <<factor, spent, devices>>
  /\ Finish(w)
  /\ UNCHANGED <<user, tokens, expired, access>>

\* The pending secret takes the place of the enabled one.  Its last accepted
\* step starts from the code just shown.
MayPromote(r) ==
  /\ factor.status = "enabled"
  /\ factor.secret = r.factor
  /\ factor.next = r.next
  /\ ActiveSession(r)

PromotePendingTotpChange(w) ==
  LET r == flight[w] IN
  /\ r.op = "promote"
  /\ \/ /\ MayPromote(r)
        /\ factor' = [status |-> "enabled", secret |-> r.next,
                      last |-> r.step, next |-> Null]
        /\ devices' = OnlyProof(r.device, r.next)
     \/ ~MayPromote(r) /\ UNCHANGED <<factor, devices>>
  /\ Finish(w)
  /\ UNCHANGED <<user, spent, tokens, expired, access>>

\* The row is deleted only under the generation read with the account.
DisableTotpSetup(w) ==
  LET r == flight[w]
      may == factor.status = "enabled" /\ factor.secret = r.factor
             /\ ActiveSession(r)
  IN
  /\ RecentPassword(w)
  /\ r.factor # Null
  /\ \/ may /\ factor' = NoFactor /\ devices' = WithoutProofs
     \/ ~may /\ UNCHANGED <<factor, devices>>
  /\ Finish(w)
  /\ UNCHANGED <<user, spent, tokens, expired, access>>

-----------------------------------------------------------------------------
(* Time, retention and failed invocations *)

Expire(t) ==
  /\ tokens[t].status \in {"live", "revoked"}
  /\ t \notin expired
  /\ expired' = expired \cup {t}
  /\ UNCHANGED <<user, factor, spent, devices, tokens, access, flight>>

\* The retention cron deletes rows some days after they expired.
DeleteExpiredRefreshTokens(t) ==
  /\ t \in expired
  /\ tokens[t].status \in {"live", "revoked"}
  /\ tokens' = [tokens EXCEPT ![t].status = "deleted"]
  /\ UNCHANGED <<user, factor, spent, devices, expired, access, flight>>

\* An invocation can end between any two of its steps: an error, a rejected
\* input, a lost connection to D1, or the platform stopping it.
Abandon(w) ==
  /\ flight[w] # Idle
  /\ Finish(w)
  /\ UNCHANGED <<user, factor, spent, devices, tokens, expired, access>>

-----------------------------------------------------------------------------
Init ==
  /\ \E stamp \in Stamps, p \in Passwords :
       /\ user = [stamp |-> stamp, password |-> p, disabled |-> FALSE]
       /\ spent = {stamp}
  /\ factor = NoFactor
  /\ devices = [d \in Devices |->
                  [status |-> "none", session |-> Null, mfa |-> Null]]
  /\ tokens = [t \in Tokens |-> Unused]
  /\ expired = {}
  /\ access = {}
  /\ flight = [w \in Workers |-> Idle]

Grants(w) ==
  \/ \E d \in Devices : ReadForPassword(w, d)
  \/ CreatePasswordGrantSession(w)
  \/ \E t \in Tokens : ReadForRefresh(w, t)
  \/ RotateRefreshToken(w)
  \/ InvalidateRefreshTokenSession(w)

Revocations(w) ==
  \/ \E c \in access : AuthenticateVaultRequest(w, c)
  \/ RevokeCurrentDeviceSession(w)
  \/ \E d \in Devices : RevokeDeviceSession(w, d)
  \/ RevokeOtherDeviceSessions(w)

Credentials(w) ==
  \/ ChangeAccountMasterPassword(w)
  \/ ChangeAccountKdf(w)
  \/ RotateAccountSecurityStamp(w)
  \/ BeginRecoverableAccountDeletion(w)

Factors(w) ==
  \/ CreatePendingTotpSetup(w)
  \/ ReadForSetupVerify(w)
  \/ ReadForStepUp(w)
  \/ ReadForChange(w)
  \/ ReadForChangeVerify(w)
  \/ EnableTotpSetup(w)
  \/ ConsumeTotpSessionStepUp(w)
  \/ StartPendingTotpChange(w)
  \/ PromotePendingTotpChange(w)
  \/ DisableTotpSetup(w)

Next ==
  \/ \E w \in Workers : Grants(w) \/ Revocations(w) \/ Credentials(w)
                        \/ Factors(w) \/ Abandon(w)
  \/ RecoverAccountDeletion
  \/ \E t \in Tokens : Expire(t) \/ DeleteExpiredRefreshTokens(t)

Spec == Init /\ [][Next]_vars

-----------------------------------------------------------------------------
(* Properties *)

\* Every table and every snapshot holds rows of its shape: a stored row and a
\* request past its first read have their columns filled in.
TypeOK ==
  /\ user \in UserRow
  /\ factor \in FactorRow
  /\ spent \subseteq Stamps \cup Secrets
  /\ devices \in [Devices -> DeviceRow]
  /\ tokens \in [Tokens -> TokenRow]
  /\ expired \subseteq Tokens
  /\ access \subseteq Claims
  /\ flight \in [Workers -> Request]

\* However refreshes of one token race, retry or replay it, a family never
\* holds two refresh tokens that still work (rotateRefreshToken inserts the
\* replacement only while the current token is unrevoked).
OneLiveTokenPerFamily ==
  \A t, u \in Tokens :
    /\ tokens[t].status = "live" /\ tokens[u].status = "live"
    /\ tokens[t].session = tokens[u].session
    => t = u

\* No interleaving of rotation, replay detection and revocation strands a
\* logged-in device: its family has a token that works, unless the token
\* expired.
LiveDeviceCanRefresh ==
  \A d \in Devices : Live(d) =>
    \E t \in Family(d, devices[d].session) :
      tokens[t].status = "live" \/ t \in expired

\* A device that was revoked, by any route, keeps no working token of the
\* session it was in.
RevokedDeviceIsCutOff ==
  \A d \in Devices : devices[d].status = "revoked" =>
    \A t \in Family(d, devices[d].session) : tokens[t].status # "live"

\* A session that is live was opened under the account's present security
\* stamp: no grant in flight while the credentials changed can leave a session
\* of the old generation behind, and a disabled account has none.
LiveSessionsAreCurrent ==
  /\ user.disabled => \A d \in Devices : ~Live(d)
  /\ \A c \in access :
       Live(c.device) /\ devices[c.device].session = c.session
       => c.stamp = user.stamp

\* A device is marked as having shown TOTP only for the factor that is enabled
\* now: replacing or removing the factor voids every earlier proof, and no
\* request in flight can put one back.
ProofsAreOfTheEnabledFactor ==
  \A d \in Devices : devices[d].mfa # Null => devices[d].mfa = EnabledFactor

Authenticates(c) ==
  /\ Live(c.device) /\ devices[c.device].session = c.session
  /\ ~user.disabled /\ user.stamp = c.stamp

\* An access token that was signed and no longer authenticates never does
\* again: no later login, refresh, stamp or recovery revives it.
AccessNeverRevives ==
  [][\A c \in access : ~Authenticates(c) => ~Authenticates(c)']_vars

\* A session opened while a factor is enabled has shown a code of it: a factor
\* enabled between the handler's read and its batch is not bypassed.
NewSessionsShowTheFactor ==
  [][\A d \in Devices :
       /\ devices'[d].session # devices[d].session
       /\ factor'.status = "enabled"
       => devices'[d].mfa = factor'.secret]_vars

\* The code of a time step is accepted once per factor: concurrent logins,
\* step-ups and changes never move the last accepted step back, a session gains
\* its proof only by a later code than any accepted before, and a secret that
\* was replaced is never enrolled again.
GainsProof(d) ==
  /\ devices'[d].mfa = factor.secret
  /\ devices[d].mfa # factor.secret \/ devices'[d].session # devices[d].session
CodesAreAcceptedOnce ==
  [][/\ factor'.secret = factor.secret /\ factor.status = "enabled" =>
          /\ factor'.last >= factor.last
          /\ (\E d \in Devices : GainsProof(d)) => factor'.last > factor.last
     /\ factor'.secret # factor.secret
          => factor'.secret \in (Secrets \ spent) \cup {factor.next, Null}]_vars

\* Replaying an old refresh token ends at most its own family: a login made
\* after the replay was read is left alone.
ReplayEndsOnlyItsFamily ==
  [][\A w \in Workers : flight[w].op = "invalidate" /\ flight'[w] = Idle =>
       \A d \in Devices : Live(d) /\ devices[d].session # flight[w].session
                          => devices'[d] = devices[d]]_vars

Authority == INSTANCE SessionAuthority WITH
  Sessions  <- Tokens,
  Epochs    <- Stamps,
  None      <- Null,
  epoch     <- user.stamp,
  suspended <- user.disabled,
  used      <- spent \cap Stamps,
  open      <- [d \in Devices |-> IF Live(d) THEN devices[d].session ELSE Null],
  begun     <- {t \in Tokens : tokens[t].session = t},
  issued    <- {[device |-> c.device, session |-> c.session,
                 epoch |-> c.stamp] : c \in access}

\* The tables and their batches, with every interleaving of requests between
\* them, keep what SessionAuthority promises: claims are signed only for a
\* session that is open under the present stamp, no session is opened twice,
\* and a new stamp closes every session.
ImplementsAuthority == Authority!Spec
=============================================================================
