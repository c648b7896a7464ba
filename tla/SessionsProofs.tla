--------------------------- MODULE SessionsProofs ---------------------------
(* Proofs about Sessions for every set of workers, devices, tokens, stamps, *)
(* passwords, secrets and time steps.                                       *)
EXTENDS Sessions, TLAPS

USE NullAssumption, StepsAssumption, DisjointAssumption

-----------------------------------------------------------------------------
(* What the row operators return *)

LEMMA RevokedType ==
  ASSUME TypeOK, NEW T
  PROVE  Revoked(T) \in [Tokens -> TokenRow]
BY DEF TypeOK, Revoked, TokenRow

LEMMA ClosedType ==
  ASSUME TypeOK, NEW D
  PROVE  Closed(D) \in [Devices -> DeviceRow]
BY DEF TypeOK, Closed, Live, DeviceRow

LEMMA WithoutProofsType ==
  ASSUME TypeOK
  PROVE  WithoutProofs \in [Devices -> DeviceRow]
BY DEF TypeOK, WithoutProofs, DeviceRow

LEMMA OnlyProofType ==
  ASSUME TypeOK, NEW d \in Devices, NEW secret \in Secrets
  PROVE  OnlyProof(d, secret) \in [Devices -> DeviceRow]
BY WithoutProofsType DEF OnlyProof, DeviceRow

LEMMA IdleType == Idle \in Request
BY DEF Idle, Request

LEMMA FinishType ==
  ASSUME TypeOK, NEW w \in Workers, Finish(w)
  PROVE  flight' \in [Workers -> Request]
BY IdleType DEF TypeOK, Finish

LEMMA EnabledFactorType ==
  ASSUME TypeOK
  PROVE  EnabledFactor \in Secrets \cup {Null}
BY DEF TypeOK, EnabledFactor, FactorRow

\* A request past its first read carries what its next batch needs.
LEMMA RequestColumns ==
  ASSUME TypeOK, NEW w \in Workers
  PROVE  /\ flight[w] \in Request
         /\ flight[w].op # "idle" => /\ flight[w].device \in Devices
                                     /\ flight[w].stamp \in Stamps
         /\ flight[w].op \notin {"idle", "password"} =>
              flight[w].session \in Tokens
         /\ flight[w].op \in {"rotate", "invalidate"} =>
              flight[w].token \in Tokens
         /\ flight[w].op \notin {"idle", "rotate", "invalidate"} =>
              flight[w].password \in Passwords
         /\ flight[w].op \in {"enroll", "code", "change", "promote"} =>
              flight[w].factor \in Secrets
         /\ flight[w].op = "promote" => flight[w].next \in Secrets
         /\ flight[w].factor \in Secrets \cup {Null}
         /\ flight[w].step \in Nat
BY DEF TypeOK, Request

-----------------------------------------------------------------------------
(* Type correctness *)

LEMMA TypeInit == Init => TypeOK
<1> SUFFICES ASSUME Init PROVE TypeOK
  OBVIOUS
<1>1. user \in UserRow /\ spent \subseteq Stamps \cup Secrets
  BY DEF Init, UserRow
<1>2. factor \in FactorRow
  BY DEF Init, NoFactor, FactorRow
<1>3. devices \in [Devices -> DeviceRow]
  BY DEF Init, DeviceRow
<1>4. tokens \in [Tokens -> TokenRow]
  BY DEF Init, Unused, TokenRow
<1>5. expired \subseteq Tokens /\ access \subseteq Claims
  BY DEF Init
<1>6. flight \in [Workers -> Request]
  BY IdleType DEF Init
<1> QED
  BY <1>1, <1>2, <1>3, <1>4, <1>5, <1>6 DEF TypeOK

LEMMA TypeGrants ==
  ASSUME TypeOK, NEW w \in Workers, Grants(w)
  PROVE  TypeOK'
<1>1. ASSUME NEW d \in Devices, ReadForPassword(w, d)
      PROVE  TypeOK'
  <2>1. PICK step \in Steps \cup {0} :
          flight' = [flight EXCEPT ![w] =
            [Idle EXCEPT !.op = "password", !.device = d,
                         !.stamp = user.stamp, !.password = user.password,
                         !.factor = EnabledFactor, !.step = step]]
    BY <1>1 DEF ReadForPassword
  <2>2. /\ user.stamp \in Stamps /\ user.password \in Passwords
        /\ step \in Nat /\ EnabledFactor \in Secrets \cup {Null}
    BY EnabledFactorType DEF TypeOK, UserRow
  <2>3. [Idle EXCEPT !.op = "password", !.device = d,
                     !.stamp = user.stamp, !.password = user.password,
                     !.factor = EnabledFactor, !.step = step] \in Request
    BY <2>2 DEF Idle, Request
  <2>4. flight' \in [Workers -> Request]
    BY <2>1, <2>3 DEF TypeOK
  <2> QED
    BY <1>1, <2>4 DEF ReadForPassword, TypeOK
<1>2. CASE CreatePasswordGrantSession(w)
  <2>1. flight' \in [Workers -> Request]
    BY <1>2, FinishType DEF CreatePasswordGrantSession
  <2>2. flight[w].device \in Devices /\ flight[w].stamp \in Stamps
    BY <1>2, RequestColumns DEF CreatePasswordGrantSession
  <2>3. flight[w].factor \in Secrets \cup {Null} /\ flight[w].step \in Nat
    BY RequestColumns
  <2>4. CASE MayOpen(flight[w])
    <3>1. PICK t \in Tokens :
            /\ OpenSession(flight[w].device, t, flight[w].factor)
            /\ Sign(flight[w].device, t, flight[w].stamp, "password")
      BY <1>2, <2>4 DEF CreatePasswordGrantSession
    <3>2. devices' \in [Devices -> DeviceRow]
      BY <3>1, <2>2, <2>3 DEF OpenSession, TypeOK, DeviceRow
    <3>3. tokens' \in [Tokens -> TokenRow]
      BY <3>1, <2>2 DEF OpenSession, TypeOK, TokenRow
    <3>4. access' \subseteq Claims
      BY <3>1, <2>2 DEF Sign, TypeOK, Claims, Methods
    <3>5. factor' \in FactorRow
      BY <1>2, <2>3, <2>4 DEF CreatePasswordGrantSession, TypeOK, FactorRow
    <3> QED
      BY <1>2, <2>1, <3>2, <3>3, <3>4, <3>5
      DEF CreatePasswordGrantSession, TypeOK
  <2>5. CASE ~MayOpen(flight[w])
    BY <1>2, <2>1, <2>5 DEF CreatePasswordGrantSession, TypeOK
  <2> QED
    BY <2>4, <2>5
<1>3. ASSUME NEW t \in Tokens, ReadForRefresh(w, t)
      PROVE  TypeOK'
  <2>1. tokens[t].device \in Devices /\ tokens[t].session \in Tokens
        /\ user.stamp \in Stamps
    BY <1>3 DEF ReadForRefresh, TypeOK, TokenRow, UserRow
  <2>2. PICK op \in {"invalidate", "rotate"} :
          flight' = [flight EXCEPT ![w] =
            [Idle EXCEPT !.device = tokens[t].device,
                         !.session = tokens[t].session,
                         !.token = t, !.stamp = user.stamp, !.op = op]]
    BY <1>3 DEF ReadForRefresh, Idle
  <2>3. [Idle EXCEPT !.device = tokens[t].device,
                     !.session = tokens[t].session,
                     !.token = t, !.stamp = user.stamp, !.op = op] \in Request
    BY <2>1 DEF Idle, Request
  <2>4. flight' \in [Workers -> Request]
    BY <2>2, <2>3 DEF TypeOK
  <2> QED
    BY <1>3, <2>4 DEF ReadForRefresh, TypeOK
<1>4. CASE RotateRefreshToken(w)
  <2>1. /\ flight[w].device \in Devices /\ flight[w].stamp \in Stamps
        /\ flight[w].session \in Tokens /\ flight[w].token \in Tokens
    BY <1>4, RequestColumns DEF RotateRefreshToken
  <2>2. flight' \in [Workers -> Request]
    <3>1. [flight[w] EXCEPT !.op = "invalidate"] \in Request
      BY <1>4, RequestColumns DEF RotateRefreshToken, Request
    <3>2. flight[w].op # "idle" /\ (Finish(w)
          \/ flight' = [flight EXCEPT ![w] = [flight[w] EXCEPT !.op = "invalidate"]])
      BY <1>4 DEF RotateRefreshToken, TypeOK
    <3> QED
      BY <3>1, <3>2, FinishType DEF TypeOK
  <2>3. tokens' \in [Tokens -> TokenRow]
    <3>1. CASE tokens' = tokens
      BY <3>1 DEF TypeOK
    <3>2. ASSUME NEW t \in Tokens,
                 tokens' = [Revoked({flight[w].token}) EXCEPT ![t] =
                   [status |-> "live", device |-> flight[w].device,
                    session |-> flight[w].session]]
          PROVE  tokens' \in [Tokens -> TokenRow]
      BY <3>2, <2>1, RevokedType DEF TokenRow
    <3> QED
      BY <1>4, <3>1, <3>2 DEF RotateRefreshToken
  <2>4. access' \subseteq Claims
    BY <1>4, <2>1 DEF RotateRefreshToken, Sign, TypeOK, Claims, Methods
  <2> QED
    BY <1>4, <2>2, <2>3, <2>4 DEF RotateRefreshToken, TypeOK
<1>5. CASE InvalidateRefreshTokenSession(w)
  BY <1>5, FinishType, RevokedType, ClosedType
  DEF InvalidateRefreshTokenSession, TypeOK
<1> QED
  BY <1>1, <1>2, <1>3, <1>4, <1>5 DEF Grants

LEMMA TypeRevocations ==
  ASSUME TypeOK, NEW w \in Workers, Revocations(w)
  PROVE  TypeOK'
<1>1. ASSUME NEW c \in access, AuthenticateVaultRequest(w, c)
      PROVE  TypeOK'
  <2>1. /\ c.device \in Devices /\ c.session \in Tokens /\ c.method \in Methods
        /\ user.stamp \in Stamps /\ user.password \in Passwords
        /\ EnabledFactor \in Secrets \cup {Null}
    BY EnabledFactorType DEF TypeOK, Claims, UserRow
  <2>2. [Idle EXCEPT !.op = "authed", !.device = c.device,
                     !.session = c.session, !.stamp = user.stamp,
                     !.password = user.password, !.method = c.method,
                     !.factor = EnabledFactor] \in Request
    BY <2>1 DEF Idle, Request
  <2>3. flight' = [flight EXCEPT ![w] =
          [Idle EXCEPT !.op = "authed", !.device = c.device,
                       !.session = c.session, !.stamp = user.stamp,
                       !.password = user.password, !.method = c.method,
                       !.factor = EnabledFactor]]
    BY <1>1 DEF AuthenticateVaultRequest
  <2>4. flight' \in [Workers -> Request]
    BY <2>2, <2>3 DEF TypeOK
  <2> QED
    BY <1>1, <2>4 DEF AuthenticateVaultRequest, TypeOK
<1>2. CASE RevokeCurrentDeviceSession(w)
  <2>1. \A row \in DeviceRow : row.status = "live" =>
          [row EXCEPT !.status = "revoked", !.mfa = Null] \in DeviceRow
    BY DEF DeviceRow
  <2>2. devices' \in [Devices -> DeviceRow]
    BY <1>2, <2>1 DEF RevokeCurrentDeviceSession, InSession, Live, TypeOK
  <2> QED
    BY <1>2, <2>2, FinishType, RevokedType
    DEF RevokeCurrentDeviceSession, TypeOK
<1>3. ASSUME NEW d \in Devices, RevokeDeviceSession(w, d)
      PROVE  TypeOK'
  BY <1>3, FinishType, RevokedType, ClosedType DEF RevokeDeviceSession, TypeOK
<1>4. CASE RevokeOtherDeviceSessions(w)
  BY <1>4, FinishType, RevokedType, ClosedType
  DEF RevokeOtherDeviceSessions, TypeOK
<1> QED
  BY <1>1, <1>2, <1>3, <1>4 DEF Revocations

LEMMA TypeCommit ==
  ASSUME TypeOK, NEW w \in Workers, NEW p \in Passwords,
         NEW disabled \in BOOLEAN,
         CommitCredentialGenerationMutation(w, p, disabled)
  PROVE  TypeOK'
<1>1. CASE NewGeneration(p, disabled)
  <2>1. PICK stamp \in Stamps \ spent :
          /\ user' = [stamp |-> stamp, password |-> p, disabled |-> disabled]
          /\ spent' = spent \cup {stamp}
    BY <1>1 DEF NewGeneration
  <2>2. user' \in UserRow
    BY <2>1 DEF UserRow
  <2> QED
    BY <1>1, <2>1, <2>2, FinishType, RevokedType, ClosedType
    DEF CommitCredentialGenerationMutation, NewGeneration, TypeOK
<1>2. CASE UNCHANGED <<user, spent, devices, tokens>>
  BY <1>2, FinishType DEF CommitCredentialGenerationMutation, TypeOK
<1> QED
  BY <1>1, <1>2 DEF CommitCredentialGenerationMutation

LEMMA TypeCredentials ==
  ASSUME TypeOK, NEW w \in Workers, Credentials(w)
  PROVE  TypeOK'
<1>1. CASE ChangeAccountMasterPassword(w)
  BY <1>1, TypeCommit DEF ChangeAccountMasterPassword
<1>2. CASE ChangeAccountKdf(w)
  BY <1>2, TypeCommit DEF ChangeAccountKdf
<1>3. CASE RotateAccountSecurityStamp(w)
  BY <1>3, TypeCommit, RequestColumns
  DEF RotateAccountSecurityStamp, RecentPassword, Authenticated
<1>4. CASE BeginRecoverableAccountDeletion(w)
  BY <1>4, TypeCommit, RequestColumns
  DEF BeginRecoverableAccountDeletion, Authenticated
<1> QED
  BY <1>1, <1>2, <1>3, <1>4 DEF Credentials

LEMMA TypeReadFactor ==
  ASSUME TypeOK, NEW w \in Workers, Authenticated(w),
         factor.status # "none",
         NEW op \in {"enroll", "code", "change", "promote"},
         NEW next \in Secrets \cup {Null}, op = "promote" => next # Null,
         ReadFactor(w, op, next)
  PROVE  TypeOK'
<1>1. PICK step \in Steps :
        /\ flight' = [flight EXCEPT ![w] =
             [flight[w] EXCEPT !.op = op, !.factor = factor.secret,
                               !.next = next, !.step = step]]
        /\ UNCHANGED <<user, factor, spent, devices, tokens, expired, access>>
  BY DEF ReadFactor, TypeOK
<1>2. factor.secret \in Secrets /\ step \in Nat
  BY DEF TypeOK, FactorRow
<1>3. [flight[w] EXCEPT !.op = op, !.factor = factor.secret,
                        !.next = next, !.step = step] \in Request
  BY <1>2, RequestColumns DEF Request, Authenticated
<1>4. flight' \in [Workers -> Request]
  BY <1>1, <1>3 DEF TypeOK
<1> QED
  BY <1>1, <1>4 DEF TypeOK

LEMMA TypeFactors ==
  ASSUME TypeOK, NEW w \in Workers, Factors(w)
  PROVE  TypeOK'
<1> DEFINE r == flight[w]
<1>1. CASE CreatePendingTotpSetup(w)
  <2>1. CASE MaySetUp(r)
    <3>1. PICK secret \in Secrets \ spent :
            /\ factor' = [NoFactor EXCEPT !.status = "pending",
                                          !.secret = secret]
            /\ spent' = spent \cup {secret}
      BY <1>1, <2>1 DEF CreatePendingTotpSetup
    <3>2. factor' \in FactorRow
      BY <3>1 DEF NoFactor, FactorRow
    <3>3. devices' \in [Devices -> DeviceRow]
      BY <1>1, <2>1, WithoutProofsType DEF CreatePendingTotpSetup, TypeOK
    <3> QED
      BY <1>1, <3>1, <3>2, <3>3, FinishType
      DEF CreatePendingTotpSetup, TypeOK
  <2>2. CASE ~MaySetUp(r)
    BY <1>1, <2>2, FinishType DEF CreatePendingTotpSetup, TypeOK
  <2> QED
    BY <2>1, <2>2
<1>2. CASE ReadForSetupVerify(w)
  BY <1>2, TypeReadFactor DEF ReadForSetupVerify, RecentPassword
<1>3. CASE ReadForStepUp(w)
  BY <1>3, TypeReadFactor DEF ReadForStepUp
<1>4. CASE ReadForChange(w)
  BY <1>4, TypeReadFactor DEF ReadForChange, RecentPassword
<1>5. CASE ReadForChangeVerify(w)
  <2>1. factor.next \in Secrets
    BY <1>5 DEF ReadForChangeVerify, TypeOK, FactorRow
  <2> QED
    BY <1>5, <2>1, TypeReadFactor DEF ReadForChangeVerify, RecentPassword
<1>6. CASE EnableTotpSetup(w)
  <2>1. r.device \in Devices /\ r.factor \in Secrets /\ r.step \in Nat
    BY <1>6, RequestColumns DEF EnableTotpSetup
  <2>2. factor' \in FactorRow
    BY <1>6, <2>1 DEF EnableTotpSetup, MayEnroll, TypeOK, FactorRow
  <2>3. devices' \in [Devices -> DeviceRow]
    BY <1>6, <2>1, OnlyProofType DEF EnableTotpSetup, TypeOK
  <2> QED
    BY <1>6, <2>2, <2>3, FinishType DEF EnableTotpSetup, TypeOK
<1>7. CASE ConsumeTotpSessionStepUp(w)
  <2>1. r.device \in Devices /\ r.factor \in Secrets /\ r.step \in Nat
    BY <1>7, RequestColumns DEF ConsumeTotpSessionStepUp
  <2>2. factor' \in FactorRow
    BY <1>7, <2>1 DEF ConsumeTotpSessionStepUp, TypeOK, FactorRow
  <2>3. devices' \in [Devices -> DeviceRow]
    BY <1>7, <2>1 DEF ConsumeTotpSessionStepUp, TypeOK, DeviceRow
  <2> QED
    BY <1>7, <2>2, <2>3, FinishType DEF ConsumeTotpSessionStepUp, TypeOK
<1>8. CASE StartPendingTotpChange(w)
  <2>1. r.device \in Devices /\ r.factor \in Secrets /\ r.step \in Nat
    BY <1>8, RequestColumns DEF StartPendingTotpChange
  <2>2. CASE MayConsume(r)
    <3>1. PICK secret \in Secrets \ spent :
            /\ factor' = [factor EXCEPT !.last = r.step, !.next = secret]
            /\ spent' = spent \cup {secret}
      BY <1>8, <2>2 DEF StartPendingTotpChange
    <3>2. factor' \in FactorRow
      <4>1. factor \in FactorRow /\ secret \in Secrets
        BY DEF TypeOK
      <4>2. [factor EXCEPT !.last = r.step, !.next = secret] \in FactorRow
        BY <2>1, <4>1 DEF FactorRow
      <4> QED
        BY <3>1, <4>2
    <3>3. devices' \in [Devices -> DeviceRow]
      <4>1. devices' = [devices EXCEPT ![r.device].mfa = r.factor]
        BY <1>8, <2>2 DEF StartPendingTotpChange
      <4> QED
        BY <2>1, <4>1 DEF TypeOK, DeviceRow
    <3> QED
      BY <1>8, <3>1, <3>2, <3>3, FinishType DEF StartPendingTotpChange, TypeOK
  <2>3. CASE ~MayConsume(r)
    BY <1>8, <2>3, FinishType DEF StartPendingTotpChange, TypeOK
  <2> QED
    BY <2>2, <2>3
<1>9. CASE PromotePendingTotpChange(w)
  <2>1. /\ r.device \in Devices /\ r.factor \in Secrets /\ r.step \in Nat
        /\ r.next \in Secrets
    BY <1>9, RequestColumns DEF PromotePendingTotpChange
  <2>2. factor' \in FactorRow
    BY <1>9, <2>1 DEF PromotePendingTotpChange, TypeOK, FactorRow
  <2>3. devices' \in [Devices -> DeviceRow]
    BY <1>9, <2>1, OnlyProofType DEF PromotePendingTotpChange, TypeOK
  <2> QED
    BY <1>9, <2>2, <2>3, FinishType DEF PromotePendingTotpChange, TypeOK
<1>10. CASE DisableTotpSetup(w)
  <2>1. factor' \in FactorRow
    BY <1>10 DEF DisableTotpSetup, NoFactor, TypeOK, FactorRow
  <2>2. devices' \in [Devices -> DeviceRow]
    BY <1>10, WithoutProofsType DEF DisableTotpSetup, TypeOK
  <2> QED
    BY <1>10, <2>1, <2>2, FinishType DEF DisableTotpSetup, TypeOK
<1> QED
  BY <1>1, <1>2, <1>3, <1>4, <1>5, <1>6, <1>7, <1>8, <1>9, <1>10 DEF Factors

LEMMA TypeNext == TypeOK /\ [Next]_vars => TypeOK'
<1> SUFFICES ASSUME TypeOK, [Next]_vars PROVE TypeOK'
  OBVIOUS
<1>1. ASSUME NEW w \in Workers, Abandon(w)
      PROVE  TypeOK'
  BY <1>1, FinishType DEF Abandon, TypeOK
<1>2. CASE RecoverAccountDeletion
  <2>1. PICK stamp \in Stamps \ spent :
          /\ user' = [user EXCEPT !.stamp = stamp, !.disabled = FALSE]
          /\ spent' = spent \cup {stamp}
    BY <1>2 DEF RecoverAccountDeletion
  <2>2. user' \in UserRow
    BY <2>1 DEF TypeOK, UserRow
  <2> QED
    BY <1>2, <2>1, <2>2 DEF RecoverAccountDeletion, TypeOK
<1>3. ASSUME NEW t \in Tokens, Expire(t)
      PROVE  TypeOK'
  BY <1>3 DEF Expire, TypeOK
<1>4. ASSUME NEW t \in Tokens, DeleteExpiredRefreshTokens(t)
      PROVE  TypeOK'
  <2>1. tokens' \in [Tokens -> TokenRow]
    BY <1>4 DEF DeleteExpiredRefreshTokens, TypeOK, TokenRow
  <2> QED
    BY <1>4, <2>1 DEF DeleteExpiredRefreshTokens, TypeOK
<1>5. CASE UNCHANGED vars
  BY <1>5 DEF vars, TypeOK
<1> QED
  BY <1>1, <1>2, <1>3, <1>4, <1>5,
     TypeGrants, TypeRevocations, TypeCredentials, TypeFactors DEF Next

\* Every reachable table and snapshot holds rows of its shape.
THEOREM TypeCorrect == Spec => []TypeOK
BY TypeInit, TypeNext, PTL DEF Spec

-----------------------------------------------------------------------------
(* The inductive invariant.  A session id is never given to a second session *)
(* because every row and claim that names it names a token already written;  *)
(* the session properties rest on that.                                      *)

Begun(s) == tokens[s].status # "unused" /\ tokens[s].session = s

\* Rows of refresh_tokens not written yet are empty, and every session id that
\* is stored anywhere, or was signed, is that of a session that began.
Origins ==
  /\ \A t \in Tokens : tokens[t].status = "unused" => tokens[t].session = Null
  /\ \A t \in Tokens : tokens[t].status # "unused" => Begun(tokens[t].session)
  /\ \A d \in Devices : devices[d].session # Null => Begun(devices[d].session)
  /\ \A c \in access : Begun(c.session)

\* Every stamp in force or signed has been drawn.
StampsSpent == user.stamp \in spent /\ \A c \in access : c.stamp \in spent

\* A request about to rotate a token remembers the token's own columns.
SnapshotsOfTokens ==
  \A w \in Workers : flight[w].op = "rotate" =>
    /\ tokens[flight[w].token].device = flight[w].device
    /\ tokens[flight[w].token].session = flight[w].session

SessionInv ==
  /\ TypeOK
  /\ Origins
  /\ StampsSpent
  /\ SnapshotsOfTokens
  /\ OneLiveTokenPerFamily
  /\ LiveDeviceCanRefresh
  /\ RevokedDeviceIsCutOff
  /\ LiveSessionsAreCurrent

-----------------------------------------------------------------------------
(* Every step has one of four effects on the sessions. *)

\* Devices keep their session and are at most revoked; tokens keep their
\* columns and are at most revoked or deleted; a device that stays logged in
\* keeps its tokens, unless they expired, and one that does not keeps none.
TablesNarrow ==
  /\ expired \subseteq expired'
  /\ \A d \in Devices :
       /\ devices'[d].session = devices[d].session
       /\ \/ devices'[d].status = devices[d].status
          \/ devices[d].status = "live" /\ devices'[d].status = "revoked"
  /\ \A t \in Tokens :
       /\ tokens'[t].device = tokens[t].device
       /\ tokens'[t].session = tokens[t].session
       /\ (tokens'[t].status = "unused") <=> (tokens[t].status = "unused")
       /\ tokens'[t].status = "live" => tokens[t].status = "live"
  /\ \A d \in Devices : \A t \in Tokens :
       tokens[t].device = d /\ tokens[t].session = devices[d].session =>
         /\ devices'[d].status = "live" /\ tokens[t].status = "live"
            => tokens'[t].status = "live" \/ t \in expired'
         /\ devices[d].status = "live" /\ devices'[d].status = "revoked"
            => tokens'[t].status # "live"

Narrows ==
  /\ TablesNarrow
  /\ spent \subseteq spent'
  /\ spent' \cap Stamps = spent \cap Stamps
  /\ UNCHANGED <<user, access>>

Restamps ==
  /\ TablesNarrow
  /\ \A d \in Devices : devices'[d].status # "live"
  /\ user'.stamp \notin spent
  /\ spent' = spent \cup {user'.stamp}
  /\ UNCHANGED access

Begins(d, t) ==
  /\ ~user.disabled
  /\ tokens[t].status = "unused"
  /\ \E m \in Secrets \cup {Null} : OpenSession(d, t, m)
  /\ \E method \in Methods : Sign(d, t, user.stamp, method)
  /\ UNCHANGED <<user, spent, expired>>

Rotates(t, u) ==
  LET d == tokens[t].device
      s == tokens[t].session
  IN
  /\ ~user.disabled
  /\ tokens[t].status = "live" /\ tokens[u].status = "unused"
  /\ d \in Devices /\ Live(d) /\ devices[d].session = s
  /\ tokens' = [Revoked({t}) EXCEPT ![u] =
                  [status |-> "live", device |-> d, session |-> s]]
  /\ \E method \in Methods : Sign(d, s, user.stamp, method)
  /\ UNCHANGED <<user, spent, expired, devices>>

Effect ==
  \/ Narrows
  \/ Restamps
  \/ \E d \in Devices, t \in Tokens : Begins(d, t)
  \/ \E t, u \in Tokens : Rotates(t, u)

LEMMA StillNarrows ==
  ASSUME UNCHANGED <<user, access, tokens>>, expired \subseteq expired',
         spent \subseteq spent', spent' \cap Stamps = spent \cap Stamps,
         \A d \in Devices : /\ devices'[d].session = devices[d].session
                            /\ devices'[d].status = devices[d].status
  PROVE  Narrows
BY DEF Narrows, TablesNarrow

LEMMA GrantsEffect ==
  ASSUME SessionInv, NEW w \in Workers, Grants(w)
  PROVE  Effect
<1> USE DEF SessionInv
<1>1. ASSUME NEW d \in Devices, ReadForPassword(w, d)
      PROVE  Effect
  BY <1>1, StillNarrows DEF ReadForPassword, Effect
<1>2. CASE CreatePasswordGrantSession(w)
  <2>1. CASE MayOpen(flight[w])
    <3>1. PICK t \in Tokens :
            /\ OpenSession(flight[w].device, t, flight[w].factor)
            /\ Sign(flight[w].device, t, flight[w].stamp, "password")
      BY <1>2, <2>1 DEF CreatePasswordGrantSession
    <3>2. flight[w].device \in Devices /\ flight[w].factor \in Secrets \cup {Null}
      BY <1>2, RequestColumns DEF CreatePasswordGrantSession
    <3>3. ~user.disabled /\ flight[w].stamp = user.stamp
      BY <2>1 DEF MayOpen, SameGeneration
    <3>4. Begins(flight[w].device, t)
      BY <1>2, <3>1, <3>2, <3>3
      DEF Begins, OpenSession, CreatePasswordGrantSession, Methods
    <3> QED
      BY <3>2, <3>4 DEF Effect
  <2>2. CASE ~MayOpen(flight[w])
    BY <1>2, <2>2, StillNarrows DEF CreatePasswordGrantSession, Effect
  <2> QED
    BY <2>1, <2>2
<1>3. ASSUME NEW t \in Tokens, ReadForRefresh(w, t)
      PROVE  Effect
  BY <1>3, StillNarrows DEF ReadForRefresh, Effect
<1>4. CASE RotateRefreshToken(w)
  <2>1. CASE MayRotate(flight[w])
    <3>1. PICK u \in Tokens :
            /\ tokens[u].status = "unused"
            /\ tokens' = [Revoked({flight[w].token}) EXCEPT ![u] =
                 [status |-> "live", device |-> flight[w].device,
                  session |-> flight[w].session]]
      BY <1>4, <2>1 DEF RotateRefreshToken
    <3>2. /\ flight[w].token \in Tokens /\ flight[w].device \in Devices
          /\ tokens[flight[w].token].device = flight[w].device
          /\ tokens[flight[w].token].session = flight[w].session
      BY <1>4, RequestColumns DEF RotateRefreshToken, SnapshotsOfTokens
    <3>3. Sign(flight[w].device, flight[w].session, flight[w].stamp, "refresh")
      BY <1>4, <2>1 DEF RotateRefreshToken
    <3>4. Rotates(flight[w].token, u)
      BY <1>4, <2>1, <3>1, <3>2, <3>3
      DEF Rotates, MayRotate, RotateRefreshToken, Methods
    <3> QED
      BY <3>2, <3>4 DEF Effect
  <2>2. CASE ~MayRotate(flight[w])
    BY <1>4, <2>2, StillNarrows DEF RotateRefreshToken, Effect
  <2> QED
    BY <2>1, <2>2
<1>5. CASE InvalidateRefreshTokenSession(w)
  <2>1. TablesNarrow
    BY <1>5 DEF InvalidateRefreshTokenSession, TablesNarrow, Revoked, Closed,
                Family, DeviceOfReplay, Live, TypeOK, TokenRow, DeviceRow
  <2> QED
    BY <1>5, <2>1 DEF InvalidateRefreshTokenSession, Narrows, Effect
<1> QED
  BY <1>1, <1>2, <1>3, <1>4, <1>5 DEF Grants

LEMMA RevocationsEffect ==
  ASSUME SessionInv, NEW w \in Workers, Revocations(w)
  PROVE  Effect
<1> USE DEF SessionInv
<1>1. ASSUME NEW c \in access, AuthenticateVaultRequest(w, c)
      PROVE  Effect
  BY <1>1, StillNarrows DEF AuthenticateVaultRequest, Effect
<1>2. CASE RevokeCurrentDeviceSession(w)
  <2>1. TablesNarrow
    <3> DEFINE r == flight[w]
    <3>1. CASE InSession(r)
      <4>1. \A t \in Tokens :
              /\ tokens'[t].device = tokens[t].device
              /\ tokens'[t].session = tokens[t].session
              /\ tokens'[t].status = IF /\ tokens[t].device = r.device
                                        /\ tokens[t].session = r.session
                                        /\ tokens[t].status = "live"
                                     THEN "revoked" ELSE tokens[t].status
        BY <1>2, <3>1 DEF RevokeCurrentDeviceSession, OwnTokens, Family, Revoked,
                         TypeOK, TokenRow
      <4>2. \A row \in DeviceRow :
              LET closed == [row EXCEPT !.status = "revoked", !.mfa = Null] IN
              closed.session = row.session /\ closed.status = "revoked"
        BY DEF DeviceRow
      <4>3. \A d \in Devices :
              /\ devices'[d].session = devices[d].session
              /\ devices'[d].status =
                   IF d = r.device THEN "revoked" ELSE devices[d].status
        BY <1>2, <3>1, <4>2 DEF RevokeCurrentDeviceSession, TypeOK
      <4>4. devices[r.device].status = "live" /\ devices[r.device].session = r.session
        BY <3>1 DEF InSession, Live
      <4>5. expired' = expired
        BY <1>2 DEF RevokeCurrentDeviceSession
      <4> HIDE DEF r
      <4> QED
        BY <4>1, <4>3, <4>4, <4>5 DEF TablesNarrow
    <3>2. CASE ~InSession(r)
      <4>1. tokens' = tokens
        <5>1. OwnTokens(r) = {}
          BY <3>2 DEF OwnTokens
        <5> QED
          BY <1>2, <5>1 DEF RevokeCurrentDeviceSession, Revoked, TypeOK
      <4>2. devices' = devices
        BY <1>2, <3>2 DEF RevokeCurrentDeviceSession, TypeOK
      <4> QED
        BY <1>2, <4>1, <4>2 DEF RevokeCurrentDeviceSession, TablesNarrow
    <3> QED
      BY <3>1, <3>2
  <2> QED
    BY <1>2, <2>1 DEF RevokeCurrentDeviceSession, Narrows, Effect
<1>3. ASSUME NEW d \in Devices, RevokeDeviceSession(w, d)
      PROVE  Effect
  <2>1. TablesNarrow
    BY <1>3 DEF RevokeDeviceSession, TablesNarrow, Revoked, Closed, TokensOf,
                Live, TypeOK, TokenRow, DeviceRow
  <2> QED
    BY <1>3, <2>1 DEF RevokeDeviceSession, Narrows, Effect
<1>4. CASE RevokeOtherDeviceSessions(w)
  <2>1. TablesNarrow
    BY <1>4 DEF RevokeOtherDeviceSessions, TablesNarrow, Revoked, Closed,
                TokensOf, Live, TypeOK, TokenRow, DeviceRow
  <2> QED
    BY <1>4, <2>1 DEF RevokeOtherDeviceSessions, Narrows, Effect
<1> QED
  BY <1>1, <1>2, <1>3, <1>4 DEF Revocations

LEMMA CommitEffect ==
  ASSUME SessionInv, NEW w \in Workers, NEW p, NEW disabled,
         CommitCredentialGenerationMutation(w, p, disabled)
  PROVE  Effect
<1> USE DEF SessionInv
<1>1. CASE NewGeneration(p, disabled)
  <2>1. PICK stamp \in Stamps \ spent :
          /\ user' = [stamp |-> stamp, password |-> p, disabled |-> disabled]
          /\ spent' = spent \cup {stamp}
          /\ devices' = Closed(Devices)
          /\ tokens' = Revoked(Tokens)
    BY <1>1 DEF NewGeneration
  <2>2. TablesNarrow /\ \A d \in Devices : devices'[d].status # "live"
    BY <1>1, <2>1 DEF CommitCredentialGenerationMutation, TablesNarrow, Revoked,
                     Closed, Live, TypeOK, TokenRow, DeviceRow
  <2> QED
    BY <1>1, <2>1, <2>2
    DEF CommitCredentialGenerationMutation, Restamps, Effect
<1>2. CASE UNCHANGED <<user, spent, devices, tokens>>
  BY <1>2, StillNarrows DEF CommitCredentialGenerationMutation, Effect
<1> QED
  BY <1>1, <1>2 DEF CommitCredentialGenerationMutation

LEMMA CredentialsEffect ==
  ASSUME SessionInv, NEW w \in Workers, Credentials(w)
  PROVE  Effect
BY CommitEffect
DEF Credentials, ChangeAccountMasterPassword, ChangeAccountKdf,
    RotateAccountSecurityStamp, BeginRecoverableAccountDeletion

\* A statement on the factor leaves every device in the session it was in.
LEMMA FactorsKeepSessions ==
  ASSUME TypeOK, NEW w \in Workers, Factors(w)
  PROVE  \A d \in Devices : /\ devices'[d].session = devices[d].session
                            /\ devices'[d].status = devices[d].status
<1>1. \A d \in Devices : /\ WithoutProofs[d].session = devices[d].session
                        /\ WithoutProofs[d].status = devices[d].status
  BY DEF WithoutProofs, TypeOK, DeviceRow
<1>2. \A e \in Devices : \A secret \in Secrets \cup {Null} :
        \A d \in Devices : /\ OnlyProof(e, secret)[d].session = devices[d].session
                          /\ OnlyProof(e, secret)[d].status = devices[d].status
  BY <1>1, WithoutProofsType DEF OnlyProof, DeviceRow
<1>3. \A e \in Devices : \A secret \in Secrets \cup {Null} :
        LET marked == [devices EXCEPT ![e].mfa = secret] IN
        \A d \in Devices : /\ marked[d].session = devices[d].session
                          /\ marked[d].status = devices[d].status
  BY DEF TypeOK, DeviceRow
<1>4. \A d \in Devices : /\ devices'[d].session = devices[d].session
                        /\ devices'[d].status = devices[d].status
  <2>1. \/ devices' = devices
        \/ devices' = WithoutProofs
        \/ flight[w].op # "idle" /\ devices' = OnlyProof(flight[w].device, flight[w].factor)
        \/ flight[w].op # "idle" /\ devices' = OnlyProof(flight[w].device, flight[w].next)
        \/ /\ flight[w].op # "idle"
           /\ devices' = [devices EXCEPT ![flight[w].device].mfa = flight[w].factor]
    BY DEF Factors, CreatePendingTotpSetup, ReadForSetupVerify, ReadForStepUp,
           ReadForChange, ReadForChangeVerify, ReadFactor, EnableTotpSetup,
           ConsumeTotpSessionStepUp, StartPendingTotpChange,
           PromotePendingTotpChange, DisableTotpSetup
  <2>2. /\ flight[w].op # "idle" => flight[w].device \in Devices
        /\ flight[w].factor \in Secrets \cup {Null}
        /\ flight[w].next \in Secrets \cup {Null}
    BY RequestColumns DEF Request
  <2>3. CASE devices' = devices
    BY <2>3
  <2>4. CASE devices' = WithoutProofs
    BY <1>1, <2>4
  <2>5. CASE /\ flight[w].op # "idle"
             /\ devices' = OnlyProof(flight[w].device, flight[w].factor)
    BY <1>2, <2>2, <2>5
  <2>6. CASE /\ flight[w].op # "idle"
             /\ devices' = OnlyProof(flight[w].device, flight[w].next)
    BY <1>2, <2>2, <2>6
  <2>7. CASE /\ flight[w].op # "idle"
             /\ devices' = [devices EXCEPT ![flight[w].device].mfa = flight[w].factor]
    BY <1>3, <2>2, <2>7
  <2> QED
    BY <2>1, <2>3, <2>4, <2>5, <2>6, <2>7
<1> QED
  BY <1>4

LEMMA FactorsEffect ==
  ASSUME SessionInv, NEW w \in Workers, Factors(w)
  PROVE  Effect
<1> USE DEF SessionInv
<1>1. /\ UNCHANGED <<user, access, tokens, expired>>
      /\ spent' = spent \/ \E secret \in Secrets : spent' = spent \cup {secret}
  BY DEF Factors, CreatePendingTotpSetup, ReadForSetupVerify, ReadForStepUp,
         ReadForChange, ReadForChangeVerify, ReadFactor, EnableTotpSetup,
         ConsumeTotpSessionStepUp, StartPendingTotpChange,
         PromotePendingTotpChange, DisableTotpSetup
<1> QED
  BY <1>1, FactorsKeepSessions, StillNarrows DEF Effect

LEMMA NextEffect ==
  ASSUME SessionInv, [Next]_vars
  PROVE  Effect
<1> USE DEF SessionInv
<1>1. ASSUME NEW w \in Workers, Abandon(w)
      PROVE  Effect
  BY <1>1, StillNarrows DEF Abandon, Effect
<1>2. CASE RecoverAccountDeletion
  <2>1. PICK stamp \in Stamps \ spent :
          /\ user' = [user EXCEPT !.stamp = stamp, !.disabled = FALSE]
          /\ spent' = spent \cup {stamp}
    BY <1>2 DEF RecoverAccountDeletion
  <2>2. user'.stamp = stamp
    BY <2>1 DEF TypeOK, UserRow
  <2>3. \A d \in Devices : devices'[d].status # "live"
    BY <1>2 DEF RecoverAccountDeletion, LiveSessionsAreCurrent, Live
  <2>4. TablesNarrow
    BY <1>2 DEF RecoverAccountDeletion, TablesNarrow
  <2> QED
    BY <1>2, <2>1, <2>2, <2>3, <2>4 DEF RecoverAccountDeletion, Restamps, Effect
<1>3. ASSUME NEW t \in Tokens, Expire(t)
      PROVE  Effect
  BY <1>3, StillNarrows DEF Expire, Effect
<1>4. ASSUME NEW t \in Tokens, DeleteExpiredRefreshTokens(t)
      PROVE  Effect
  <2>1. TablesNarrow
    BY <1>4 DEF DeleteExpiredRefreshTokens, TablesNarrow, TypeOK, TokenRow
  <2> QED
    BY <1>4, <2>1 DEF DeleteExpiredRefreshTokens, Narrows, Effect
<1>5. CASE UNCHANGED vars
  BY <1>5, StillNarrows DEF vars, Effect
<1> QED
  BY <1>1, <1>2, <1>3, <1>4, <1>5, GrantsEffect, RevocationsEffect,
     CredentialsEffect, FactorsEffect DEF Next

-----------------------------------------------------------------------------
(* Each effect preserves the invariant. *)

\* What a written row says of its device and session is never rewritten.
LEMMA ColumnsKept ==
  ASSUME SessionInv, Effect, NEW t \in Tokens, tokens[t].status # "unused"
  PROVE  /\ tokens'[t].status # "unused"
         /\ tokens'[t].device = tokens[t].device
         /\ tokens'[t].session = tokens[t].session
<1>1. CASE Narrows
  BY <1>1 DEF Narrows, TablesNarrow
<1>2. CASE Restamps
  BY <1>2 DEF Restamps, TablesNarrow
<1>3. ASSUME NEW d \in Devices, NEW u \in Tokens, Begins(d, u)
      PROVE  tokens'[t] = tokens[t]
  BY <1>3 DEF Begins, OpenSession, SessionInv, TypeOK
<1>4. ASSUME NEW u \in Tokens, NEW v \in Tokens, Rotates(u, v)
      PROVE  /\ tokens'[t].status # "unused"
             /\ tokens'[t].device = tokens[t].device
             /\ tokens'[t].session = tokens[t].session
  <2>1. tokens'[t] = Revoked({u})[t]
    BY <1>4, RevokedType DEF Rotates, SessionInv
  <2> QED
    BY <2>1 DEF Revoked, SessionInv, TypeOK, TokenRow
<1> QED
  BY <1>1, <1>2, <1>3, <1>4 DEF Effect

LEMMA BegunKept ==
  ASSUME SessionInv, Effect, NEW s \in Tokens, Begun(s)
  PROVE  Begun(s)'
BY ColumnsKept DEF Begun

LEMMA OriginsNext ==
  ASSUME SessionInv, TypeOK', Effect
  PROVE  Origins'
<1> USE DEF SessionInv
<1>1. CASE Narrows \/ Restamps
  <2>1. TablesNarrow /\ access' = access
    BY <1>1 DEF Narrows, Restamps
  <2>2. \A t \in Tokens : tokens[t].status # "unused" => tokens[t].session \in Tokens
    BY DEF TypeOK, TokenRow
  <2>3. \A d \in Devices : devices[d].session # Null => devices[d].session \in Tokens
    BY DEF TypeOK, DeviceRow
  <2>4. \A c \in access : c.session \in Tokens
    BY DEF TypeOK, Claims
  <2> QED
    BY <2>1, <2>2, <2>3, <2>4, BegunKept DEF Origins, TablesNarrow
<1>2. ASSUME NEW d \in Devices, NEW t \in Tokens, Begins(d, t)
      PROVE  Origins'
  <2>1. PICK m \in Secrets \cup {Null} : OpenSession(d, t, m)
    BY <1>2 DEF Begins
  <2>2. /\ tokens'[t] = [status |-> "live", device |-> d, session |-> t]
        /\ \A u \in Tokens \ {t} : tokens'[u] = tokens[u]
        /\ devices'[d].session = t
        /\ \A e \in Devices \ {d} : devices'[e] = devices[e]
    BY <2>1 DEF OpenSession, TypeOK
  <2>3. Begun(t)'
    BY <2>2 DEF Begun
  <2>4. \A s \in Tokens : Begun(s) => Begun(s)'
    BY <1>2, BegunKept DEF Effect
  <2>5. \A c \in access' : c \in access \/ c.session = t
    BY <1>2 DEF Begins, Sign
  <2>6. \A u \in Tokens : tokens[u].status # "unused" => tokens[u].session \in Tokens
    BY DEF TypeOK, TokenRow
  <2>7. \A e \in Devices : devices[e].session # Null => devices[e].session \in Tokens
    BY DEF TypeOK, DeviceRow
  <2>8. \A c \in access : c.session \in Tokens
    BY DEF TypeOK, Claims
  <2> QED
    BY <2>2, <2>3, <2>4, <2>5, <2>6, <2>7, <2>8 DEF Origins
<1>3. ASSUME NEW t \in Tokens, NEW u \in Tokens, Rotates(t, u)
      PROVE  Origins'
  <2> DEFINE s == tokens[t].session
  <2>1. s \in Tokens /\ Begun(s)
    BY <1>3 DEF Rotates, Origins, TypeOK, TokenRow
  <2>2. /\ tokens'[u].status = "live" /\ tokens'[u].session = s
        /\ \A v \in Tokens \ {u} :
             /\ tokens'[v].session = tokens[v].session
             /\ tokens'[v].status = "unused" <=> tokens[v].status = "unused"
    BY <1>3, RevokedType DEF Rotates, Revoked, TypeOK, TokenRow
  <2>3. \A r \in Tokens : Begun(r) => Begun(r)'
    BY <1>3, BegunKept DEF Effect
  <2>4. \A c \in access' : c \in access \/ c.session = s
    BY <1>3 DEF Rotates, Sign
  <2>5. devices' = devices
    BY <1>3 DEF Rotates
  <2>6. \A v \in Tokens : tokens[v].status # "unused" => tokens[v].session \in Tokens
    BY DEF TypeOK, TokenRow
  <2>7. \A e \in Devices : devices[e].session # Null => devices[e].session \in Tokens
    BY DEF TypeOK, DeviceRow
  <2>8. \A c \in access : c.session \in Tokens
    BY DEF TypeOK, Claims
  <2> HIDE DEF s
  <2> QED
    BY <2>1, <2>2, <2>3, <2>4, <2>5, <2>6, <2>7, <2>8 DEF Origins
<1> QED
  BY <1>1, <1>2, <1>3 DEF Effect

\* A new claim is signed under the present stamp, for the session its device
\* is in after the step.
LEMMA ClaimsOfEffect ==
  ASSUME SessionInv, TypeOK', Effect
  PROVE  \A c \in access' : \/ c \in access
                           \/ /\ c.stamp = user.stamp /\ user' = user
                              /\ ~user.disabled
                              /\ c.device \in Devices
                              /\ devices'[c.device].status = "live"
                              /\ devices'[c.device].session = c.session
<1>1. CASE Narrows \/ Restamps
  BY <1>1 DEF Narrows, Restamps
<1>2. ASSUME NEW d \in Devices, NEW t \in Tokens, Begins(d, t)
      PROVE  \A c \in access' : c \in access \/
               (/\ c.device = d /\ c.session = t /\ c.stamp = user.stamp
                /\ devices'[d].status = "live" /\ devices'[d].session = t
                /\ user' = user /\ ~user.disabled)
  <2>1. devices'[d].status = "live" /\ devices'[d].session = t
    BY <1>2 DEF Begins, OpenSession, SessionInv, TypeOK
  <2>2. PICK method \in Methods : Sign(d, t, user.stamp, method)
    BY <1>2 DEF Begins
  <2> QED
    BY <1>2, <2>1, <2>2 DEF Sign, Begins
<1>3. ASSUME NEW t \in Tokens, NEW u \in Tokens, Rotates(t, u)
      PROVE  \A c \in access' : c \in access \/
               (/\ c.device = tokens[t].device /\ c.session = tokens[t].session
                /\ c.stamp = user.stamp /\ tokens[t].device \in Devices
                /\ devices'[tokens[t].device].status = "live"
                /\ devices'[tokens[t].device].session = tokens[t].session
                /\ user' = user /\ ~user.disabled)
  <2>1. PICK method \in Methods :
          Sign(tokens[t].device, tokens[t].session, user.stamp, method)
    BY <1>3 DEF Rotates
  <2>2. \A c \in access' : \/ c \in access
                           \/ /\ c.device = tokens[t].device
                              /\ c.session = tokens[t].session
                              /\ c.stamp = user.stamp
    BY <2>1 DEF Sign
  <2>3. /\ tokens[t].device \in Devices /\ devices' = devices
        /\ devices[tokens[t].device].status = "live"
        /\ devices[tokens[t].device].session = tokens[t].session
        /\ user' = user /\ ~user.disabled
    BY <1>3 DEF Rotates, Live
  <2> QED
    BY <2>2, <2>3
<1> QED
  BY <1>1, <1>2, <1>3 DEF Effect

LEMMA StampsSpentNext ==
  ASSUME SessionInv, TypeOK', Effect
  PROVE  StampsSpent'
<1>1. spent \subseteq spent'
  BY DEF Effect, Narrows, Restamps, Begins, Rotates
<1>2. user'.stamp \in spent'
  BY <1>1 DEF Effect, Narrows, Restamps, Begins, Rotates, SessionInv, StampsSpent
<1>3. \A c \in access' : c \in access \/ c.stamp = user.stamp
  BY ClaimsOfEffect
<1> QED
  BY <1>1, <1>2, <1>3 DEF SessionInv, StampsSpent

\* Only the read of a live token prepares a rotation, and it copies the row.
LEMMA SnapshotsNext ==
  ASSUME SessionInv, TypeOK', Effect, [Next]_vars \/ UNCHANGED flight
  PROVE  SnapshotsOfTokens'
<1> USE DEF SessionInv
<1> SUFFICES ASSUME NEW v \in Workers, flight'[v].op = "rotate"
             PROVE  /\ tokens'[flight'[v].token].device = flight'[v].device
                    /\ tokens'[flight'[v].token].session = flight'[v].session
  BY DEF SnapshotsOfTokens
<1>1. CASE flight'[v] = flight[v]
  <2>1. flight[v].token \in Tokens /\ flight[v].session \in Tokens
    BY <1>1, RequestColumns
  <2>2. tokens[flight[v].token].session = flight[v].session
        /\ tokens[flight[v].token].device = flight[v].device
    BY <1>1 DEF SnapshotsOfTokens
  <2>3. tokens[flight[v].token].status # "unused"
    BY <2>1, <2>2 DEF Origins
  <2> QED
    BY <1>1, <2>1, <2>2, <2>3, ColumnsKept
<1>2. ASSUME NEW t \in Tokens, ReadForRefresh(v, t)
      PROVE  /\ tokens'[flight'[v].token].device = flight'[v].device
             /\ tokens'[flight'[v].token].session = flight'[v].session
  <2>1. PICK op \in {"invalidate", "rotate"} :
          flight' = [flight EXCEPT ![v] =
            [Idle EXCEPT !.device = tokens[t].device,
                         !.session = tokens[t].session,
                         !.token = t, !.stamp = user.stamp, !.op = op]]
    BY <1>2 DEF ReadForRefresh, Idle
  <2>2. /\ flight'[v].token = t
        /\ flight'[v].device = tokens[t].device
        /\ flight'[v].session = tokens[t].session
    BY <2>1 DEF TypeOK, Idle
  <2>3. tokens' = tokens
    BY <1>2 DEF ReadForRefresh
  <2> QED
    BY <2>2, <2>3
<1>3. ASSUME NEW w \in Workers, flight'[v] # flight[v],
             \/ Grants(w) /\ ~ \E t \in Tokens : ReadForRefresh(w, t)
             \/ Revocations(w) \/ Credentials(w) \/ Abandon(w)
      PROVE  FALSE
  <2>1. \/ flight'[v].op # "rotate"
        \/ flight' = [flight EXCEPT ![w] = Idle]
        \/ flight' = [flight EXCEPT ![w] = [flight[w] EXCEPT !.op = "invalidate"]]
        \/ \E r : r.op # "rotate" /\ flight' = [flight EXCEPT ![w] = r]
    BY <1>3
    DEF Grants, Revocations, Credentials, Abandon, Finish, ReadForPassword,
        CreatePasswordGrantSession, RotateRefreshToken,
        InvalidateRefreshTokenSession, AuthenticateVaultRequest,
        RevokeCurrentDeviceSession, RevokeDeviceSession,
        RevokeOtherDeviceSessions, ChangeAccountMasterPassword,
        ChangeAccountKdf, RotateAccountSecurityStamp,
        BeginRecoverableAccountDeletion, CommitCredentialGenerationMutation,
        Idle, TypeOK
  <2> QED
    BY <1>3, <2>1, IdleType DEF TypeOK, Idle, Request
<1>4. ASSUME NEW w \in Workers, flight'[v] # flight[v], Factors(w)
      PROVE  FALSE
  <2>1. \/ flight' = [flight EXCEPT ![w] = Idle]
        \/ /\ flight[w].op # "idle"
           /\ \E op \in {"enroll", "code", "change", "promote"} : \E next :
                ReadFactor(w, op, next)
    BY <1>4
    DEF Factors, Finish, TypeOK, CreatePendingTotpSetup, Authenticated,
        RecentPassword, ReadForSetupVerify, ReadForStepUp, ReadForChange,
        ReadForChangeVerify, EnableTotpSetup,
        ConsumeTotpSessionStepUp, StartPendingTotpChange,
        PromotePendingTotpChange, DisableTotpSetup
  <2>2. CASE flight' = [flight EXCEPT ![w] = Idle]
    BY <1>4, <2>2 DEF TypeOK, Idle
  <2>3. ASSUME NEW op \in {"enroll", "code", "change", "promote"},
               NEW next, flight[w].op # "idle", ReadFactor(w, op, next)
        PROVE  FALSE
    <3>0. PICK step \in Steps :
            flight' = [flight EXCEPT ![w] =
              [flight[w] EXCEPT !.op = op, !.factor = factor.secret,
                                !.next = next, !.step = step]]
      BY <2>3 DEF ReadFactor
    <3>1. v = w
      BY <1>4, <3>0 DEF TypeOK
    <3>2. flight'[v].op = op
      BY <3>0, <3>1 DEF TypeOK, Request
    <3> QED
      BY <3>2
  <2> QED
    BY <2>1, <2>2, <2>3
<1>5. ASSUME NEW w \in Workers, NEW t \in Tokens, ReadForRefresh(w, t),
             flight'[v] # flight[v]
      PROVE  v = w
  BY <1>5 DEF ReadForRefresh, TypeOK
<1>6. \/ \E w \in Workers : Grants(w) \/ Revocations(w) \/ Credentials(w)
                           \/ Factors(w) \/ Abandon(w)
      \/ flight' = flight
  BY DEF Next, vars, RecoverAccountDeletion, Expire, DeleteExpiredRefreshTokens
<1> QED
  BY <1>1, <1>2, <1>3, <1>4, <1>5, <1>6

LEMMA OneLiveNext ==
  ASSUME SessionInv, TypeOK', Effect
  PROVE  OneLiveTokenPerFamily'
<1> USE DEF SessionInv
<1>1. CASE Narrows \/ Restamps
  BY <1>1 DEF Narrows, Restamps, TablesNarrow, OneLiveTokenPerFamily
<1>2. ASSUME NEW d \in Devices, NEW t \in Tokens, Begins(d, t)
      PROVE  OneLiveTokenPerFamily'
  <2>1. /\ tokens'[t].session = t
        /\ \A u \in Tokens \ {t} : tokens'[u] = tokens[u]
    BY <1>2 DEF Begins, OpenSession, TypeOK
  <2>2. \A u \in Tokens : tokens[u].status = "live" => tokens[u].session # t
    BY <1>2 DEF Begins, Origins, Begun
  <2> QED
    BY <2>1, <2>2 DEF OneLiveTokenPerFamily
<1>3. ASSUME NEW t \in Tokens, NEW u \in Tokens, Rotates(t, u)
      PROVE  OneLiveTokenPerFamily'
  <2>1. /\ tokens'[u].session = tokens[t].session
        /\ \A v \in Tokens \ {u} :
             /\ tokens'[v].session = tokens[v].session
             /\ tokens'[v].status = "live" => tokens[v].status = "live" /\ v # t
    BY <1>3, RevokedType DEF Rotates, Revoked, TypeOK, TokenRow
  <2>2. tokens[t].status = "live"
    BY <1>3 DEF Rotates
  <2> QED
    BY <2>1, <2>2 DEF OneLiveTokenPerFamily
<1> QED
  BY <1>1, <1>2, <1>3 DEF Effect

\* LiveDeviceCanRefresh and RevokedDeviceIsCutOff move together: what revokes a
\* family closes its device, and what closes a device revokes its family.
LEMMA DevicesNext ==
  ASSUME SessionInv, TypeOK', Effect
  PROVE  LiveDeviceCanRefresh' /\ RevokedDeviceIsCutOff'
<1> USE DEF SessionInv
<1>1. CASE Narrows \/ Restamps
  BY <1>1 DEF Narrows, Restamps, TablesNarrow, LiveDeviceCanRefresh,
              RevokedDeviceIsCutOff, Family, Live
<1>2. ASSUME NEW d \in Devices, NEW t \in Tokens, Begins(d, t)
      PROVE  LiveDeviceCanRefresh' /\ RevokedDeviceIsCutOff'
  <2>1. /\ tokens'[t] = [status |-> "live", device |-> d, session |-> t]
        /\ \A u \in Tokens \ {t} : tokens'[u] = tokens[u]
        /\ devices'[d].status = "live" /\ devices'[d].session = t
        /\ \A e \in Devices \ {d} : devices'[e] = devices[e]
        /\ expired' = expired
    BY <1>2 DEF Begins, OpenSession, TypeOK
  <2>2. tokens[t].status = "unused" /\ tokens[t].session = Null
    BY <1>2 DEF Begins, Origins
  <2>3. \A e \in Devices : devices[e].status # "none" => devices[e].session # Null
    BY DEF TypeOK, DeviceRow
  <2> QED
    BY <2>1, <2>2, <2>3 DEF LiveDeviceCanRefresh, RevokedDeviceIsCutOff, Family, Live
<1>3. ASSUME NEW t \in Tokens, NEW u \in Tokens, Rotates(t, u)
      PROVE  LiveDeviceCanRefresh' /\ RevokedDeviceIsCutOff'
  <2>1. /\ tokens'[u].session = tokens[t].session
        /\ tokens'[u].device = tokens[t].device
        /\ tokens'[u].status = "live"
        /\ \A v \in Tokens \ {u} :
             /\ tokens'[v].session = tokens[v].session
             /\ tokens'[v].device = tokens[v].device
             /\ tokens'[v].status = "live" => tokens[v].status = "live"
             /\ v # t => tokens'[v].status = tokens[v].status
    BY <1>3, RevokedType DEF Rotates, Revoked, TypeOK, TokenRow
  <2>2. /\ devices' = devices /\ expired' = expired
        /\ devices[tokens[t].device].status = "live"
        /\ tokens[u].status = "unused" /\ tokens[u].session = Null
        /\ devices[tokens[t].device].session = tokens[t].session
    BY <1>3 DEF Rotates, Live, Origins
  <2>3. \A e \in Devices : devices[e].status # "none" => devices[e].session # Null
    BY DEF TypeOK, DeviceRow
  <2>4. LiveDeviceCanRefresh'
    <3> SUFFICES ASSUME NEW d \in Devices, devices[d].status = "live"
                 PROVE  \E v \in Tokens :
                          /\ tokens'[v].device = d
                          /\ tokens'[v].session = devices[d].session
                          /\ tokens'[v].status = "live" \/ v \in expired
      BY <2>2 DEF LiveDeviceCanRefresh, Family, Live
    <3>1. PICK v \in Tokens :
            /\ tokens[v].device = d /\ tokens[v].session = devices[d].session
            /\ tokens[v].status = "live" \/ v \in expired
      BY DEF LiveDeviceCanRefresh, Family, Live
    <3>2. v # u
      BY <2>2, <2>3, <3>1
    <3>3. CASE v = t
      BY <2>1, <3>1, <3>3
    <3>4. CASE v # t
      BY <2>1, <3>1, <3>2, <3>4
    <3> QED
      BY <3>3, <3>4
  <2>5. RevokedDeviceIsCutOff'
    BY <2>1, <2>2 DEF RevokedDeviceIsCutOff, Family
  <2> QED
    BY <2>4, <2>5
<1> QED
  BY <1>1, <1>2, <1>3 DEF Effect

LEMMA CurrentNext ==
  ASSUME SessionInv, TypeOK', Effect
  PROVE  LiveSessionsAreCurrent'
<1> USE DEF SessionInv
<1>1. CASE Narrows
  BY <1>1 DEF Narrows, TablesNarrow, LiveSessionsAreCurrent, Live, TypeOK, Claims
<1>2. CASE Restamps
  BY <1>2 DEF Restamps, LiveSessionsAreCurrent, Live, TypeOK, Claims
<1>3. ASSUME NEW d \in Devices, NEW t \in Tokens, Begins(d, t)
      PROVE  LiveSessionsAreCurrent'
  <2>1. /\ devices'[d].session = t
        /\ \A e \in Devices \ {d} : devices'[e] = devices[e]
        /\ ~user.disabled /\ user' = user
    BY <1>3 DEF Begins, OpenSession, TypeOK
  <2>2. \A c \in access : c.session # t /\ c.device \in Devices
    BY <1>3 DEF Begins, Origins, Begun, TypeOK, Claims
  <2>3. \A c \in access' : c \in access \/ c.stamp = user.stamp
    BY <1>3, ClaimsOfEffect DEF Effect
  <2> QED
    BY <2>1, <2>2, <2>3 DEF LiveSessionsAreCurrent, Live
<1>4. ASSUME NEW t \in Tokens, NEW u \in Tokens, Rotates(t, u)
      PROVE  LiveSessionsAreCurrent'
  <2>1. \A c \in access' : c \in access \/ c.stamp = user.stamp
    BY <1>4, ClaimsOfEffect DEF Effect
  <2> QED
    BY <1>4, <2>1 DEF Rotates, LiveSessionsAreCurrent, Live
<1> QED
  BY <1>1, <1>2, <1>3, <1>4 DEF Effect

LEMMA SessionInvInit == Init => SessionInv
<1> SUFFICES ASSUME Init PROVE SessionInv
  OBVIOUS
<1>1. TypeOK
  BY TypeInit
<1>2. Origins /\ StampsSpent
  BY DEF Init, Origins, StampsSpent, Unused
<1>3. SnapshotsOfTokens
  BY DEF Init, SnapshotsOfTokens, Idle
<1>4. OneLiveTokenPerFamily
  BY DEF Init, OneLiveTokenPerFamily, Unused
<1>5. LiveDeviceCanRefresh /\ RevokedDeviceIsCutOff /\ LiveSessionsAreCurrent
  BY DEF Init, LiveDeviceCanRefresh, RevokedDeviceIsCutOff,
         LiveSessionsAreCurrent, Live
<1> QED
  BY <1>1, <1>2, <1>3, <1>4, <1>5 DEF SessionInv

LEMMA SessionInvNext == SessionInv /\ [Next]_vars => SessionInv'
<1> SUFFICES ASSUME SessionInv, [Next]_vars PROVE SessionInv'
  OBVIOUS
<1>1. TypeOK'
  BY TypeNext DEF SessionInv
<1>2. Effect
  BY NextEffect
<1> QED
  BY <1>1, <1>2, OriginsNext, StampsSpentNext, SnapshotsNext, OneLiveNext,
     DevicesNext, CurrentNext DEF SessionInv

\* The strengthening holds in every reachable state.
THEOREM SessionInvariant == Spec => []SessionInv
BY SessionInvInit, SessionInvNext, PTL DEF Spec

-----------------------------------------------------------------------------
(* The session properties of every specification instance *)

\* rotateRefreshToken leaves one working token in a family, however many
\* workers rotate, retry or replay it.
THEOREM OneLiveToken == Spec => []OneLiveTokenPerFamily
BY SessionInvariant, PTL DEF SessionInv

\* The batches revoke a family and its device together: a device that is not
\* revoked has a token that works or expired.
THEOREM LiveDevicesRefresh == Spec => []LiveDeviceCanRefresh
BY SessionInvariant, PTL DEF SessionInv

\* And a device that is revoked, by whatever route, keeps none that works.
THEOREM RevokedDevicesAreCutOff == Spec => []RevokedDeviceIsCutOff
BY SessionInvariant, PTL DEF SessionInv

\* A live session was opened under the stamp in force.
THEOREM SessionsAreCurrent == Spec => []LiveSessionsAreCurrent
BY SessionInvariant, PTL DEF SessionInv

\* A statement on devices and on the factor keeps proofs of the enabled factor if
\* it adds only such proofs, or voids all of them.
LEMMA ProofsKept ==
  ASSUME ProofsAreOfTheEnabledFactor,
         \A d \in Devices :
           \/ devices'[d].mfa = Null \/ devices'[d].mfa = EnabledFactor'
           \/ devices'[d].mfa = devices[d].mfa /\ EnabledFactor' = EnabledFactor
  PROVE  ProofsAreOfTheEnabledFactor'
BY DEF ProofsAreOfTheEnabledFactor

LEMMA ProofsClosed ==
  ASSUME TypeOK, NEW D, NEW d \in Devices
  PROVE  /\ Closed(D)[d].mfa = devices[d].mfa
         /\ WithoutProofs[d].mfa = Null
BY DEF Closed, WithoutProofs, Live, TypeOK, DeviceRow

LEMMA OnlyProofIs ==
  ASSUME TypeOK, NEW e \in Devices, NEW secret \in Secrets, NEW d \in Devices
  PROVE  OnlyProof(e, secret)[d].mfa \in {secret, Null}
BY WithoutProofsType, ProofsClosed DEF OnlyProof, DeviceRow

\* A code that was accepted leaves the secret.
LEMMA AcceptedStep ==
  ASSUME TypeOK, factor.status = "enabled", NEW step \in Nat,
         factor' = [factor EXCEPT !.last = step]
  PROVE  EnabledFactor' = EnabledFactor /\ EnabledFactor = factor.secret
BY DEF TypeOK, FactorRow, EnabledFactor

LEMMA ProofsOfFactors ==
  ASSUME TypeOK, ProofsAreOfTheEnabledFactor, NEW w \in Workers, Factors(w)
  PROVE  ProofsAreOfTheEnabledFactor'
<1> DEFINE r == flight[w]
<1>0. CASE UNCHANGED <<factor, devices>>
  BY <1>0, ProofsKept DEF EnabledFactor
<1>1. CASE CreatePendingTotpSetup(w) /\ MaySetUp(r)
  <2>1. EnabledFactor = Null
    BY <1>1 DEF MaySetUp, EnabledFactor
  <2>2. \A d \in Devices : devices[d].mfa = Null
    BY <2>1 DEF ProofsAreOfTheEnabledFactor
  <2>3. devices' = devices \/ devices' = WithoutProofs
    BY <1>1 DEF CreatePendingTotpSetup
  <2>4. \A d \in Devices : devices'[d].mfa = Null
    BY <2>2, <2>3, ProofsClosed
  <2> QED
    BY <2>4, ProofsKept
<1>2. CASE EnableTotpSetup(w) /\ MayEnroll(r)
  <2>1. r.device \in Devices /\ r.factor \in Secrets /\ r.step \in Nat
    BY <1>2, RequestColumns DEF EnableTotpSetup
  <2>2. factor' = [factor EXCEPT !.status = "enabled", !.last = r.step]
    BY <1>2 DEF EnableTotpSetup
  <2>3. factor'.status = "enabled" /\ factor'.secret = factor.secret
    BY <2>2 DEF TypeOK, FactorRow
  <2>4. EnabledFactor' = r.factor
    BY <1>2, <2>3 DEF EnabledFactor, MayEnroll
  <2>5. devices' = OnlyProof(r.device, r.factor)
    BY <1>2 DEF EnableTotpSetup
  <2>6. \A d \in Devices : devices'[d].mfa \in {r.factor, Null}
    BY <2>1, <2>5, OnlyProofIs
  <2> QED
    BY <2>4, <2>6, ProofsKept
<1>3. CASE /\ ConsumeTotpSessionStepUp(w) \/ StartPendingTotpChange(w)
           /\ MayConsume(r)
  <2>1. r.device \in Devices /\ r.factor \in Secrets /\ r.step \in Nat
    BY <1>3, RequestColumns DEF ConsumeTotpSessionStepUp, StartPendingTotpChange
  <2>2. factor'.status = factor.status /\ factor'.secret = factor.secret
    BY <1>3 DEF ConsumeTotpSessionStepUp, StartPendingTotpChange, TypeOK, FactorRow
  <2>3. EnabledFactor' = EnabledFactor /\ EnabledFactor = r.factor
    BY <1>3, <2>2 DEF EnabledFactor, MayConsume
  <2>4. devices' = [devices EXCEPT ![r.device].mfa = r.factor]
    BY <1>3 DEF ConsumeTotpSessionStepUp, StartPendingTotpChange
  <2>5. \A d \in Devices : devices'[d].mfa = devices[d].mfa \/ devices'[d].mfa = r.factor
    BY <2>1, <2>4 DEF TypeOK, DeviceRow
  <2> QED
    BY <2>3, <2>5, ProofsKept
<1>4. CASE PromotePendingTotpChange(w) /\ MayPromote(r)
  <2>1. r.device \in Devices /\ r.next \in Secrets
    BY <1>4, RequestColumns DEF PromotePendingTotpChange
  <2>2. EnabledFactor' = r.next /\ devices' = OnlyProof(r.device, r.next)
    BY <1>4 DEF PromotePendingTotpChange, EnabledFactor
  <2>3. \A d \in Devices : devices'[d].mfa \in {r.next, Null}
    BY <2>1, <2>2, OnlyProofIs
  <2> QED
    BY <2>2, <2>3, ProofsKept
<1>5. CASE DisableTotpSetup(w) /\ devices' = WithoutProofs
  <2>1. \A d \in Devices : devices'[d].mfa = Null
    BY <1>5, ProofsClosed
  <2> QED
    BY <2>1, ProofsKept
<1> QED
  BY <1>0, <1>1, <1>2, <1>3, <1>4, <1>5
  DEF Factors, CreatePendingTotpSetup, ReadForSetupVerify, ReadForStepUp, ReadForChange,
      ReadForChangeVerify, ReadFactor, EnableTotpSetup, ConsumeTotpSessionStepUp,
      StartPendingTotpChange, PromotePendingTotpChange, DisableTotpSetup

LEMMA ProofsOfOpened ==
  ASSUME TypeOK, ProofsAreOfTheEnabledFactor, NEW w \in Workers,
         CreatePasswordGrantSession(w)
  PROVE  ProofsAreOfTheEnabledFactor'
<1> DEFINE r == flight[w]
<1>1. CASE UNCHANGED <<factor, devices>>
  BY <1>1, ProofsKept DEF EnabledFactor
<1>2. CASE MayOpen(r)
  <2>1. r.device \in Devices /\ r.factor \in Secrets \cup {Null} /\ r.step \in Nat
    BY RequestColumns DEF CreatePasswordGrantSession
  <2>2. PICK t \in Tokens : OpenSession(r.device, t, r.factor)
    BY <1>2 DEF CreatePasswordGrantSession
  <2>3. \A d \in Devices : devices'[d].mfa = devices[d].mfa \/ devices'[d].mfa = r.factor
    BY <2>1, <2>2 DEF OpenSession, TypeOK, DeviceRow
  <2>4. r.factor = Null \/ r.factor = EnabledFactor
    BY <1>2 DEF MayOpen, EnabledFactor
  <2>5. EnabledFactor' = EnabledFactor
    <3>1. CASE r.factor = Null
      BY <1>2, <3>1 DEF CreatePasswordGrantSession, EnabledFactor
    <3>2. CASE r.factor # Null
      BY <1>2, <2>1, <3>2, AcceptedStep DEF CreatePasswordGrantSession, MayOpen
    <3> QED
      BY <3>1, <3>2
  <2> QED
    BY <2>3, <2>4, <2>5, ProofsKept
<1> QED
  BY <1>1, <1>2 DEF CreatePasswordGrantSession

\* Every other statement leaves the factor alone, and takes proofs at most away.
LeavesProofs ==
  /\ factor' = factor
  /\ \A d \in Devices : /\ devices'[d].mfa \in {devices[d].mfa, Null}
                        /\ devices'[d].session = devices[d].session

LEMMA NextProofs ==
  ASSUME TypeOK, [Next]_vars
  PROVE  \/ LeavesProofs
         \/ \E w \in Workers : Factors(w) \/ CreatePasswordGrantSession(w)
<1>1. ASSUME NEW w \in Workers, RevokeCurrentDeviceSession(w)
      PROVE  LeavesProofs
  <2>1. \A row \in DeviceRow :
          LET closed == [row EXCEPT !.status = "revoked", !.mfa = Null] IN
          closed.mfa = Null /\ closed.session = row.session
    BY DEF DeviceRow
  <2>2. \A d \in Devices : devices'[d] \in
          {devices[d], [devices[d] EXCEPT !.status = "revoked", !.mfa = Null]}
    BY <1>1 DEF RevokeCurrentDeviceSession
  <2> QED
    BY <1>1, <2>1, <2>2 DEF RevokeCurrentDeviceSession, LeavesProofs, TypeOK
<1>2. ASSUME factor' = factor, NEW D, devices' \in {devices, Closed(D)}
      PROVE  LeavesProofs
  BY <1>2 DEF LeavesProofs, Closed, Live, TypeOK, DeviceRow
<1>3. ASSUME NEW w \in Workers, Grants(w), ~CreatePasswordGrantSession(w)
      PROVE  LeavesProofs
  <2>1. PICK D : factor' = factor /\ devices' \in {devices, Closed(D)}
    BY <1>3 DEF Grants, ReadForPassword, ReadForRefresh, RotateRefreshToken,
                InvalidateRefreshTokenSession
  <2> QED
    BY <1>2, <2>1
<1>4. ASSUME NEW w \in Workers, Revocations(w) PROVE LeavesProofs
  <2>1. CASE \E c \in access : AuthenticateVaultRequest(w, c)
    BY <1>2, <2>1 DEF AuthenticateVaultRequest
  <2>2. ASSUME NEW d \in Devices, RevokeDeviceSession(w, d)
        PROVE  LeavesProofs
    <3>1. factor' = factor /\ devices' = Closed({d})
      BY <2>2 DEF RevokeDeviceSession
    <3> QED
      BY <1>2, <3>1
  <2>3. CASE RevokeOtherDeviceSessions(w)
    <3>1. PICK D : factor' = factor /\ devices' = Closed(D)
      BY <2>3 DEF RevokeOtherDeviceSessions
    <3> QED
      BY <1>2, <3>1
  <2> QED
    BY <1>1, <1>4, <2>1, <2>2, <2>3 DEF Revocations
<1>5. ASSUME NEW w \in Workers, Credentials(w) PROVE LeavesProofs
  BY <1>2, <1>5 DEF Credentials, ChangeAccountMasterPassword, ChangeAccountKdf,
       RotateAccountSecurityStamp, BeginRecoverableAccountDeletion,
       CommitCredentialGenerationMutation, NewGeneration
<1>6. CASE UNCHANGED <<factor, devices>>
  BY <1>2, <1>6
<1> QED
  BY <1>3, <1>4, <1>5, <1>6
  DEF Next, vars, Abandon, RecoverAccountDeletion, Expire, DeleteExpiredRefreshTokens

LEMMA ProofsNext ==
  ASSUME TypeOK, ProofsAreOfTheEnabledFactor, [Next]_vars
  PROVE  ProofsAreOfTheEnabledFactor'
<1>1. CASE LeavesProofs
  BY <1>1, ProofsKept DEF LeavesProofs, EnabledFactor
<1> QED
  BY <1>1, NextProofs, ProofsOfFactors, ProofsOfOpened

\* A device is marked as having shown TOTP only for the factor that is enabled:
\* no step-up, setup or login in flight puts back a proof that a change voided.
THEOREM ProofsAreCurrent == Spec => []ProofsAreOfTheEnabledFactor
<1>1. Init => ProofsAreOfTheEnabledFactor
  BY DEF Init, ProofsAreOfTheEnabledFactor
<1>2. TypeOK /\ ProofsAreOfTheEnabledFactor /\ [Next]_vars
        => ProofsAreOfTheEnabledFactor'
  BY ProofsNext
<1> QED
  BY <1>1, <1>2, TypeCorrect, PTL DEF Spec

\* A password grant whose batch went through: the device that changed its
\* session is that of the request, and shows the factor the guard asked for.
LEMMA OpenedShowsFactor ==
  ASSUME TypeOK, NEW w \in Workers, CreatePasswordGrantSession(w),
         NEW d \in Devices, devices'[d].session # devices[d].session,
         factor'.status = "enabled"
  PROVE  devices'[d].mfa = factor'.secret
<1> DEFINE r == flight[w]
<1>1. MayOpen(r)
  BY DEF CreatePasswordGrantSession
<1>2. r.device \in Devices /\ r.factor \in Secrets \cup {Null} /\ r.step \in Nat
  BY RequestColumns DEF CreatePasswordGrantSession
<1>3. PICK t \in Tokens : OpenSession(r.device, t, r.factor)
  BY <1>1 DEF CreatePasswordGrantSession
<1>4. devices'[d].mfa = r.factor
  BY <1>2, <1>3 DEF OpenSession, TypeOK
<1>5. factor' = IF r.factor = Null THEN factor ELSE [factor EXCEPT !.last = r.step]
  BY <1>1 DEF CreatePasswordGrantSession
<1>6. factor'.status = factor.status /\ factor'.secret = factor.secret
  BY <1>5 DEF TypeOK, FactorRow
<1> QED
  BY <1>1, <1>4, <1>6 DEF MayOpen

\* A session opened while a factor is enabled has shown a code of it, although
\* the handler read the factor before its batch.
THEOREM SessionsShowTheFactor == Spec => NewSessionsShowTheFactor
<1>1. ASSUME TypeOK, [Next]_vars, NEW d \in Devices,
             devices'[d].session # devices[d].session, factor'.status = "enabled"
      PROVE  devices'[d].mfa = factor'.secret
  <2>1. PICK w \in Workers : CreatePasswordGrantSession(w)
    BY <1>1, NextProofs, FactorsKeepSessions DEF LeavesProofs
  <2> QED
    BY <1>1, <2>1, OpenedShowsFactor
<1>2. TypeOK /\ [Next]_vars =>
        [\A d \in Devices :
           /\ devices'[d].session # devices[d].session
           /\ factor'.status = "enabled"
           => devices'[d].mfa = factor'.secret]_vars
  BY <1>1
<1> QED
  BY <1>2, TypeCorrect, PTL DEF Spec, NewSessionsShowTheFactor

\* The stored secrets have been drawn, and a factor is never replaced by itself.
SecretsSpent ==
  /\ factor.secret # Null => factor.secret \in spent
  /\ factor.next # Null => factor.next \in spent /\ factor.next # factor.secret

\* What a statement does to the row of the factor: a new setup, the enrolment
\* of it, an accepted code, a new pending secret, the promotion of that, or the
\* removal of the row.
FactorEffect ==
  \/ /\ factor.status # "enabled"
     /\ factor'.secret \in Secrets \ spent /\ factor'.secret \in spent'
     /\ factor'.next = Null
  \/ /\ factor.status = "pending"
     /\ factor'.secret = factor.secret /\ factor'.next = factor.next
  \/ /\ factor'.last > factor.last
     /\ factor'.secret = factor.secret /\ factor'.next = factor.next
  \/ /\ factor'.last > factor.last
     /\ factor'.secret = factor.secret
     /\ factor'.next \in Secrets \ spent /\ factor'.next \in spent'
  \/ /\ factor.next \in Secrets
     /\ factor'.secret = factor.next /\ factor'.next = Null
  \/ /\ factor'.secret = Null /\ factor'.next = Null

\* The columns of a row that an UPDATE has written.
LEMMA FactorColumns ==
  ASSUME NEW row \in FactorRow, NEW step \in Nat, NEW secret \in Secrets
  PROVE  LET enrolled == [row EXCEPT !.status = "enabled", !.last = step]
             accepted == [row EXCEPT !.last = step]
             changing == [row EXCEPT !.last = step, !.next = secret]
             setup    == [NoFactor EXCEPT !.status = "pending", !.secret = secret]
         IN
         /\ enrolled.secret = row.secret /\ enrolled.next = row.next
         /\ accepted.secret = row.secret /\ accepted.next = row.next
         /\ accepted.last = step
         /\ changing.secret = row.secret /\ changing.next = secret
         /\ changing.last = step
         /\ setup.secret = secret /\ setup.next = Null
BY DEF FactorRow, NoFactor

LEMMA FactorsFactor ==
  ASSUME TypeOK, NEW w \in Workers, Factors(w)
  PROVE  /\ spent \subseteq spent'
         /\ factor' = factor \/ FactorEffect
<1> DEFINE r == flight[w]
<1>1. factor \in FactorRow /\ r.step \in Nat
  BY RequestColumns DEF TypeOK
<1>2. r.op = "promote" => r.next \in Secrets
  BY RequestColumns
<1>3. CASE CreatePendingTotpSetup(w)
  <2>1. CASE MaySetUp(r)
    <3>1. PICK secret \in Secrets \ spent :
            /\ factor' = [NoFactor EXCEPT !.status = "pending", !.secret = secret]
            /\ spent' = spent \cup {secret}
      BY <1>3, <2>1 DEF CreatePendingTotpSetup
    <3>2. factor'.secret = secret /\ factor'.next = Null
      BY <1>1, <3>1, FactorColumns
    <3> QED
      BY <2>1, <3>1, <3>2 DEF FactorEffect, MaySetUp
  <2>2. CASE ~MaySetUp(r)
    BY <1>3, <2>2 DEF CreatePendingTotpSetup
  <2> QED
    BY <2>1, <2>2
<1>4. CASE EnableTotpSetup(w) /\ MayEnroll(r)
  <2>1. factor' = [factor EXCEPT !.status = "enabled", !.last = r.step]
    BY <1>4 DEF EnableTotpSetup
  <2>2. factor'.secret = factor.secret /\ factor'.next = factor.next
    BY <1>1, <2>1, FactorColumns
  <2> QED
    BY <1>4, <2>2 DEF FactorEffect, EnableTotpSetup, MayEnroll
<1>5. CASE ConsumeTotpSessionStepUp(w) /\ MayConsume(r)
  <2>1. factor' = [factor EXCEPT !.last = r.step]
    BY <1>5 DEF ConsumeTotpSessionStepUp
  <2>2. /\ factor'.secret = factor.secret /\ factor'.next = factor.next
        /\ factor'.last = r.step
    BY <1>1, <2>1, FactorColumns
  <2> QED
    BY <1>5, <2>2 DEF FactorEffect, ConsumeTotpSessionStepUp, MayConsume
<1>6. CASE StartPendingTotpChange(w) /\ MayConsume(r)
  <2>1. PICK secret \in Secrets \ spent :
          /\ factor' = [factor EXCEPT !.last = r.step, !.next = secret]
          /\ spent' = spent \cup {secret}
    BY <1>6 DEF StartPendingTotpChange
  <2>2. /\ factor'.secret = factor.secret /\ factor'.next = secret
        /\ factor'.last = r.step
    BY <1>1, <2>1, FactorColumns
  <2> QED
    BY <1>6, <2>1, <2>2 DEF FactorEffect, MayConsume
<1>7. CASE PromotePendingTotpChange(w) /\ MayPromote(r)
  BY <1>2, <1>7 DEF PromotePendingTotpChange, MayPromote, FactorEffect
<1>8. CASE DisableTotpSetup(w) /\ factor' = NoFactor
  BY <1>8 DEF DisableTotpSetup, NoFactor, FactorEffect
<1>9. CASE UNCHANGED <<factor, spent>>
  BY <1>9
<1> QED
  BY <1>3, <1>4, <1>5, <1>6, <1>7, <1>8, <1>9
  DEF Factors, ReadForSetupVerify, ReadForStepUp, ReadForChange,
      ReadForChangeVerify, ReadFactor, EnableTotpSetup,
      ConsumeTotpSessionStepUp, StartPendingTotpChange,
      PromotePendingTotpChange, DisableTotpSetup

LEMMA NextFactor ==
  ASSUME TypeOK, [Next]_vars
  PROVE  /\ spent \subseteq spent'
         /\ factor' = factor \/ FactorEffect
<1>2. ASSUME NEW w \in Workers, CreatePasswordGrantSession(w)
      PROVE  factor' = factor \/ FactorEffect
  <2>1. factor \in FactorRow /\ flight[w].step \in Nat
    BY RequestColumns DEF TypeOK
  <2>2. CASE factor' = [factor EXCEPT !.last = flight[w].step] /\ flight[w].step > factor.last
    <3>1. /\ factor'.secret = factor.secret /\ factor'.next = factor.next
          /\ factor'.last = flight[w].step
      BY <2>1, <2>2, FactorColumns
    <3> QED
      BY <2>2, <3>1 DEF FactorEffect
  <2> QED
    BY <1>2, <2>2 DEF CreatePasswordGrantSession, MayOpen
<1>3. spent \subseteq spent'
  <2>1. ASSUME NEW w \in Workers, Grants(w) \/ Revocations(w)
        PROVE  spent \subseteq spent'
    BY <2>1 DEF Grants, ReadForPassword, CreatePasswordGrantSession, ReadForRefresh,
       RotateRefreshToken, InvalidateRefreshTokenSession, Revocations,
       AuthenticateVaultRequest, RevokeCurrentDeviceSession, RevokeDeviceSession,
       RevokeOtherDeviceSessions
  <2>2. ASSUME NEW w \in Workers, Credentials(w)
        PROVE  spent \subseteq spent'
    BY <2>2 DEF Credentials, ChangeAccountMasterPassword, ChangeAccountKdf,
       RotateAccountSecurityStamp, BeginRecoverableAccountDeletion,
       CommitCredentialGenerationMutation, NewGeneration
  <2> QED
    BY FactorsFactor, <2>1, <2>2
    DEF Next, vars, Abandon, RecoverAccountDeletion, Expire, DeleteExpiredRefreshTokens
<1> QED
  BY <1>2, <1>3, FactorsFactor, NextProofs DEF LeavesProofs

LEMMA SecretsSpentNext ==
  ASSUME TypeOK, SecretsSpent, [Next]_vars
  PROVE  SecretsSpent'
<1>1. spent \subseteq spent'
  BY NextFactor
<1>2. CASE factor' = factor
  BY <1>1, <1>2 DEF SecretsSpent
<1>3. CASE FactorEffect
  BY <1>1, <1>3 DEF FactorEffect, SecretsSpent
<1> QED
  BY <1>2, <1>3, NextFactor

\* While the factor stays, its last accepted step only grows.
LEMMA LastStepGrows ==
  ASSUME TypeOK, SecretsSpent, [Next]_vars, factor.status = "enabled",
         factor'.secret = factor.secret
  PROVE  factor'.last > factor.last \/ factor' = factor
<1>1. factor.secret # Null
  BY DEF TypeOK, FactorRow
<1> QED
  BY <1>1, NextFactor DEF FactorEffect, SecretsSpent

\* A statement that gives a session a proof of the factor it leaves enabled
\* has accepted a code.
LEMMA ProofsCostCodes ==
  ASSUME TypeOK, [Next]_vars, factor.status = "enabled", factor' = factor,
         NEW d \in Devices
  PROVE  ~GainsProof(d)
<1>0. factor.secret \in Secrets /\ factor.secret # Null /\ factor.last \in Nat
  BY DEF TypeOK, FactorRow
<1>1. CASE LeavesProofs
  BY <1>0, <1>1 DEF LeavesProofs, GainsProof
<1>2. ASSUME NEW w \in Workers, CreatePasswordGrantSession(w)
      PROVE  ~GainsProof(d)
  <2>1. CASE MayOpen(flight[w])
    <3>1. factor'.last = flight[w].step /\ flight[w].step > factor.last
      BY <1>2, <2>1 DEF CreatePasswordGrantSession, MayOpen, TypeOK, FactorRow
    <3>2. flight[w].step \in Nat
      BY RequestColumns
    <3> QED
      BY <1>0, <3>1, <3>2
  <2>2. CASE ~MayOpen(flight[w])
    BY <1>0, <1>2, <2>2 DEF CreatePasswordGrantSession, GainsProof
  <2> QED
    BY <2>1, <2>2
<1>3. ASSUME NEW w \in Workers, Factors(w)
      PROVE  ~GainsProof(d)
  <2>1. /\ flight[w].step \in Nat
        /\ flight[w].op = "promote" => flight[w].next \in Secrets
    BY RequestColumns
  <2>2. CASE devices' = devices
    BY <2>2 DEF GainsProof
  <2>3. CASE devices' = WithoutProofs
    BY <1>0, <2>3, ProofsClosed DEF GainsProof
  <2>4. CASE ConsumeTotpSessionStepUp(w) /\ MayConsume(flight[w])
    <3>1. factor'.last = flight[w].step /\ flight[w].step > factor.last
      BY <2>4 DEF ConsumeTotpSessionStepUp, MayConsume, TypeOK, FactorRow
    <3> QED
      BY <1>0, <2>1, <3>1
  <2>5. CASE StartPendingTotpChange(w) /\ MayConsume(flight[w])
    <3>1. factor'.last = flight[w].step /\ flight[w].step > factor.last
      BY <2>5 DEF StartPendingTotpChange, MayConsume, TypeOK, FactorRow
    <3> QED
      BY <1>0, <2>1, <3>1
  <2>6. CASE PromotePendingTotpChange(w) /\ MayPromote(flight[w])
    \* The pending secret becomes Null, so the row has changed.
    <3>1. factor'.next = Null /\ factor.next \in Secrets
      BY <2>1, <2>6 DEF PromotePendingTotpChange, MayPromote
    <3> QED
      BY <3>1
  <2> QED
    BY <1>3, <2>2, <2>3, <2>4, <2>5, <2>6
    DEF Factors, CreatePendingTotpSetup, ReadForSetupVerify, ReadForStepUp,
        ReadForChange, ReadForChangeVerify, ReadFactor, EnableTotpSetup, MaySetUp,
        MayEnroll, ConsumeTotpSessionStepUp, StartPendingTotpChange,
        PromotePendingTotpChange, DisableTotpSetup
<1> QED
  BY <1>1, <1>2, <1>3, NextProofs

\* A secret that takes the place of another is new or was pending.
LEMMA NewSecretIsFresh ==
  ASSUME TypeOK, [Next]_vars, factor'.secret # factor.secret
  PROVE  factor'.secret \in (Secrets \ spent) \cup {factor.next, Null}
BY NextFactor DEF FactorEffect

\* The secrets of user_totp, enabled and pending, were drawn when a setup or a
\* change began, and the two are never one.
THEOREM SecretsAreSpent == Spec => []SecretsSpent
<1>1. Init => SecretsSpent
  BY DEF Init, NoFactor, SecretsSpent
<1>2. TypeOK /\ SecretsSpent /\ [Next]_vars => SecretsSpent'
  BY SecretsSpentNext
<1> QED
  BY <1>1, <1>2, TypeCorrect, PTL DEF Spec

\* The code of a time step is accepted once per factor: the last accepted step
\* never moves back, every proof costs a later code, and a secret that was
\* replaced is never enrolled again.
THEOREM CodesAcceptedOnce == Spec => CodesAreAcceptedOnce
<1>1. ASSUME TypeOK, SecretsSpent, [Next]_vars, factor.status = "enabled",
             factor'.secret = factor.secret
      PROVE  /\ factor'.last >= factor.last
             /\ (\E d \in Devices : GainsProof(d)) => factor'.last > factor.last
  <2>1. factor'.last > factor.last \/ factor' = factor
    BY <1>1, LastStepGrows
  <2>2. factor.last \in Nat /\ factor'.last \in Nat
    BY <1>1, TypeNext DEF TypeOK, FactorRow
  <2>3. factor' = factor => \A d \in Devices : ~GainsProof(d)
    BY <1>1, ProofsCostCodes
  <2> QED
    BY <2>1, <2>2, <2>3
<1>2. TypeOK /\ SecretsSpent /\ [Next]_vars =>
        [/\ factor'.secret = factor.secret /\ factor.status = "enabled" =>
              /\ factor'.last >= factor.last
              /\ (\E d \in Devices : GainsProof(d)) => factor'.last > factor.last
         /\ factor'.secret # factor.secret
              => factor'.secret \in (Secrets \ spent) \cup {factor.next, Null}]_vars
  BY <1>1, NewSecretIsFresh
<1> QED
  BY <1>2, TypeCorrect, SecretsAreSpent, PTL DEF Spec, CodesAreAcceptedOnce

\* The step that ends a replay's request writes its family's rows at most.
LEMMA ReplayStep ==
  ASSUME TypeOK, [Next]_vars, NEW w \in Workers,
         flight[w].op = "invalidate", flight'[w] = Idle,
         NEW d \in Devices, Live(d), devices[d].session # flight[w].session
  PROVE  devices'[d] = devices[d]
<1>1. flight[w] # Idle /\ flight'[w] # flight[w]
  BY DEF Idle
<1>2. CASE InvalidateRefreshTokenSession(w)
  BY <1>2 DEF InvalidateRefreshTokenSession, Closed, DeviceOfReplay, TypeOK
<1>3. CASE Abandon(w)
  BY <1>3 DEF Abandon
<1>4. ASSUME NEW v \in Workers, v # w,
             Grants(v) \/ Revocations(v) \/ Abandon(v)
      PROVE  flight'[w] = flight[w]
  BY <1>4 DEF Grants, ReadForPassword, CreatePasswordGrantSession, ReadForRefresh,
       RotateRefreshToken, InvalidateRefreshTokenSession, Revocations,
       AuthenticateVaultRequest, RevokeCurrentDeviceSession, RevokeDeviceSession,
       RevokeOtherDeviceSessions, Abandon, Finish, TypeOK
<1>5. ASSUME NEW v \in Workers, v # w, Credentials(v) \/ Factors(v)
      PROVE  flight'[w] = flight[w]
  BY <1>5 DEF Credentials, ChangeAccountMasterPassword, ChangeAccountKdf,
       RotateAccountSecurityStamp, BeginRecoverableAccountDeletion,
       CommitCredentialGenerationMutation, Factors, CreatePendingTotpSetup,
       ReadForSetupVerify, ReadForStepUp, ReadForChange, ReadForChangeVerify,
       ReadFactor, EnableTotpSetup, ConsumeTotpSessionStepUp,
       StartPendingTotpChange, PromotePendingTotpChange, DisableTotpSetup,
       Finish, TypeOK
<1>6. CASE Grants(w) \/ Revocations(w)
  BY <1>1, <1>2, <1>6 DEF Grants, ReadForPassword, CreatePasswordGrantSession,
       ReadForRefresh, RotateRefreshToken, Revocations, AuthenticateVaultRequest,
       RevokeCurrentDeviceSession, RevokeDeviceSession, RevokeOtherDeviceSessions,
       RecentPassword, Authenticated
<1>7. ~Credentials(w) /\ ~Factors(w)
  BY DEF Credentials, ChangeAccountMasterPassword, ChangeAccountKdf,
       RotateAccountSecurityStamp, BeginRecoverableAccountDeletion,
       RecentPassword, Authenticated, Factors, CreatePendingTotpSetup,
       ReadForSetupVerify, ReadForStepUp, ReadForChange, ReadForChangeVerify,
       EnableTotpSetup, ConsumeTotpSessionStepUp, StartPendingTotpChange,
       PromotePendingTotpChange, DisableTotpSetup
<1> QED
  BY <1>1, <1>3, <1>4, <1>5, <1>6, <1>7
  DEF Next, vars, RecoverAccountDeletion, Expire, DeleteExpiredRefreshTokens

\* Replaying an old refresh token ends at most its own family: a session the
\* device has opened since is left alone.
THEOREM ReplaysEndTheirFamily == Spec => ReplayEndsOnlyItsFamily
<1>1. TypeOK /\ [Next]_vars =>
        [\A w \in Workers : flight[w].op = "invalidate" /\ flight'[w] = Idle =>
           \A d \in Devices : Live(d) /\ devices[d].session # flight[w].session
                              => devices'[d] = devices[d]]_vars
  BY ReplayStep
<1> QED
  BY <1>1, TypeCorrect, PTL DEF Spec, ReplayEndsOnlyItsFamily

LEMMA NeverRevivesStep ==
  ASSUME SessionInv, Effect, NEW c \in access, ~Authenticates(c)
  PROVE  ~Authenticates(c)'
<1> USE DEF SessionInv
<1>2. /\ c.device \in Devices /\ c.session \in Tokens
      /\ c.stamp \in spent /\ Begun(c.session)
  BY DEF TypeOK, Claims, StampsSpent, Origins
<1>3. CASE Narrows
  BY <1>2, <1>3 DEF Narrows, TablesNarrow, Authenticates, Live
<1>4. CASE Restamps
  BY <1>2, <1>4 DEF Restamps, Authenticates
<1>5. ASSUME NEW d \in Devices, NEW t \in Tokens, Begins(d, t)
      PROVE  ~Authenticates(c)'
  <2>1. /\ devices'[d].session = t
        /\ \A e \in Devices \ {d} : devices'[e] = devices[e]
        /\ user' = user
    BY <1>5 DEF Begins, OpenSession, TypeOK
  <2>2. c.session # t
    BY <1>2, <1>5 DEF Begins, Begun
  <2> QED
    BY <1>2, <2>1, <2>2 DEF Authenticates, Live
<1>6. ASSUME NEW t \in Tokens, NEW u \in Tokens, Rotates(t, u)
      PROVE  ~Authenticates(c)'
  BY <1>6 DEF Rotates, Authenticates, Live
<1> QED
  BY <1>3, <1>4, <1>5, <1>6 DEF Effect

LEMMA UnchangedNeverRevives ==
  ASSUME UNCHANGED vars, NEW c \in access, ~Authenticates(c)
  PROVE  ~Authenticates(c)'
BY DEF vars, Authenticates, Live

\* An access token that stopped authenticating never does so again: session ids
\* and stamps are never drawn twice.
THEOREM RevokedAccessStaysRevoked == Spec => AccessNeverRevives
<1>1. SessionInv /\ [Next]_vars =>
        [\A c \in access : ~Authenticates(c) => ~Authenticates(c)']_vars
  BY NextEffect, NeverRevivesStep
<1> QED
  BY <1>1, SessionInvariant, PTL DEF Spec, AccessNeverRevives

-----------------------------------------------------------------------------
(* Sessions implements SessionAuthority. *)

LEMMA AuthorityInit == Init => Authority!Init
<1> SUFFICES ASSUME Init PROVE Authority!Init
  OBVIOUS
<1>1. user.stamp \in Stamps /\ spent \cap Stamps = {user.stamp} /\ ~user.disabled
  BY DEF Init
<1>2. user.disabled = FALSE
  BY DEF Init
<1>3. \A d \in Devices : ~Live(d)
  BY DEF Init, Live
<1>4. {t \in Tokens : tokens[t].session = t} = {}
  BY DEF Init, Unused
<1>5. access = {}
  BY DEF Init
<1> QED
  BY <1>1, <1>2, <1>3, <1>4, <1>5 DEF Authority!Init

Claimed(A) == {[device |-> c.device, session |-> c.session, epoch |-> c.stamp] : c \in A}
OpenIn == [d \in Devices |-> IF Live(d) THEN devices[d].session ELSE Null]
BegunIds == {t \in Tokens : tokens[t].session = t}

LEMMA ClaimedOneMore ==
  ASSUME NEW d, NEW s, NEW stamp, NEW method, Sign(d, s, stamp, method)
  PROVE  Claimed(access') = Claimed(access) \cup
           {[device |-> d, session |-> s, epoch |-> stamp]}
<1> DEFINE new == [device |-> d, session |-> s, stamp |-> stamp, method |-> method]
           new2 == [device |-> d, session |-> s, epoch |-> stamp]
<1>1. access' = access \cup {new}
  BY DEF Sign
<1>2. [device |-> new.device, session |-> new.session, epoch |-> new.stamp] = new2
  OBVIOUS
<1> HIDE DEF new, new2
<1>3. Claimed(access') \subseteq Claimed(access) \cup {new2}
  BY <1>1, <1>2 DEF Claimed
<1>4. Claimed(access) \cup {new2} \subseteq Claimed(access')
  BY <1>1, <1>2 DEF Claimed
<1> QED
  BY <1>3, <1>4 DEF new2

LEMMA NarrowedMapping ==
  ASSUME SessionInv, TypeOK', TablesNarrow
  PROVE  /\ BegunIds' = BegunIds
         /\ OpenIn' = [d \in Devices |->
              IF d \in {e \in Devices : devices'[e].status # "live"} THEN Null ELSE OpenIn[d]]
BY DEF TablesNarrow, BegunIds, OpenIn, Live

LEMMA AuthorityStep ==
  ASSUME SessionInv, TypeOK', Effect
  PROVE  Authority!Next
<1> USE DEF SessionInv
<1>1. CASE Narrows
  <2>1. PICK D \in SUBSET Devices :
          D = {e \in Devices : devices'[e].status # "live"}
    OBVIOUS
  <2>2. Authority!Close(D)
    BY <1>1, <2>1, NarrowedMapping
    DEF Narrows, Authority!Close, BegunIds, OpenIn
  <2> QED
    BY <2>2 DEF Authority!Next
<1>2. CASE Restamps
  <2>1. OpenIn' = [d \in Devices |-> Null]
    BY <1>2 DEF Restamps, OpenIn, Live
  <2>2. user'.stamp \in Stamps /\ user'.disabled \in BOOLEAN
    BY DEF TypeOK, UserRow
  <2>3. BegunIds' = BegunIds
    BY <1>2, NarrowedMapping DEF Restamps
  <2>4. (spent \cap Stamps)' = (spent \cap Stamps) \cup {user'.stamp}
    BY <1>2, <2>2 DEF Restamps
  <2>5. PICK stamp \in Stamps : stamp = user'.stamp
    BY <2>2
  <2>6. Authority!NewEpoch(stamp)
    BY <1>2, <2>1, <2>2, <2>3, <2>4, <2>5
    DEF Restamps, Authority!NewEpoch, BegunIds, OpenIn
  <2> QED
    BY <2>6 DEF Authority!Next
<1>3. ASSUME NEW d \in Devices, NEW t \in Tokens, Begins(d, t)
      PROVE  Authority!Next
  <2>1. /\ devices'[d].session = t /\ devices'[d].status = "live"
        /\ \A e \in Devices \ {d} : devices'[e] = devices[e]
        /\ tokens'[t].session = t
        /\ \A u \in Tokens \ {t} : tokens'[u] = tokens[u]
        /\ UNCHANGED <<user, spent>> /\ ~user.disabled
    BY <1>3 DEF Begins, OpenSession, TypeOK
  <2>2. OpenIn' = [OpenIn EXCEPT ![d] = t]
    BY <2>1 DEF OpenIn, Live
  <2>3. BegunIds' = BegunIds \cup {t}
    BY <2>1 DEF BegunIds
  <2>4. t \notin BegunIds
    BY <1>3 DEF Begins, Origins, BegunIds
  <2>5. PICK method \in Methods : Sign(d, t, user.stamp, method)
    BY <1>3 DEF Begins
  <2>6. Claimed(access') = Claimed(access) \cup
          {[device |-> d, session |-> t, epoch |-> user.stamp]}
    BY <2>5, ClaimedOneMore
  <2>7. Authority!Open(d, t)
    BY <2>1, <2>2, <2>3, <2>4, <2>6
    DEF Authority!Open, Authority!Claim, BegunIds, OpenIn, Claimed
  <2> QED
    BY <2>7 DEF Authority!Next
<1>4. ASSUME NEW t \in Tokens, NEW u \in Tokens, Rotates(t, u)
      PROVE  Authority!Next
  <2>0. PICK d \in Devices, s \in Tokens :
          d = tokens[t].device /\ s = tokens[t].session
    BY <1>4 DEF Rotates, TypeOK, TokenRow
  <2>1. /\ d \in Devices /\ Live(d) /\ devices[d].session = s /\ ~user.disabled
        /\ UNCHANGED <<user, spent, devices>>
        /\ tokens[u].session = Null /\ tokens[u].status = "unused"
        /\ s # Null /\ s \in Tokens /\ Begun(s)
    BY <1>4, <2>0 DEF Rotates, Origins, TypeOK, TokenRow
  <2>2. /\ tokens'[u].session = s
        /\ \A v \in Tokens \ {u} : tokens'[v].session = tokens[v].session
    BY <1>4, <2>0, RevokedType DEF Rotates, Revoked, TypeOK, TokenRow
  <2>3. BegunIds' = BegunIds
    BY <2>1, <2>2 DEF BegunIds, Begun
  <2>4. OpenIn' = OpenIn /\ OpenIn[d] = s
    BY <2>1 DEF OpenIn, Live
  <2>5. PICK method \in Methods : Sign(d, s, user.stamp, method)
    BY <1>4, <2>0 DEF Rotates, Sign
  <2>6. Claimed(access') = Claimed(access) \cup
          {[device |-> d, session |-> s, epoch |-> user.stamp]}
    BY <2>5, ClaimedOneMore
  <2>7. Authority!Renew(d)
    BY <2>1, <2>3, <2>4, <2>6
    DEF Authority!Renew, Authority!Claim, BegunIds, OpenIn, Claimed
  <2> QED
    BY <2>7 DEF Authority!Next
<1> QED
  BY <1>1, <1>2, <1>3, <1>4 DEF Effect

\* The four tables, with their batches interleaved in any order, implement the
\* abstract authority: no session is opened twice, claims are signed only for
\* open sessions under the present stamp, and a new stamp closes them all.
THEOREM SessionsImplementAuthority == Spec => ImplementsAuthority
<1>1. SessionInv /\ [Next]_vars => [Authority!Next]_Authority!vars
  BY NextEffect, SessionInvNext, AuthorityStep DEF SessionInv
<1> QED
  BY <1>1, AuthorityInit, SessionInvariant, PTL
  DEF Spec, ImplementsAuthority, Authority!Spec
=============================================================================
