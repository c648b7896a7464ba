------------------------- MODULE AuthRequestsProofs -------------------------
(* Proofs about AuthRequests for every set of workers, handlers, devices,     *)
(* tokens, stamps and requests.  The steps of Sessions keep the invariant     *)
(* proved for them; the exchange of a request begins a session like a grant.  *)
EXTENDS AuthRequests, SessionsProofs

USE NullAssumption, RequestIdAssumption

-----------------------------------------------------------------------------
(* The inductive invariant.  A credential change supersedes whatever is open, *)
(* so what a route read of the account is current for as long as the request  *)
(* it read it for can still be answered or exchanged.                         *)

AnswersInTime ==
  \A h \in Handlers :
    /\ serving[h].op = "respond" =>
         /\ requests[serving[h].request].status # "none"
         /\ requests[serving[h].request].status = "pending" =>
              serving[h].stamp = user.stamp /\ ~user.disabled
    /\ serving[h].op \in {"verified", "consume"} =>
         requests[serving[h].request].status \notin {"none", "pending"}
    /\ serving[h].op = "consume" /\ requests[serving[h].request].status = "approved"
         => serving[h].stamp = user.stamp

\* Only a request that left the state pending names an approver, which is
\* another device, and only one that was exchanged names a session.
AnswersAreFinal ==
  \A r \in Requests :
    /\ requests[r].approver # Null =>
         /\ requests[r].status \notin {"none", "pending"}
         /\ requests[r].approver # requests[r].device
    /\ requests[r].session # Null =>
         requests[r].status \notin {"none", "pending", "approved"}

RequestsInv ==
  /\ SessionInv
  /\ AllTypeOK
  /\ ApprovalsAreCurrent
  /\ AnswersInTime
  /\ AnswersAreFinal

-----------------------------------------------------------------------------
(* Shapes *)

LEMMA ServiceColumns ==
  ASSUME AllTypeOK, NEW h \in Handlers, serving[h].op # "idle"
  PROVE  /\ serving[h].request \in Requests /\ serving[h].device \in Devices
         /\ serving[h].op \in {"respond", "consume"} => serving[h].stamp \in Stamps
BY DEF AllTypeOK, Service

LEMMA NoServiceType == NoService \in Service
BY DEF NoService, Service

LEMMA FinishedType ==
  ASSUME AllTypeOK, NEW h \in Handlers, Finished(h)
  PROVE  serving' \in [Handlers -> Service]
BY NoServiceType DEF AllTypeOK, Finished

LEMMA ServesType ==
  ASSUME AllTypeOK, NEW h \in Handlers, NEW s \in Service,
         serving' = [serving EXCEPT ![h] = s]
  PROVE  serving' \in [Handlers -> Service]
BY DEF AllTypeOK

LEMMA OneRequestType ==
  ASSUME AllTypeOK, NEW r \in Requests, NEW row \in RequestRow,
         requests' = [requests EXCEPT ![r] = row]
  PROVE  requests' \in [Requests -> RequestRow]
BY DEF AllTypeOK

LEMMA RequestRowOf ==
  ASSUME AllTypeOK, NEW r \in Requests
  PROVE  /\ requests[r] \in RequestRow
         /\ requests[r].device \in Devices \cup {Null}
         /\ requests[r].status # "none" => requests[r].device \in Devices
         /\ requests[r].status = "approved" => requests[r].approver # Null
BY DEF AllTypeOK, RequestRow

-----------------------------------------------------------------------------
(* What a step does to a row of auth_requests *)

RequestStays(r) == requests'[r] = requests[r]
RequestLapses(r) == requests'[r] = [requests[r] EXCEPT !.due = TRUE]
RequestAsked(r) ==
  /\ requests[r].status = "none"
  /\ \E d \in Devices : requests'[r] =
       [NoRequest EXCEPT !.status = "pending", !.device = d]
RequestCloses(r) ==
  /\ requests[r].status # "none"
  /\ \E status \in {"superseded", "expired", "deleted"} :
       requests'[r] = [requests[r] EXCEPT !.status = status]
RequestApproved(r) ==
  /\ user' = user
  /\ \E h \in Handlers :
       /\ serving[h].op = "respond" /\ serving[h].request = r
       /\ Answerable(serving[h])
       /\ requests'[r] = [requests[r] EXCEPT !.status = "approved",
                                             !.approver = serving[h].device,
                                             !.approvedBy = serving[h].stamp]
RequestDenied(r) ==
  \E h \in Handlers :
    /\ serving[h].op = "respond" /\ serving[h].request = r
    /\ Answerable(serving[h])
    /\ requests'[r] = [requests[r] EXCEPT !.status = "denied",
                                          !.approver = serving[h].device]
RequestExchanged(r) ==
  /\ requests[r].status = "approved"
  /\ \E t \in Tokens : requests'[r] =
       [requests[r] EXCEPT !.status = "consumed", !.session = t]

RequestStep(r) ==
  \/ RequestStays(r) \/ RequestLapses(r) \/ RequestAsked(r) \/ RequestCloses(r)
  \/ RequestApproved(r) \/ RequestDenied(r) \/ RequestExchanged(r)

\* Each of these steps leaves a row of the same shape.
LEMMA RequestStepType ==
  ASSUME AllTypeOK, NEW r \in Requests, RequestStep(r)
  PROVE  requests'[r] \in RequestRow
<1>1. requests[r] \in RequestRow
  BY RequestRowOf
<1>2. CASE RequestStays(r) \/ RequestLapses(r)
  BY <1>1, <1>2 DEF RequestStays, RequestLapses, RequestRow
<1>3. CASE RequestAsked(r)
  BY <1>3 DEF RequestAsked, RequestRow, NoRequest, Open, Closing
<1>4. CASE RequestCloses(r)
  BY <1>1, <1>4 DEF RequestCloses, RequestRow, Closing
<1>5. CASE RequestApproved(r)
  <2>1. PICK h \in Handlers :
          /\ serving[h].op = "respond"
          /\ Answerable(serving[h]) /\ serving[h].request = r
          /\ requests'[r] = [requests[r] EXCEPT !.status = "approved",
                                                !.approver = serving[h].device,
                                                !.approvedBy = serving[h].stamp]
    BY <1>5 DEF RequestApproved
  <2>2. serving[h].device \in Devices /\ serving[h].stamp \in Stamps
    BY <2>1, ServiceColumns
  <2>3. requests[r].device \in Devices
    BY <2>1, RequestRowOf DEF Answerable
  <2>4. serving[h].device # Null /\ requests[r].device # Null
    BY <2>2, <2>3
  <2> QED
    BY <1>1, <2>1, <2>2, <2>3, <2>4 DEF RequestRow, Open
<1>6. CASE RequestDenied(r)
  <2>1. PICK h \in Handlers :
          /\ serving[h].op = "respond"
          /\ Answerable(serving[h]) /\ serving[h].request = r
          /\ requests'[r] = [requests[r] EXCEPT !.status = "denied",
                                                !.approver = serving[h].device]
    BY <1>6 DEF RequestDenied
  <2>2. serving[h].device \in Devices
    BY <2>1, ServiceColumns
  <2>3. requests[r].device \in Devices
    BY <2>1, RequestRowOf DEF Answerable
  <2>4. serving[h].device # Null /\ requests[r].device # Null
    BY <2>2, <2>3
  <2> QED
    BY <1>1, <2>1, <2>2, <2>3, <2>4 DEF RequestRow, Closing
<1>7. CASE RequestExchanged(r)
  BY <1>1, <1>7 DEF RequestExchanged, RequestRow, Open, Closing
<1> QED
  BY <1>2, <1>3, <1>4, <1>5, <1>6, <1>7 DEF RequestStep

LEMMA SessionRoutesRequests ==
  ASSUME AllTypeOK, NEW w \in Workers, SessionRoutes(w), NEW r \in Requests
  PROVE  RequestStays(r) \/ RequestCloses(r)
<1>1. CASE requests' = requests
  BY <1>1 DEF RequestStays
<1>2. CASE requests' = Superseded
  BY <1>2 DEF Superseded, RequestStays, RequestCloses, Open
<1> QED
  BY <1>1, <1>2 DEF SessionRoutes

LEMMA RoutesRequests ==
  ASSUME AllTypeOK, NEW h \in Handlers, AuthRequestRoutes(h), NEW r \in Requests
  PROVE  RequestStep(r)
<1> DEFINE s == serving[h]
<1>1. CASE ApproveAuthRequest(h)
  <2>1. s.op = "respond" /\ s.request \in Requests /\ user' = user
    BY <1>1, ServiceColumns DEF ApproveAuthRequest, vars
  <2>2. CASE Answerable(s)
    <3>1. requests' = [requests EXCEPT ![s.request] =
                        [requests[s.request] EXCEPT !.status = "approved",
                                                    !.approver = s.device,
                                                    !.approvedBy = s.stamp]]
      BY <1>1, <2>2 DEF ApproveAuthRequest
    <3>2. CASE r = s.request
      BY <2>1, <2>2, <3>1, <3>2 DEF RequestStep, RequestApproved, AllTypeOK
    <3>3. CASE r # s.request
      BY <3>1, <3>3 DEF RequestStep, RequestStays, AllTypeOK
    <3> QED
      BY <3>2, <3>3
  <2>3. CASE ~Answerable(s)
    BY <1>1, <2>3 DEF ApproveAuthRequest, RequestStep, RequestStays
  <2> QED
    BY <2>2, <2>3
<1>2. CASE DenyAuthRequest(h)
  <2>1. s.op = "respond" /\ s.request \in Requests
    BY <1>2, ServiceColumns DEF DenyAuthRequest
  <2>2. CASE Answerable(s)
    <3>1. requests' = [requests EXCEPT ![s.request] =
                        [requests[s.request] EXCEPT !.status = "denied",
                                                    !.approver = s.device]]
      BY <1>2, <2>1, <2>2 DEF DenyAuthRequest, AllTypeOK
    <3>2. CASE r = s.request
      BY <2>1, <2>2, <3>1, <3>2 DEF RequestStep, RequestDenied, AllTypeOK
    <3>3. CASE r # s.request
      BY <3>1, <3>3 DEF RequestStep, RequestStays, AllTypeOK
    <3> QED
      BY <3>2, <3>3
  <2>3. CASE ~Answerable(s)
    BY <1>2, <2>3 DEF DenyAuthRequest, RequestStep, RequestStays
  <2> QED
    BY <2>2, <2>3
<1>3. CASE ConsumeAuthRequestWithSession(h)
  <2>1. s.op = "consume" /\ s.request \in Requests
    BY <1>3, ServiceColumns DEF ConsumeAuthRequestWithSession
  <2>2. CASE Eligible(s)
    <3>1. PICK t \in Tokens :
            requests' = [requests EXCEPT ![s.request] =
              [requests[s.request] EXCEPT !.status = "consumed", !.session = t]]
      BY <1>3, <2>2 DEF ConsumeAuthRequestWithSession
    <3>2. CASE r = s.request
      BY <2>1, <2>2, <3>1, <3>2
      DEF RequestStep, RequestExchanged, Eligible, AllTypeOK
    <3>3. CASE r # s.request
      BY <3>1, <3>3 DEF RequestStep, RequestStays, AllTypeOK
    <3> QED
      BY <3>2, <3>3
  <2>3. CASE ~Eligible(s)
    BY <1>3, <2>3 DEF ConsumeAuthRequestWithSession, RequestStep, RequestStays
  <2> QED
    BY <2>2, <2>3
<1>4. CASE UNCHANGED requests
  BY <1>4 DEF RequestStep, RequestStays
<1> QED
  BY <1>1, <1>2, <1>3, <1>4
  DEF AuthRequestRoutes, AuthenticateApprover, FindAuthRequestVerifier,
      FindAuthRequestUser, AbandonService

LEMMA AllRequestStep ==
  ASSUME AllTypeOK, [AllNext]_allVars, NEW r \in Requests
  PROVE  RequestStep(r)
<1>1. ASSUME NEW q \in Requests, NEW d \in Devices, CreateAuthRequest(q, d)
      PROVE  RequestStep(r)
  <2>1. CASE r = q
    BY <1>1, <2>1 DEF CreateAuthRequest, RequestStep, RequestAsked
  <2>2. CASE r # q
    BY <1>1, <2>2 DEF CreateAuthRequest, RequestStep, RequestStays, RequestCloses
  <2> QED
    BY <2>1, <2>2
<1>2. ASSUME NEW q \in Requests,
             BecomeDue(q) \/ ExpireAuthRequests(q) \/ DeleteRetainedAuthRequests(q)
      PROVE  RequestStep(r)
  <2>1. \/ requests' = [requests EXCEPT ![q] = [requests[q] EXCEPT !.due = TRUE]]
        \/ /\ requests[q].status \in Open \cup Closing
           /\ \E status \in {"expired", "deleted"} :
                requests' = [requests EXCEPT ![q] =
                              [requests[q] EXCEPT !.status = status]]
    BY <1>2 DEF BecomeDue, ExpireAuthRequests, DeleteRetainedAuthRequests
  <2>2. CASE r = q
    BY <2>1, <2>2
    DEF RequestStep, RequestLapses, RequestCloses, Open, Closing, AllTypeOK
  <2>3. CASE r # q
    BY <2>1, <2>3 DEF RequestStep, RequestStays, AllTypeOK
  <2> QED
    BY <2>2, <2>3
<1>3. CASE UNCHANGED requests
  BY <1>3 DEF RequestStep, RequestStays
<1> QED
  BY <1>1, <1>2, <1>3, RoutesRequests, SessionRoutesRequests
  DEF AllNext, allVars, RequestStep

-----------------------------------------------------------------------------
(* What a step does to the account and to a route *)

AccountStep ==
  \/ user' = user
  \/ /\ UNCHANGED serving
     /\ \/ user.disabled /\ UNCHANGED requests
        \/ \A r \in Requests : requests[r].status \in Open
                                 => requests'[r].status = "superseded"

LEMMA SessionRoutesAccount ==
  ASSUME AllTypeOK, NEW w \in Workers, SessionRoutes(w), UNCHANGED serving
  PROVE  AccountStep
<1>1. CASE Grants(w)
  BY <1>1
  DEF AccountStep, Grants, ReadForPassword, CreatePasswordGrantSession,
      ReadForRefresh, RotateRefreshToken, InvalidateRefreshTokenSession
<1>2. CASE Revocations(w)
  BY <1>2
  DEF AccountStep, Revocations, AuthenticateVaultRequest,
      RevokeCurrentDeviceSession, RevokeDeviceSession, RevokeOtherDeviceSessions
<1>3. CASE Factors(w)
  BY <1>3
  DEF AccountStep, Factors, ReadFactor, CreatePendingTotpSetup,
      ReadForSetupVerify, ReadForStepUp, ReadForChange, ReadForChangeVerify,
      EnableTotpSetup, ConsumeTotpSessionStepUp, StartPendingTotpChange,
      PromotePendingTotpChange, DisableTotpSetup
<1>4. CASE /\ Credentials(w)
           /\ requests' = IF SameGeneration(flight[w]) THEN Superseded ELSE requests
  <2>1. CASE SameGeneration(flight[w])
    <3>1. requests' = Superseded
      BY <1>4, <2>1
    <3>2. \A r \in Requests : requests[r].status \in Open
                                => requests'[r].status = "superseded"
      BY <3>1 DEF Superseded, AllTypeOK, RequestRow
    <3> QED
      BY <3>2 DEF AccountStep
  <2>2. CASE ~SameGeneration(flight[w])
    BY <1>4, <2>2
    DEF AccountStep, Credentials, ChangeAccountMasterPassword,
        ChangeAccountKdf, RotateAccountSecurityStamp,
        BeginRecoverableAccountDeletion, CommitCredentialGenerationMutation
  <2> QED
    BY <2>1, <2>2
<1>5. CASE Abandon(w)
  BY <1>5 DEF AccountStep, Abandon
<1> QED
  BY <1>1, <1>2, <1>3, <1>4, <1>5 DEF SessionRoutes

\* The account changes only where nothing can be answered or exchanged.
LEMMA AllAccountStep ==
  ASSUME AllTypeOK, [AllNext]_allVars
  PROVE  AccountStep
<1>1. ASSUME NEW h \in Handlers, AuthRequestRoutes(h)
      PROVE  user' = user
  BY <1>1
  DEF AuthRequestRoutes, AuthenticateApprover, ApproveAuthRequest,
      DenyAuthRequest, FindAuthRequestVerifier, FindAuthRequestUser,
      ConsumeAuthRequestWithSession, AbandonService, vars
<1>2. CASE RecoverAccountDeletion /\ UNCHANGED <<requests, serving>>
  BY <1>2 DEF RecoverAccountDeletion, AccountStep
<1>3. ASSUME NEW t \in Tokens, Expire(t) \/ DeleteExpiredRefreshTokens(t)
      PROVE  user' = user
  BY <1>3 DEF Expire, DeleteExpiredRefreshTokens
<1>4. ASSUME NEW r \in Requests,
             \/ \E d \in Devices : CreateAuthRequest(r, d)
             \/ BecomeDue(r) \/ ExpireAuthRequests(r) \/ DeleteRetainedAuthRequests(r)
      PROVE  user' = user
  BY <1>4 DEF CreateAuthRequest, BecomeDue, ExpireAuthRequests,
              DeleteRetainedAuthRequests, vars
<1>5. UNCHANGED allVars => user' = user
  BY DEF allVars, vars
<1> QED
  BY <1>1, <1>2, <1>3, <1>4, <1>5, SessionRoutesAccount DEF AllNext, AccountStep

\* A route keeps what it read, ends, or reads: what it reads is current.
RouteReads(h) ==
  LET s == serving'[h] IN
  /\ UNCHANGED <<user, requests>>
  /\ \/ /\ s.op = "respond"
        /\ requests[s.request].status # "none"
        /\ s.stamp = user.stamp /\ ~user.disabled
     \/ /\ s.op = "verified"
        /\ requests[s.request].status = "approved"
     \/ /\ s.op = "consume"
        /\ serving[h].op = "verified" /\ s.request = serving[h].request
        /\ s.stamp = user.stamp

RouteStep(h) ==
  \/ serving'[h] = serving[h]
  \/ serving'[h] = NoService
  \/ RouteReads(h)

LEMMA RoutesStep ==
  ASSUME AllTypeOK, NEW g \in Handlers, NEW h \in Handlers, AuthRequestRoutes(g)
  PROVE  RouteStep(h)
<1>1. CASE h # g
  BY <1>1
  DEF AllTypeOK, AuthRequestRoutes, AuthenticateApprover, ApproveAuthRequest,
      DenyAuthRequest, FindAuthRequestVerifier, FindAuthRequestUser,
      ConsumeAuthRequestWithSession, AbandonService, Finished, RouteStep
<1>2. CASE h = g
  <2>1. ASSUME NEW c \in access, NEW r \in Requests, AuthenticateApprover(h, c, r)
        PROVE  RouteReads(h)
    <3>1. serving'[h] = [op |-> "respond", request |-> r, device |-> c.device,
                         stamp |-> user.stamp]
      BY <2>1 DEF AuthenticateApprover, AllTypeOK
    <3>2. /\ serving'[h].op = "respond" /\ serving'[h].request = r
          /\ serving'[h].stamp = user.stamp
      BY <3>1
    <3> QED
      BY <2>1, <3>2 DEF AuthenticateApprover, RouteReads, vars
  <2>2. ASSUME NEW r \in Requests, FindAuthRequestVerifier(h, r)
        PROVE  RouteReads(h)
    <3>1. serving'[h] = [NoService EXCEPT !.op = "verified", !.request = r,
                                          !.device = requests[r].device]
      BY <2>2 DEF FindAuthRequestVerifier, AllTypeOK
    <3>2. serving'[h].op = "verified" /\ serving'[h].request = r
      BY <3>1 DEF NoService
    <3> QED
      BY <2>2, <3>2 DEF FindAuthRequestVerifier, RouteReads, vars
  <2>3. CASE FindAuthRequestUser(h)
    <3>1. serving'[h] = [serving[h] EXCEPT !.op = "consume", !.stamp = user.stamp]
      BY <2>3 DEF FindAuthRequestUser, AllTypeOK
    <3>2. /\ serving'[h].op = "consume" /\ serving'[h].stamp = user.stamp
          /\ serving'[h].request = serving[h].request
      BY <3>1 DEF AllTypeOK, Service
    <3>3. serving[h].op = "verified" /\ UNCHANGED <<user, requests>>
      BY <2>3 DEF FindAuthRequestUser, vars
    <3> QED
      BY <3>2, <3>3 DEF RouteStep, RouteReads
  <2>4. CASE Finished(h)
    BY <2>4 DEF Finished, AllTypeOK, RouteStep
  <2> QED
    BY <1>2, <2>1, <2>2, <2>3, <2>4
    DEF AuthRequestRoutes, ApproveAuthRequest, DenyAuthRequest,
        ConsumeAuthRequestWithSession, AbandonService, RouteStep
<1> QED
  BY <1>1, <1>2

LEMMA AllRouteStep ==
  ASSUME AllTypeOK, [AllNext]_allVars, NEW h \in Handlers
  PROVE  RouteStep(h)
<1>1. CASE UNCHANGED serving
  BY <1>1 DEF RouteStep
<1> QED
  BY <1>1, RoutesStep
  DEF AllNext, allVars, CreateAuthRequest, BecomeDue, ExpireAuthRequests,
      DeleteRetainedAuthRequests

-----------------------------------------------------------------------------
(* Type correctness *)

LEMMA SessionsOrExchange ==
  ASSUME [AllNext]_allVars
  PROVE  [Next]_vars \/ \E h \in Handlers : ConsumeAuthRequestWithSession(h)
<1>1. ASSUME NEW w \in Workers, SessionRoutes(w)
      PROVE  Next
  BY <1>1 DEF SessionRoutes, Next
<1>2. ASSUME NEW h \in Handlers, AuthRequestRoutes(h)
      PROVE  UNCHANGED vars \/ ConsumeAuthRequestWithSession(h)
  BY <1>2
  DEF AuthRequestRoutes, AuthenticateApprover, ApproveAuthRequest,
      DenyAuthRequest, FindAuthRequestVerifier, FindAuthRequestUser,
      AbandonService
<1>3. ASSUME NEW r \in Requests,
             \/ \E d \in Devices : CreateAuthRequest(r, d)
             \/ BecomeDue(r) \/ ExpireAuthRequests(r) \/ DeleteRetainedAuthRequests(r)
      PROVE  UNCHANGED vars
  BY <1>3 DEF CreateAuthRequest, BecomeDue, ExpireAuthRequests,
              DeleteRetainedAuthRequests
<1>4. UNCHANGED allVars => UNCHANGED vars
  BY DEF allVars
<1>5. ASSUME NEW t \in Tokens, Expire(t) \/ DeleteExpiredRefreshTokens(t)
      PROVE  Next
  BY <1>5 DEF Next
<1>6. RecoverAccountDeletion => Next
  BY DEF Next
<1> QED
  BY <1>1, <1>2, <1>3, <1>4, <1>5, <1>6 DEF AllNext

\* The exchange opens a session under the stamp the route read, which is the
\* one in force as long as the request is still approved.
LEMMA ExchangeOpens ==
  ASSUME RequestsInv, NEW h \in Handlers, ConsumeAuthRequestWithSession(h)
  PROVE  /\ UNCHANGED <<user, factor, spent, expired, flight>>
         /\ \/ UNCHANGED <<devices, tokens, access>>
            \/ \E t \in Tokens :
                 /\ serving[h].device \in Devices
                 /\ ~user.disabled
                 /\ OpenSession(serving[h].device, t, Null)
                 /\ Sign(serving[h].device, t, user.stamp, "auth_request")
<1> DEFINE s == serving[h]
<1>1. UNCHANGED <<user, factor, spent, expired, flight>> /\ s.op = "consume"
  BY DEF ConsumeAuthRequestWithSession
<1>2. s.request \in Requests /\ s.device \in Devices
  BY <1>1, ServiceColumns DEF RequestsInv
<1>3. CASE Eligible(s)
  <2>1. PICK t \in Tokens : OpenSession(s.device, t, Null)
                            /\ Sign(s.device, t, s.stamp, "auth_request")
    BY <1>3 DEF ConsumeAuthRequestWithSession
  <2>2. requests[s.request].status = "approved"
    BY <1>3 DEF Eligible
  <2>3. s.stamp = user.stamp /\ ~user.disabled
    BY <1>1, <1>2, <2>2 DEF RequestsInv, AnswersInTime, ApprovalsAreCurrent
  <2> QED
    BY <1>1, <1>2, <2>1, <2>3
<1>4. CASE ~Eligible(s)
  BY <1>1, <1>4 DEF ConsumeAuthRequestWithSession
<1> QED
  BY <1>3, <1>4

LEMMA ExchangeType ==
  ASSUME RequestsInv, NEW h \in Handlers, ConsumeAuthRequestWithSession(h)
  PROVE  TypeOK'
<1>0. TypeOK
  BY DEF RequestsInv, AllTypeOK
<1>1. UNCHANGED <<user, factor, spent, expired, flight>>
  BY ExchangeOpens
<1>2. CASE UNCHANGED <<devices, tokens, access>>
  BY <1>0, <1>1, <1>2 DEF TypeOK
<1>3. ASSUME NEW t \in Tokens, serving[h].device \in Devices,
             OpenSession(serving[h].device, t, Null),
             Sign(serving[h].device, t, user.stamp, "auth_request")
      PROVE  TypeOK'
  <2>1. devices' \in [Devices -> DeviceRow]
    BY <1>0, <1>3 DEF OpenSession, TypeOK, DeviceRow
  <2>2. tokens' \in [Tokens -> TokenRow]
    BY <1>0, <1>3 DEF OpenSession, TypeOK, TokenRow
  <2>3. access' \subseteq Claims
    BY <1>0, <1>3 DEF Sign, TypeOK, Claims, Methods, UserRow
  <2> QED
    BY <1>0, <1>1, <2>1, <2>2, <2>3 DEF TypeOK
<1> QED
  BY <1>2, <1>3, ExchangeOpens

\* No step changes which rows and routes there are.
LEMMA RequestsDomain ==
  ASSUME AllTypeOK, [AllNext]_allVars
  PROVE  requests' = [r \in Requests |-> requests'[r]]
<1>1. CASE UNCHANGED requests
  BY <1>1 DEF AllTypeOK
<1>2. ASSUME NEW h \in Handlers, AuthRequestRoutes(h)
      PROVE  requests' = [r \in Requests |-> requests'[r]]
  BY <1>2
  DEF AllTypeOK, AuthRequestRoutes, AuthenticateApprover, ApproveAuthRequest,
      DenyAuthRequest, FindAuthRequestVerifier, FindAuthRequestUser,
      ConsumeAuthRequestWithSession, AbandonService
<1>3. CASE requests' = Superseded
  BY <1>3 DEF Superseded
<1>4. ASSUME NEW r \in Requests,
             \/ \E d \in Devices : CreateAuthRequest(r, d)
             \/ BecomeDue(r) \/ ExpireAuthRequests(r) \/ DeleteRetainedAuthRequests(r)
      PROVE  requests' = [q \in Requests |-> requests'[q]]
  BY <1>4 DEF AllTypeOK, CreateAuthRequest, BecomeDue, ExpireAuthRequests,
              DeleteRetainedAuthRequests
<1> QED
  BY <1>1, <1>2, <1>3, <1>4 DEF AllNext, allVars, SessionRoutes

LEMMA ServingType ==
  ASSUME AllTypeOK, [AllNext]_allVars
  PROVE  serving' \in [Handlers -> Service]
<1>0. user.stamp \in Stamps
  BY DEF AllTypeOK, TypeOK, UserRow
<1>1. ASSUME NEW h \in Handlers, NEW c \in access, NEW r \in Requests,
             AuthenticateApprover(h, c, r)
      PROVE  serving' \in [Handlers -> Service]
  <2>1. c.device \in Devices
    BY DEF AllTypeOK, TypeOK, Claims
  <2>2. [op |-> "respond", request |-> r, device |-> c.device,
         stamp |-> user.stamp] \in Service
    BY <1>0, <2>1 DEF Service
  <2> QED
    BY <1>1, <2>2, ServesType DEF AuthenticateApprover
<1>2. ASSUME NEW h \in Handlers, NEW r \in Requests, FindAuthRequestVerifier(h, r)
      PROVE  serving' \in [Handlers -> Service]
  <2>1. requests[r].device \in Devices
    BY <1>2, RequestRowOf DEF FindAuthRequestVerifier
  <2>2. [NoService EXCEPT !.op = "verified", !.request = r,
                          !.device = requests[r].device] \in Service
    BY <2>1 DEF NoService, Service
  <2> QED
    BY <1>2, <2>2, ServesType DEF FindAuthRequestVerifier
<1>3. ASSUME NEW h \in Handlers, FindAuthRequestUser(h)
      PROVE  serving' \in [Handlers -> Service]
  <2>1. serving[h].request \in Requests /\ serving[h].device \in Devices
        /\ serving[h] \in Service
    BY <1>3, ServiceColumns DEF FindAuthRequestUser, AllTypeOK
  <2>2. [serving[h] EXCEPT !.op = "consume", !.stamp = user.stamp] \in Service
    BY <1>0, <1>3, <2>1 DEF Service, FindAuthRequestUser
  <2> QED
    BY <1>3, <2>2, ServesType DEF FindAuthRequestUser, AllTypeOK
<1>4. ASSUME NEW h \in Handlers, AuthRequestRoutes(h)
      PROVE  serving' \in [Handlers -> Service]
  BY <1>1, <1>2, <1>3, <1>4, FinishedType
  DEF AuthRequestRoutes, ApproveAuthRequest, DenyAuthRequest,
      ConsumeAuthRequestWithSession, AbandonService
<1>5. CASE UNCHANGED serving
  BY <1>5 DEF AllTypeOK
<1> QED
  BY <1>4, <1>5
  DEF AllNext, allVars, CreateAuthRequest, BecomeDue, ExpireAuthRequests,
      DeleteRetainedAuthRequests

LEMMA AllTypeNext ==
  ASSUME RequestsInv, [AllNext]_allVars
  PROVE  AllTypeOK'
<1>1. TypeOK'
  BY SessionsOrExchange, ExchangeType, TypeNext DEF RequestsInv, AllTypeOK
<1>2. requests' \in [Requests -> RequestRow]
  BY AllRequestStep, RequestStepType, RequestsDomain DEF RequestsInv
<1>3. serving' \in [Handlers -> Service]
  BY ServingType DEF RequestsInv
<1> QED
  BY <1>1, <1>2, <1>3 DEF AllTypeOK

\* On the tables of the sessions an exchange is one more way to begin one.
LEMMA AllEffect ==
  ASSUME RequestsInv, [AllNext]_allVars
  PROVE  Effect /\ ([Next]_vars \/ UNCHANGED flight)
<1>1. CASE [Next]_vars
  BY <1>1, NextEffect DEF RequestsInv
<1>2. ASSUME NEW h \in Handlers, ConsumeAuthRequestWithSession(h)
      PROVE  Effect /\ UNCHANGED flight
  <2>1. UNCHANGED <<user, factor, spent, expired, flight>>
    BY <1>2, ExchangeOpens
  <2>2. CASE UNCHANGED <<devices, tokens, access>>
    BY <2>1, <2>2, StillNarrows DEF Effect
  <2>3. ASSUME NEW t \in Tokens, serving[h].device \in Devices, ~user.disabled,
               OpenSession(serving[h].device, t, Null),
               Sign(serving[h].device, t, user.stamp, "auth_request")
        PROVE  Effect
    <3>1. Begins(serving[h].device, t)
      BY <2>1, <2>3 DEF Begins, OpenSession, Methods
    <3> QED
      BY <2>3, <3>1 DEF Effect
  <2> QED
    BY <1>2, <2>1, <2>2, <2>3, ExchangeOpens
<1> QED
  BY <1>1, <1>2, SessionsOrExchange

-----------------------------------------------------------------------------
(* The invariant is inductive. *)

\* The columns a step leaves in a row.
Becomes(r, status, approver, session) ==
  /\ requests'[r].status = status
  /\ requests'[r].approver = approver
  /\ requests'[r].session = session

LEMMA StepColumns ==
  ASSUME AllTypeOK, NEW r \in Requests, RequestStep(r)
  PROVE  \/ /\ Becomes(r, requests[r].status, requests[r].approver, requests[r].session)
            /\ requests'[r].approvedBy = requests[r].approvedBy
            /\ requests'[r].device = requests[r].device
         \/ /\ requests[r].status = "none"
            /\ Becomes(r, "pending", Null, Null)
         \/ /\ requests[r].status # "none"
            /\ requests'[r].device = requests[r].device
            /\ \E status \in {"superseded", "expired", "deleted"} :
                 Becomes(r, status, requests[r].approver, requests[r].session)
         \/ \E h \in Handlers :
              /\ serving[h].op = "respond" /\ serving[h].request = r
              /\ requests[r].status = "pending"
              /\ requests[r].device # serving[h].device
              /\ requests'[r].device = requests[r].device
              /\ \/ /\ Becomes(r, "approved", serving[h].device, requests[r].session)
                    /\ requests'[r].approvedBy = serving[h].stamp
                    /\ user' = user
                 \/ Becomes(r, "denied", serving[h].device, requests[r].session)
         \/ /\ requests[r].status = "approved"
            /\ requests'[r].device = requests[r].device
            /\ \E t \in Tokens : Becomes(r, "consumed", requests[r].approver, t)
<1>0. requests[r] \in RequestRow
  BY RequestRowOf
<1>1. CASE RequestStays(r)
  BY <1>1 DEF RequestStays, Becomes
<1>2. CASE RequestLapses(r)
  BY <1>0, <1>2 DEF RequestLapses, Becomes, RequestRow
<1>3. CASE RequestAsked(r)
  BY <1>3 DEF RequestAsked, Becomes, NoRequest
<1>4. CASE RequestCloses(r)
  <2>1. PICK status \in {"superseded", "expired", "deleted"} :
          requests'[r] = [requests[r] EXCEPT !.status = status]
    BY <1>4 DEF RequestCloses
  <2>2. /\ Becomes(r, status, requests[r].approver, requests[r].session)
        /\ requests'[r].device = requests[r].device
    BY <1>0, <2>1 DEF Becomes, RequestRow
  <2> QED
    BY <1>4, <2>2 DEF RequestCloses
<1>5. CASE RequestApproved(r)
  <2>1. PICK h \in Handlers :
          /\ serving[h].op = "respond" /\ serving[h].request = r
          /\ Answerable(serving[h])
          /\ requests'[r] = [requests[r] EXCEPT !.status = "approved",
                                                !.approver = serving[h].device,
                                                !.approvedBy = serving[h].stamp]
    BY <1>5 DEF RequestApproved
  <2>2. /\ requests[r].status = "pending"
        /\ requests[r].device # serving[h].device
        /\ user' = user
    BY <1>5, <2>1 DEF Answerable, RequestApproved
  <2>3. /\ Becomes(r, "approved", serving[h].device, requests[r].session)
        /\ requests'[r].approvedBy = serving[h].stamp
        /\ requests'[r].device = requests[r].device
    BY <1>0, <2>1 DEF Becomes, RequestRow
  <2> QED
    BY <2>1, <2>2, <2>3
<1>6. CASE RequestDenied(r)
  <2>1. PICK h \in Handlers :
          /\ serving[h].op = "respond" /\ serving[h].request = r
          /\ Answerable(serving[h])
          /\ requests'[r] = [requests[r] EXCEPT !.status = "denied",
                                                !.approver = serving[h].device]
    BY <1>6 DEF RequestDenied
  <2>2. /\ requests[r].status = "pending"
        /\ requests[r].device # serving[h].device
    BY <2>1 DEF Answerable
  <2>3. /\ Becomes(r, "denied", serving[h].device, requests[r].session)
        /\ requests'[r].device = requests[r].device
    BY <1>0, <2>1 DEF Becomes, RequestRow
  <2> QED
    BY <2>1, <2>2, <2>3
<1>7. CASE RequestExchanged(r)
  <2>1. PICK t \in Tokens :
          requests'[r] = [requests[r] EXCEPT !.status = "consumed", !.session = t]
    BY <1>7 DEF RequestExchanged
  <2>2. /\ Becomes(r, "consumed", requests[r].approver, t)
        /\ requests'[r].device = requests[r].device
    BY <1>0, <2>1 DEF Becomes, RequestRow
  <2> QED
    BY <1>7, <2>2 DEF RequestExchanged
<1> QED
  BY <1>1, <1>2, <1>3, <1>4, <1>5, <1>6, <1>7 DEF RequestStep

LEMMA ApprovalsNext ==
  ASSUME RequestsInv, AllTypeOK', [AllNext]_allVars
  PROVE  ApprovalsAreCurrent'
<1> USE DEF RequestsInv
<1> SUFFICES ASSUME NEW r \in Requests, requests'[r].status = "approved"
             PROVE  requests'[r].approvedBy = user'.stamp /\ ~user'.disabled
  BY DEF ApprovalsAreCurrent
<1>1. RequestStep(r) /\ AccountStep
  BY AllRequestStep, AllAccountStep
<1>2. CASE /\ requests[r].status = "approved"
           /\ requests'[r].approvedBy = requests[r].approvedBy
  BY <1>1, <1>2 DEF AccountStep, ApprovalsAreCurrent, Open
<1>3. ASSUME NEW h \in Handlers,
             serving[h].op = "respond", serving[h].request = r,
             requests[r].status = "pending",
             requests'[r].approvedBy = serving[h].stamp, user' = user
      PROVE  requests'[r].approvedBy = user'.stamp /\ ~user'.disabled
  BY <1>3 DEF AnswersInTime
<1> QED
  BY <1>1, <1>2, <1>3, StepColumns DEF Becomes

LEMMA AnswersInTimeNext ==
  ASSUME RequestsInv, AllTypeOK', [AllNext]_allVars
  PROVE  AnswersInTime'
<1> USE DEF RequestsInv
<1> SUFFICES ASSUME NEW h \in Handlers
             PROVE  LET s == serving'[h] IN
                    /\ s.op = "respond" =>
                         /\ requests'[s.request].status # "none"
                         /\ requests'[s.request].status = "pending" =>
                              s.stamp = user'.stamp /\ ~user'.disabled
                    /\ s.op \in {"verified", "consume"} =>
                         requests'[s.request].status \notin {"none", "pending"}
                    /\ s.op = "consume" /\ requests'[s.request].status = "approved"
                         => s.stamp = user'.stamp
  BY DEF AnswersInTime
<1>1. AccountStep /\ RouteStep(h)
  BY AllAccountStep, AllRouteStep
<1>2. CASE serving'[h] = serving[h]
  <2> DEFINE r == serving[h].request
  <2>1. CASE serving[h].op # "idle"
    <3>1. r \in Requests
      BY <2>1, ServiceColumns
    <3>2. /\ requests[r].status # "none" => requests'[r].status # "none"
          /\ requests[r].status \notin {"none", "pending"}
               => requests'[r].status \notin {"none", "pending"}
          /\ requests[r].status # "none" /\ requests'[r].status = "pending"
               => requests[r].status = "pending"
          /\ requests[r].status \notin {"none", "pending"}
               /\ requests'[r].status = "approved"
               => requests[r].status = "approved"
      BY <3>1, AllRequestStep, StepColumns DEF Becomes
    <3>3. requests[r].status \in Open /\ requests'[r].status \in Open
            => user' = user \/ (user.disabled /\ UNCHANGED requests)
      BY <1>1, <3>1 DEF AccountStep, Open
    <3>4. requests[r].status = "approved" => ~user.disabled
      BY <3>1 DEF ApprovalsAreCurrent
    <3>5. /\ serving[h].op = "respond" =>
               /\ requests[r].status # "none"
               /\ requests[r].status = "pending" =>
                    serving[h].stamp = user.stamp /\ ~user.disabled
          /\ serving[h].op \in {"verified", "consume"} =>
               requests[r].status \notin {"none", "pending"}
          /\ serving[h].op = "consume" /\ requests[r].status = "approved"
               => serving[h].stamp = user.stamp
      BY DEF AnswersInTime
    <3> QED
      BY <1>2, <3>2, <3>3, <3>4, <3>5 DEF Open
  <2>2. CASE serving[h].op = "idle"
    BY <1>2, <2>2
  <2> QED
    BY <2>1, <2>2
<1>3. CASE serving'[h] = NoService
  BY <1>3 DEF NoService
<1>4. CASE RouteReads(h)
  <2>1. UNCHANGED <<user, requests>>
    BY <1>4 DEF RouteReads
  <2>2. serving[h].op = "verified" =>
          requests[serving[h].request].status \notin {"none", "pending"}
    BY DEF AnswersInTime
  <2> QED
    BY <1>4, <2>1, <2>2 DEF RouteReads
<1> QED
  BY <1>1, <1>2, <1>3, <1>4 DEF RouteStep

LEMMA AnswersAreFinalNext ==
  ASSUME RequestsInv, AllTypeOK', [AllNext]_allVars
  PROVE  AnswersAreFinal'
<1> USE DEF RequestsInv
<1> SUFFICES ASSUME NEW r \in Requests
             PROVE  /\ requests'[r].approver # Null =>
                         /\ requests'[r].status \notin {"none", "pending"}
                         /\ requests'[r].approver # requests'[r].device
                    /\ requests'[r].session # Null =>
                         requests'[r].status \notin {"none", "pending", "approved"}
  BY DEF AnswersAreFinal
<1>1. RequestStep(r)
  BY AllRequestStep
<1>2. /\ requests[r].approver # Null =>
           /\ requests[r].status \notin {"none", "pending"}
           /\ requests[r].approver # requests[r].device
      /\ requests[r].session # Null =>
           requests[r].status \notin {"none", "pending", "approved"}
  BY DEF AnswersAreFinal
<1> QED
  BY <1>1, <1>2, StepColumns DEF Becomes

LEMMA RequestsInvInit == AllInit => RequestsInv
<1> SUFFICES ASSUME AllInit PROVE RequestsInv
  OBVIOUS
<1>1. SessionInv /\ TypeOK
  BY SessionInvInit DEF AllInit, SessionInv
<1>2. NoRequest \in RequestRow
  BY DEF NoRequest, RequestRow
<1>3. requests \in [Requests -> RequestRow] /\ serving \in [Handlers -> Service]
  BY <1>2, NoServiceType DEF AllInit
<1>4. \A r \in Requests : /\ requests[r].status = "none"
                          /\ requests[r].approver = Null
                          /\ requests[r].session = Null
  BY DEF AllInit, NoRequest
<1>5. \A h \in Handlers : serving[h].op = "idle"
  BY DEF AllInit, NoService
<1> QED
  BY <1>1, <1>3, <1>4, <1>5
  DEF RequestsInv, AllTypeOK, ApprovalsAreCurrent, AnswersInTime, AnswersAreFinal

LEMMA RequestsInvNext == RequestsInv /\ [AllNext]_allVars => RequestsInv'
<1> SUFFICES ASSUME RequestsInv, [AllNext]_allVars PROVE RequestsInv'
  OBVIOUS
<1>1. AllTypeOK' /\ TypeOK'
  BY AllTypeNext DEF AllTypeOK
<1>2. SessionInv'
  <2>1. SessionInv
    BY DEF RequestsInv
  <2> QED
    BY <1>1, <2>1, AllEffect, OriginsNext, StampsSpentNext, SnapshotsNext,
       OneLiveNext, DevicesNext, CurrentNext DEF SessionInv
<1> QED
  BY <1>1, <1>2, ApprovalsNext, AnswersInTimeNext, AnswersAreFinalNext
  DEF RequestsInv

\* The strengthening holds in every reachable state of the composition: of the
\* session routes, the auth request routes and the crons, interleaved.
THEOREM RequestsInvariant == AllSpec => []RequestsInv
BY RequestsInvInit, RequestsInvNext, PTL DEF AllSpec

-----------------------------------------------------------------------------
(* The properties of auth requests *)

\* Rows and snapshots keep their shape.
THEOREM RequestsTypeCorrect == AllSpec => []AllTypeOK
BY RequestsInvariant, PTL DEF RequestsInv

\* An approval that can still be exchanged was given under the stamp in force,
\* and none is open while the account is disabled: the credential batch
\* supersedes what is open, so an answer in flight comes too late.
THEOREM OpenApprovalsAreCurrent == AllSpec => []ApprovalsAreCurrent
BY RequestsInvariant, PTL DEF RequestsInv

\* What Sessions promises still holds when sessions are also opened through
\* auth requests.
THEOREM ComposedSessionsAreSound ==
  AllSpec => [](/\ OneLiveTokenPerFamily /\ LiveDeviceCanRefresh
                /\ RevokedDeviceIsCutOff /\ LiveSessionsAreCurrent)
BY RequestsInvariant, PTL DEF RequestsInv, SessionInv

LEMMA ExchangeStep ==
  ASSUME RequestsInv, [AllNext]_allVars, NEW r \in Requests
  PROVE  /\ requests[r].session # Null =>
              requests'[r].session = requests[r].session
         /\ requests'[r].session # requests[r].session =>
              /\ requests[r].approver \notin {Null, requests[r].device}
              /\ requests[r].status = "approved"
              /\ ~user.disabled
<1> USE DEF RequestsInv
<1>1. requests'[r].session # requests[r].session =>
        \/ requests[r].status = "none" /\ requests'[r].session = Null
        \/ requests[r].status = "approved"
  BY AllRequestStep, StepColumns DEF Becomes
<1>2. requests[r].session # Null =>
        requests[r].status \notin {"none", "pending", "approved"}
  BY DEF AnswersAreFinal
<1>3. requests[r].status = "approved" =>
        /\ ~user.disabled
        /\ requests[r].approver \notin {Null, requests[r].device}
  BY RequestRowOf DEF ApprovalsAreCurrent, AnswersAreFinal
<1>4. requests[r].status = "none" => requests[r].session = Null
  BY <1>2
<1> QED
  BY <1>1, <1>2, <1>3, <1>4

\* A request is exchanged at most once, while an approval of another device
\* stands and the account is not disabled.
THEOREM ExchangeNeedsOneApproval == AllSpec => ExchangedOnceAndOnlyIfApproved
<1>1. RequestsInv /\ [AllNext]_allVars =>
        [\A r \in Requests :
           /\ requests[r].session # Null =>
                requests'[r].session = requests[r].session
           /\ requests'[r].session # requests[r].session =>
                /\ requests[r].approver \notin {Null, requests[r].device}
                /\ requests[r].status = "approved"
                /\ ~user.disabled]_allVars
  BY ExchangeStep
<1> QED
  BY <1>1, RequestsInvariant, PTL DEF AllSpec, ExchangedOnceAndOnlyIfApproved

LEMMA FirstAnswerStep ==
  ASSUME RequestsInv, [AllNext]_allVars, NEW r \in Requests,
         requests[r].approver # Null
  PROVE  /\ requests'[r].approver = requests[r].approver
         /\ requests[r].status = "approved" => requests'[r].status # "denied"
         /\ requests[r].status # "approved" => requests'[r].status # "approved"
<1> USE DEF RequestsInv
<1>1. requests[r].status \notin {"none", "pending"}
  BY DEF AnswersAreFinal
<1> QED
  BY <1>1, AllRequestStep, StepColumns DEF Becomes

\* Of two racing answers the first stands.
THEOREM AnswersStand == AllSpec => FirstAnswerStands
<1>1. RequestsInv /\ [AllNext]_allVars =>
        [\A r \in Requests :
           requests[r].approver # Null =>
             /\ requests'[r].approver = requests[r].approver
             /\ requests[r].status = "approved" => requests'[r].status # "denied"
             /\ requests[r].status # "approved" => requests'[r].status # "approved"]_allVars
  BY FirstAnswerStep
<1> QED
  BY <1>1, RequestsInvariant, PTL DEF AllSpec, FirstAnswerStands

\* An access token that stopped authenticating is not revived by an exchange
\* either.
THEOREM ComposedAccessStaysRevoked == AllSpec => AccessNeverRevives
<1>1. RequestsInv /\ [AllNext]_allVars =>
        [\A c \in access : ~Authenticates(c) => ~Authenticates(c)']_vars
  BY AllEffect, NeverRevivesStep DEF RequestsInv
<1> QED
  BY <1>1, RequestsInvariant, PTL DEF AllSpec, AccessNeverRevives

\* With auth requests as a third way in, the tables still implement the
\* abstract authority: an exchange opens a new session under the present stamp.
THEOREM RequestsImplementAuthority == AllSpec => ImplementsAuthority
<1>1. RequestsInv /\ [AllNext]_allVars => [Authority!Next]_Authority!vars
  BY AllEffect, AllTypeNext, AuthorityStep DEF RequestsInv, AllTypeOK
<1>2. AllInit => Authority!Init
  BY AuthorityInit DEF AllInit
<1> QED
  BY <1>1, <1>2, RequestsInvariant, PTL
  DEF AllSpec, ImplementsAuthority, Authority!Spec
=============================================================================
