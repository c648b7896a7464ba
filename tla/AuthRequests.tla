---------------------------- MODULE AuthRequests ----------------------------
(***************************************************************************)
(* Logging in with another device, composed with the sessions of the       *)
(* account.  A device that is not logged in creates a row of auth_requests *)
(* and shows its access code to nobody; a logged-in device approves or     *)
(* denies it; the requesting device then exchanges an approved request for *)
(* a session.  Changing the credentials supersedes the open requests in    *)
(* the batch that revokes the sessions.                                    *)
(*                                                                         *)
(* Workers serve the routes of Sessions, Handlers those of this module;    *)
(* both read and write the same tables.  The access code belongs to one    *)
(* requesting device and is not modelled apart from it.  A request created *)
(* for an unknown or disabled account has no owner, so nobody can answer   *)
(* it: it is left out.                                                     *)
(***************************************************************************)
EXTENDS Sessions

CONSTANTS Handlers,   \* concurrent invocations of the auth request routes
          Requests    \* ids of auth requests

ASSUME RequestIdAssumption == Null \notin Requests

VARIABLES requests,   \* rows of auth_requests by id
          serving     \* the auth request route each handler is serving

allVars == <<vars, requests, serving>>

-----------------------------------------------------------------------------
(* Rows.  approvedBy and session are history: the stamp under which the     *)
(* approver was authenticated and the session the request was exchanged for. *)

Open   == {"pending", "approved"}
Closing == {"denied", "consumed", "expired", "superseded"}

RequestRow ==
  {row \in [status : {"none", "deleted"} \cup Open \cup Closing,
            device : Devices \cup {Null}, due : BOOLEAN,
            approver : Devices \cup {Null}, approvedBy : Stamps \cup {Null},
            session : Tokens \cup {Null}] :
     /\ row.status # "none" => row.device # Null
     /\ row.status \in {"approved", "consumed", "denied"} => row.approver # Null}
Service ==
  {s \in [op : {"idle", "respond", "verified", "consume"},
          request : Requests \cup {Null}, device : Devices \cup {Null},
          stamp : Stamps \cup {Null}] :
     /\ s.op # "idle" => s.request # Null /\ s.device # Null
     /\ s.op \in {"respond", "consume"} => s.stamp # Null}

NoRequest == [status |-> "none", device |-> Null, due |-> FALSE,
              approver |-> Null, approvedBy |-> Null, session |-> Null]
NoService == [op |-> "idle", request |-> Null, device |-> Null, stamp |-> Null]

Finished(h) == serving' = [serving EXCEPT ![h] = NoService]

\* Superseding the open requests of the account, in the credential batch.
\* Slip: only the requests that wait for an answer are superseded.
PendingSuperseded ==
  [r \in Requests |-> IF requests[r].status = "pending"
                      THEN [requests[r] EXCEPT !.status = "superseded"]
                      ELSE requests[r]]
Superseded ==
  [r \in Requests |-> IF requests[r].status \in Open
                      THEN [requests[r] EXCEPT !.status = "superseded"]
                      ELSE requests[r]]

-----------------------------------------------------------------------------
(* POST /api/auth-requests: the requesting device is not logged in.  The     *)
(* owner was read before the batch, which does not look at users again.      *)

CreateAuthRequest(r, d) ==
  /\ requests[r].status = "none"
  /\ requests' = [q \in Requests |->
       CASE q = r -> [NoRequest EXCEPT !.status = "pending", !.device = d]
         [] requests[q].status = "pending" /\ requests[q].device = d ->
              [requests[q] EXCEPT !.status = IF requests[q].due THEN "expired"
                                             ELSE "superseded"]
         [] OTHER -> requests[q]]
  /\ UNCHANGED <<vars, serving>>

-----------------------------------------------------------------------------
(* PUT /api/auth-requests/{id}: the answer of a logged-in device *)

\* The id comes with the HTTP request, so the row exists when the handler
\* authenticates; a device does not answer its own request.
AuthenticateApprover(h, c, r) ==
  /\ serving[h] = NoService
  /\ Live(c.device)
  /\ devices[c.device].session = c.session
  /\ ~user.disabled
  /\ user.stamp = c.stamp
  /\ requests[r].status \notin {"none", "deleted"}
  /\ requests[r].device # c.device
  /\ serving' = [serving EXCEPT ![h] =
       [op |-> "respond", request |-> r, device |-> c.device,
        stamp |-> user.stamp]]
  /\ UNCHANGED <<vars, requests>>

Answerable(s) ==
  /\ requests[s.request].status = "pending"
  /\ ~requests[s.request].due
  /\ requests[s.request].device # s.device

ApproveAuthRequest(h) ==
  LET s == serving[h] IN
  /\ s.op = "respond"
  /\ requests' = IF Answerable(s)
                 THEN [requests EXCEPT ![s.request] =
                        [@ EXCEPT !.status = "approved",
                                  !.approver = s.device,
                                  !.approvedBy = s.stamp]]
                 ELSE requests
  /\ Finished(h)
  /\ UNCHANGED vars

\* Slip: a request that was answered can still be denied or approved.
DenyAnyRequest(h) ==
  LET s == serving[h] IN
  /\ s.op = "respond"
  /\ requests' = [requests EXCEPT ![s.request].status = "denied"]
  /\ Finished(h)
  /\ UNCHANGED vars
DenyAuthRequest(h) ==
  LET s == serving[h] IN
  /\ s.op = "respond"
  /\ requests' = IF Answerable(s)
                 THEN [requests EXCEPT ![s.request].status = "denied",
                                       ![s.request].approver = s.device]
                 ELSE requests
  /\ Finished(h)
  /\ UNCHANGED vars

-----------------------------------------------------------------------------
(* The auth request grant of POST /identity/connect/token *)

\* The first read checks the request, the second the account.
FindAuthRequestVerifier(h, r) ==
  /\ serving[h] = NoService
  /\ requests[r].status = "approved"
  /\ ~requests[r].due
  /\ serving' = [serving EXCEPT ![h] =
       [NoService EXCEPT !.op = "verified", !.request = r,
                         !.device = requests[r].device]]
  /\ UNCHANGED <<vars, requests>>

FindAuthRequestUser(h) ==
  /\ serving[h].op = "verified"
  /\ ~user.disabled
  /\ serving' = [serving EXCEPT ![h] =
       [@ EXCEPT !.op = "consume", !.stamp = user.stamp]]
  /\ UNCHANGED <<vars, requests>>

\* The batch looks only at the request: neither the stamp nor disabled_at of
\* the account is compared.
\* Slip: the batch trusts the status read before it.
EligibleWhenRead(s) == TRUE
Eligible(s) ==
  /\ requests[s.request].status = "approved"
  /\ ~requests[s.request].due

ConsumeAuthRequestWithSession(h) ==
  LET s == serving[h] IN
  /\ s.op = "consume"
  /\ \/ /\ Eligible(s)
        /\ \E t \in Tokens :
             /\ OpenSession(s.device, t, Null)
             /\ Sign(s.device, t, s.stamp, "auth_request")
             /\ requests' = [requests EXCEPT
                  ![s.request] = [@ EXCEPT !.status = "consumed",
                                           !.session = t]]
     \/ /\ ~Eligible(s)
        /\ UNCHANGED <<devices, tokens, access, requests>>
  /\ Finished(h)
  /\ UNCHANGED <<user, factor, spent, expired, flight>>

-----------------------------------------------------------------------------
(* Time, the retention cron, and failed invocations *)

BecomeDue(r) ==
  /\ requests[r].status \in Open
  /\ ~requests[r].due
  /\ requests' = [requests EXCEPT ![r].due = TRUE]
  /\ UNCHANGED <<vars, serving>>

ExpireAuthRequests(r) ==
  /\ requests[r].status \in Open
  /\ requests[r].due
  /\ requests' = [requests EXCEPT ![r].status = "expired"]
  /\ UNCHANGED <<vars, serving>>

DeleteRetainedAuthRequests(r) ==
  /\ requests[r].status \in Closing
  /\ requests' = [requests EXCEPT ![r].status = "deleted"]
  /\ UNCHANGED <<vars, serving>>

AbandonService(h) ==
  /\ serving[h] # NoService
  /\ Finished(h)
  /\ UNCHANGED <<vars, requests>>

-----------------------------------------------------------------------------
\* The routes of Sessions; the four that commit a credential generation also
\* supersede the open requests.
SessionRoutes(w) ==
  \/ Grants(w) /\ UNCHANGED requests
  \/ Revocations(w) /\ UNCHANGED requests
  \/ /\ Credentials(w)
     /\ requests' = IF SameGeneration(flight[w]) THEN Superseded ELSE requests
  \/ Factors(w) /\ UNCHANGED requests
  \/ Abandon(w) /\ UNCHANGED requests

AuthRequestRoutes(h) ==
  \/ \E c \in access, r \in Requests : AuthenticateApprover(h, c, r)
  \/ ApproveAuthRequest(h)
  \/ DenyAuthRequest(h)
  \/ \E r \in Requests : FindAuthRequestVerifier(h, r)
  \/ FindAuthRequestUser(h)
  \/ ConsumeAuthRequestWithSession(h)
  \/ AbandonService(h)

AllInit ==
  /\ Init
  /\ requests = [r \in Requests |-> NoRequest]
  /\ serving = [h \in Handlers |-> NoService]

AllNext ==
  \/ \E w \in Workers : SessionRoutes(w) /\ UNCHANGED serving
  \/ RecoverAccountDeletion /\ UNCHANGED <<requests, serving>>
  \/ \E t \in Tokens : /\ Expire(t) \/ DeleteExpiredRefreshTokens(t)
                       /\ UNCHANGED <<requests, serving>>
  \/ \E h \in Handlers : AuthRequestRoutes(h)
  \/ \E r \in Requests :
       \/ \E d \in Devices : CreateAuthRequest(r, d)
       \/ BecomeDue(r)
       \/ ExpireAuthRequests(r)
       \/ DeleteRetainedAuthRequests(r)

AllSpec == AllInit /\ [][AllNext]_allVars

-----------------------------------------------------------------------------
(* Properties *)

\* Every row and every snapshot has its shape: a request that exists names its
\* device, and one that was answered names who answered it.
AllTypeOK ==
  /\ TypeOK
  /\ requests \in [Requests -> RequestRow]
  /\ serving \in [Handlers -> Service]

\* An approval does not outlive the credentials it was given under: one that is
\* still open was given by a session of the present stamp, even when the answer
\* was in flight while the credentials changed, and no approval is open while
\* the account is disabled.
ApprovalsAreCurrent ==
  \A r \in Requests : requests[r].status = "approved" =>
    requests[r].approvedBy = user.stamp /\ ~user.disabled

\* A session opened through a request was allowed to it by another device: the
\* request was answered once, by an approval that no racing denial, expiry or
\* second exchange can be combined with.
ExchangedOnceAndOnlyIfApproved ==
  [][\A r \in Requests :
       /\ requests[r].session # Null =>
            requests'[r].session = requests[r].session
       /\ requests'[r].session # requests[r].session =>
            /\ requests[r].approver \notin {Null, requests[r].device}
            /\ requests[r].status = "approved"
            /\ ~user.disabled]_allVars

\* The first answer stands: a request that was approved is never recorded as
\* denied, nor the other way round.
FirstAnswerStands ==
  [][\A r \in Requests :
       requests[r].approver # Null =>
         /\ requests'[r].approver = requests[r].approver
         /\ requests[r].status = "approved" => requests'[r].status # "denied"
         /\ requests[r].status # "approved" => requests'[r].status # "approved"]_allVars
=============================================================================
