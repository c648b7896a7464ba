-------------------------- MODULE AccountCodesProofs --------------------------
(***************************************************************************)
(* AccountCodes for every number of addresses, requests, codes and         *)
(* sessions.  A stamp that a code or a request carries is the account's    *)
(* only while the account has the address it had when the stamp was read:  *)
(* whoever compares stamps therefore compares addresses.                   *)
(***************************************************************************)
EXTENDS AccountCodes, TLAPS

GoesOut(t) ==
  t \in inbox \cup expired \/ messages[t].state \in {"queued", "dead"}

Sent(t) == messages[t] # NoMessage

\* Codes are numbered, nothing is mailed before it is drawn, no stamp is of the
\* future, and what was answered with success was sent.
Rows ==
  \A t \in Ids :
    /\ codes[t] # NoCode => t <= drawn
    /\ Sent(t) => codes[t] # NoCode
    /\ codes[t] \in Code => codes[t].stamp <= account.stamp
    /\ codes[t] \in Code /\ codes[t].delivery = "accepted" => Sent(t) /\ GoesOut(t)

\* What a request remembers of the code it drew and of the account it read.
Remembers(q) ==
  /\ q.stamp <= account.stamp
  /\ q.to = Null => q.op \in {"verify", "delete"}
  /\ q.op \in {"change", "verify"} => q.code # 0
  /\ q.op \in {"email_verify", "account_delete"} /\ SameGeneration(q) =>
       q.to = account.email
  /\ q.op \in Purposes /\ q.at # "reserve" =>
       /\ q.code # 0 /\ codes[q.code] # NoCode
       /\ codes[q.code] \in Code =>
            /\ codes[q.code].purpose = q.op /\ codes[q.code].stamp = q.stamp
            /\ q.op = "email_change" => codes[q.code].target = q.to
       /\ q.at = "accept" => Sent(q.code) /\ GoesOut(q.code)

InFlight == \A r \in Requests, q \in Request : requests[r] = q => Remembers(q)

\* A mail went to the address its code is for: the one asked for, or the one the
\* account has as long as the code can be used.
AddressedTo(t) ==
  IF codes[t].purpose = "email_change" THEN messages[t].to = codes[t].target
  ELSE Enabled /\ codes[t].stamp = account.stamp => messages[t].to = account.email

Addressed == \A t \in Ids : codes[t] \in Code /\ Sent(t) => AddressedTo(t)

\* An active code is the last of its purpose.
Latest ==
  \A s, t \in Ids : s > t /\ Active(t) /\ codes[s] \in Code =>
    codes[s].purpose # codes[t].purpose

IInv ==
  /\ TypeOK /\ account.stamp <= account.session
  /\ Rows /\ InFlight /\ Addressed /\ Latest
  /\ VerifiedAddressWasProven
  /\ account.email \notin taken

-----------------------------------------------------------------------------
(* What the rows and requests are *)

LEMMA CodeKinds ==
  ASSUME TypeOK, NEW t \in Ids
  PROVE  /\ codes[t] \in Code \cup {NoCode, Deleted}
         /\ codes[t] \in Code => /\ codes[t] # NoCode /\ codes[t] # Deleted
                                 /\ codes[t].state \in {"active", "consumed", "superseded"}
         /\ Active(t) => codes[t] \in Code
         /\ codes[t].state = "consumed" => codes[t] \in Code
         /\ codes[t].state = "superseded" => codes[t] \in Code
         /\ NoCode \notin Code /\ Deleted \notin Code /\ NoCode # Deleted
<1>1. \A c \in Code : c.state \in {"active", "consumed", "superseded"}
  BY DEF Code
<1>2. NoCode.state = "none" /\ Deleted.state = "deleted"
  BY DEF NoCode, Deleted
<1>3. codes[t] \in Code \cup {NoCode, Deleted}
  BY DEF TypeOK
<1> QED
  BY <1>1, <1>2, <1>3 DEF Active

LEMMA MessageKinds ==
  ASSUME TypeOK, NEW t \in Ids
  PROVE  /\ Sent(t) <=> messages[t] \in Message
         /\ messages[t].state \in {"queued", "done", "dead"} => messages[t] \in Message
         /\ NoMessage \notin Message
<1>1. \A x \in Message : x.state \in {"queued", "done", "dead"}
  BY DEF Message
<1>2. NoMessage.state = "none"
  BY DEF NoMessage
<1>3. messages[t] \in Message \cup {NoMessage}
  BY DEF TypeOK
<1> QED
  BY <1>1, <1>2, <1>3 DEF Sent

Ops == Purposes \cup {"change", "verify", "delete", "challenge", "prove"}

LEMMA RequestKinds ==
  ASSUME TypeOK, NEW r \in Requests
  PROVE  /\ requests[r] \in Request \cup {Idle}
         /\ requests[r] # Idle <=> requests[r] \in Request
         /\ requests[r].op \in Ops => requests[r] \in Request
         /\ Idle \notin Request
<1>1. \A q \in Request : q.op \in Ops
  BY DEF Request, Ops, Purposes
<1>2. Idle.op = "idle" /\ "idle" \notin Ops
  BY DEF Idle, Ops, Purposes
<1>3. requests[r] \in Request \cup {Idle}
  BY DEF TypeOK
<1> QED
  BY <1>1, <1>2, <1>3

LEMMA RequestFields ==
  ASSUME NEW q \in Request
  PROVE  /\ q.op \in Ops /\ q.to \in Addresses \cup {Null}
         /\ q.stamp \in 0 .. MaxSession /\ q.session \in 0 .. MaxSession
         /\ q.code \in 0 .. MaxId /\ q.late \in BOOLEAN
  BY DEF Request, Ops, Purposes

LEMMA CodeFields ==
  ASSUME NEW c \in Code
  PROVE  /\ c.purpose \in Purposes /\ c.target \in Addresses \cup {Null}
         /\ c.stamp \in 0 .. MaxSession
         /\ c.delivery \in {"pending", "accepted", "failed"}
  BY DEF Code

LEMMA AccountFields ==
  ASSUME TypeOK
  PROVE  /\ account \in Account
         /\ account.state \in {"enabled", "disabled", "purged"}
         /\ account.stamp \in 0 .. MaxSession /\ account.session \in 0 .. MaxSession
         /\ account.stamp \in Nat /\ account.session \in Nat
         /\ account.verified \in BOOLEAN
         /\ account.email \in Addresses \cup {Null}
         /\ Enabled => account.email \in Addresses /\ account.email # Null
<1>1. /\ account \in Account
      /\ account.email = Null <=> account.state = "purged"
  BY DEF TypeOK
<1>2. MaxSession \in Nat
  BY BoundsAreNatural
<1> QED
  BY <1>1, <1>2 DEF Account, Enabled

-----------------------------------------------------------------------------
(* What a step may do to the account, the codes and the mail so that requests in *)
(* flight go on remembering it                                                *)

AccountGoesOn ==
  /\ account'.stamp >= account.stamp
  /\ Enabled' /\ account'.stamp = account.stamp =>
       Enabled /\ account'.email = account.email

CodesGoOn ==
  \A t \in Ids :
    /\ codes[t] # NoCode => codes'[t] # NoCode
    /\ codes[t] # NoCode /\ codes'[t] \in Code =>
         /\ codes[t] \in Code
         /\ codes'[t].purpose = codes[t].purpose
         /\ codes'[t].stamp = codes[t].stamp
         /\ codes'[t].target = codes[t].target

MailGoesOn ==
  \A t \in Ids : (Sent(t) => Sent(t)') /\ (GoesOut(t) => GoesOut(t)')

LEMMA StillRemembered ==
  ASSUME TypeOK, TypeOK', AccountGoesOn, CodesGoOn, MailGoesOn,
         NEW q \in Request, Remembers(q)
  PROVE  Remembers(q)'
<1>0. /\ q.op \in Ops /\ q.code \in 0 .. MaxId /\ q.stamp \in 0 .. MaxSession
  BY RequestFields
<1>1. /\ account.stamp \in Nat /\ account'.stamp \in Nat /\ MaxSession \in Nat
      /\ MaxId \in Nat
  BY AccountFields, BoundsAreNatural DEF TypeOK, Account
<1>2. q.stamp <= account'.stamp
  BY <1>0, <1>1 DEF AccountGoesOn, Remembers
<1>3. SameGeneration(q)' => SameGeneration(q) /\ account'.email = account.email
  <2> SUFFICES ASSUME Enabled', account'.stamp = q.stamp
               PROVE  Enabled /\ account.stamp = q.stamp /\ account'.email = account.email
    BY DEF SameGeneration
  <2>1. account'.stamp = account.stamp
    BY <1>0, <1>1 DEF AccountGoesOn, Remembers
  <2> QED
    BY <2>1 DEF AccountGoesOn
<1>4. q.code # 0 => q.code \in Ids
  BY <1>0, <1>1 DEF Ids
<1>5. ASSUME q.op \in Purposes, q.at # "reserve"
      PROVE  /\ q.code # 0 /\ codes'[q.code] # NoCode
             /\ codes'[q.code] \in Code =>
                  /\ codes'[q.code].purpose = q.op /\ codes'[q.code].stamp = q.stamp
                  /\ q.op = "email_change" => codes'[q.code].target = q.to
             /\ q.at = "accept" => Sent(q.code)' /\ GoesOut(q.code)'
  BY <1>4, <1>5 DEF CodesGoOn, MailGoesOn, Remembers
<1> QED
  BY <1>2, <1>3, <1>5 DEF Remembers

LEMMA InFlightGoesOn ==
  ASSUME TypeOK, TypeOK', InFlight, AccountGoesOn, CodesGoOn, MailGoesOn,
         NEW r \in Requests, NEW q,
         requests' = [requests EXCEPT ![r] = q],
         q \in Request => Remembers(q)'
  PROVE  InFlight'
<1> SUFFICES ASSUME NEW s \in Requests, NEW p \in Request, requests'[s] = p
             PROVE  Remembers(p)'
  BY DEF InFlight
<1>1. CASE s = r
  <2>1. requests'[s] = q
    BY <1>1 DEF TypeOK
  <2> QED
    BY <2>1
<1>2. CASE s # r
  <2>1. requests[s] = p
    BY <1>2 DEF TypeOK
  <2>2. Remembers(p)
    BY <2>1 DEF InFlight
  <2> QED
    BY <2>2, StillRemembered
<1> QED
  BY <1>1, <1>2

LEMMA InFlightStays ==
  ASSUME TypeOK, TypeOK', InFlight, AccountGoesOn, CodesGoOn, MailGoesOn,
         UNCHANGED requests
  PROVE  InFlight'
<1> SUFFICES ASSUME NEW s \in Requests, NEW p \in Request, requests'[s] = p
             PROVE  Remembers(p)'
  BY DEF InFlight
<1>1. Remembers(p)
  BY DEF InFlight
<1> QED
  BY <1>1, StillRemembered

-----------------------------------------------------------------------------
(* Steps that draw no code and put no message into the queue                  *)

NothingDrawn ==
  /\ drawn' >= drawn
  /\ \A t \in Ids :
       /\ codes[t] = NoCode => codes'[t] = NoCode
       /\ Active(t)' => Active(t)
       /\ codes'[t] \in Code /\ codes'[t].delivery = "accepted" =>
            \/ codes[t].delivery = "accepted"
            \/ Sent(t) /\ GoesOut(t)

NothingQueued ==
  \A t \in Ids : Sent(t)' => Sent(t) /\ messages'[t].to = messages[t].to

LEMMA RowsGoOn ==
  ASSUME TypeOK, TypeOK', Rows, Addressed, Latest,
         AccountGoesOn, CodesGoOn, MailGoesOn, NothingDrawn, NothingQueued
  PROVE  Rows' /\ Addressed' /\ Latest'
<1>0. /\ account.stamp \in Nat /\ account'.stamp \in Nat
      /\ drawn \in Nat /\ drawn' \in Nat /\ MaxId \in Nat /\ MaxSession \in Nat
  BY AccountFields, BoundsAreNatural DEF TypeOK, Account
<1>1. ASSUME NEW t \in Ids, codes'[t] \in Code
      PROVE  /\ codes[t] \in Code /\ codes[t] # NoCode
             /\ codes'[t].purpose = codes[t].purpose /\ codes'[t].stamp = codes[t].stamp
             /\ codes'[t].target = codes[t].target
  BY <1>1, CodeKinds DEF CodesGoOn, NothingDrawn
<1>2. Rows'
  <2> SUFFICES ASSUME NEW t \in Ids
               PROVE  /\ codes'[t] # NoCode => t <= drawn'
                      /\ Sent(t)' => codes'[t] # NoCode
                      /\ codes'[t] \in Code => codes'[t].stamp <= account'.stamp
                      /\ codes'[t] \in Code /\ codes'[t].delivery = "accepted" =>
                           Sent(t)' /\ GoesOut(t)'
    BY DEF Rows
  <2>1. codes'[t] # NoCode => t <= drawn'
    BY <1>0 DEF Rows, NothingDrawn, Ids
  <2>2. Sent(t)' => codes'[t] # NoCode
    BY DEF Rows, NothingQueued, CodesGoOn
  <2>3. ASSUME codes'[t] \in Code PROVE codes'[t].stamp <= account'.stamp
    <3>1. codes'[t].stamp = codes[t].stamp /\ codes[t] \in Code
      BY <1>1, <2>3
    <3>2. codes[t].stamp <= account.stamp /\ codes[t].stamp \in 0 .. MaxSession
      BY <3>1, CodeFields DEF Rows
    <3> QED
      BY <1>0, <3>1, <3>2 DEF AccountGoesOn
  <2>4. ASSUME codes'[t] \in Code, codes'[t].delivery = "accepted"
        PROVE  Sent(t)' /\ GoesOut(t)'
    BY <1>1, <2>4 DEF NothingDrawn, Rows, MailGoesOn
  <2> QED
    BY <2>1, <2>2, <2>3, <2>4
<1>3. Addressed'
  <2> SUFFICES ASSUME NEW t \in Ids, codes'[t] \in Code, Sent(t)'
               PROVE  AddressedTo(t)'
    BY DEF Addressed
  <2>1. codes[t] \in Code /\ Sent(t) /\ messages'[t].to = messages[t].to
    BY <1>1 DEF NothingQueued
  <2>2. AddressedTo(t)
    BY <2>1 DEF Addressed
  <2>3. CASE codes'[t].purpose = "email_change"
    BY <1>1, <2>1, <2>2, <2>3 DEF AddressedTo
  <2>4. CASE codes'[t].purpose # "email_change"
    <3> SUFFICES ASSUME Enabled', codes'[t].stamp = account'.stamp
                 PROVE  messages'[t].to = account'.email
      BY <2>4 DEF AddressedTo
    <3>1. codes[t].stamp = account'.stamp /\ codes[t].stamp <= account.stamp
      BY <1>1, <2>1 DEF Rows
    <3>2. account'.stamp = account.stamp
      BY <1>0, <3>1 DEF AccountGoesOn
    <3> QED
      BY <1>1, <2>1, <2>2, <2>4, <3>1, <3>2 DEF AccountGoesOn, AddressedTo
  <2> QED
    BY <2>3, <2>4
<1>4. Latest'
  <2> SUFFICES ASSUME NEW u \in Ids, NEW t \in Ids, u > t, Active(t)', codes'[u] \in Code
               PROVE  codes'[u].purpose # codes'[t].purpose
    BY DEF Latest
  <2>1. Active(t) /\ codes'[t] \in Code
    BY CodeKinds DEF NothingDrawn, TypeOK, Active, NoCode, Deleted
  <2> QED
    BY <1>1, <2>1 DEF Latest
<1> QED
  BY <1>2, <1>3, <1>4

LEMMA StillStanding ==
  ASSUME TypeOK
  PROVE  /\ UNCHANGED account => AccountGoesOn
         /\ UNCHANGED codes => CodesGoOn
         /\ UNCHANGED <<codes, drawn>> => NothingDrawn
         /\ UNCHANGED <<messages, inbox, expired>> => MailGoesOn
         /\ UNCHANGED messages => NothingQueued
         /\ UNCHANGED <<account, proven, taken>> =>
              /\ VerifiedAddressWasProven => VerifiedAddressWasProven'
              /\ account.email \notin taken => account'.email \notin taken'
<1>1. account.stamp \in Nat /\ drawn \in Nat /\ drawn <= MaxId
  BY AccountFields, BoundsAreNatural DEF TypeOK
<1>2. UNCHANGED account => AccountGoesOn
  BY <1>1 DEF AccountGoesOn, Enabled
<1>3. UNCHANGED codes => CodesGoOn
  BY DEF CodesGoOn
<1>4. UNCHANGED <<codes, drawn>> => NothingDrawn
  <2>1. \A t \in Ids : codes[t] \in Code => codes[t].delivery \in {"pending", "accepted", "failed"}
    BY CodeFields
  <2> QED
    BY <1>1, <2>1 DEF NothingDrawn, Active
<1>5. UNCHANGED <<messages, inbox, expired>> => MailGoesOn
  BY DEF MailGoesOn, Sent, GoesOut
<1>6. UNCHANGED messages => NothingQueued
  BY DEF NothingQueued, Sent
<1>7. UNCHANGED <<account, proven, taken>> =>
              /\ VerifiedAddressWasProven => VerifiedAddressWasProven'
              /\ account.email \notin taken => account'.email \notin taken'
  BY DEF VerifiedAddressWasProven
<1> QED
  BY <1>2, <1>3, <1>4, <1>5, <1>6, <1>7

LEMMA GoingOnIsEnough ==
  ASSUME IInv, TypeOK', account'.stamp <= account'.session,
         AccountGoesOn, CodesGoOn, MailGoesOn, NothingDrawn, NothingQueued,
         InFlight', VerifiedAddressWasProven', account'.email \notin taken'
  PROVE  IInv'
<1>1. Rows' /\ Addressed' /\ Latest'
  BY RowsGoOn DEF IInv
<1> QED
  BY <1>1 DEF IInv

-----------------------------------------------------------------------------
(* Steps of requests that change nothing but the request                      *)

LEMMA RequestAlone ==
  ASSUME IInv, NEW r \in Requests, NEW q \in Request \cup {Idle},
         q \in Request => Remembers(q),
         requests' = [requests EXCEPT ![r] = q],
         UNCHANGED <<account, taken, drawn, codes, expired, messages, inbox,
                     challenge, proven>>
  PROVE  IInv'
<1>1. TypeOK'
  <2>1. requests' \in [Requests -> Request \cup {Idle}]
    BY DEF IInv, TypeOK
  <2> QED
    BY <2>1 DEF IInv, TypeOK
<1>2. /\ AccountGoesOn /\ CodesGoOn /\ MailGoesOn /\ NothingDrawn /\ NothingQueued
      /\ VerifiedAddressWasProven' /\ account'.email \notin taken'
  BY StillStanding DEF IInv
<1>3. q \in Request => Remembers(q)'
  BY <1>1, <1>2, StillRemembered DEF IInv
<1>4. InFlight'
  BY <1>1, <1>2, <1>3, InFlightGoesOn DEF IInv
<1>5. account'.stamp <= account'.session
  BY DEF IInv
<1> QED
  BY <1>1, <1>2, <1>4, <1>5, GoingOnIsEnough

\* The request dies, or is refused.
LEMMA FinishKeeps ==
  ASSUME IInv, NEW r \in Requests, Finish(r),
         UNCHANGED <<account, taken, drawn, codes, expired, messages, inbox,
                     challenge, proven>>
  PROVE  IInv'
  BY RequestKinds, RequestAlone DEF Finish, IInv

LEMMA ReadsAre ==
  ASSUME TypeOK, NEW op \in Ops, NEW at, NEW to \in Addresses \cup {Null},
         NEW code \in 0 .. MaxId, at \in {"reserve", "commit"}
  PROVE  /\ Read(op, at, to, code) \in Request
         /\ Read(op, at, to, code).op = op /\ Read(op, at, to, code).at = at
         /\ Read(op, at, to, code).to = to /\ Read(op, at, to, code).code = code
         /\ Read(op, at, to, code).stamp = account.stamp
<1>1. account.stamp \in 0 .. MaxSession /\ account.session \in 0 .. MaxSession
  BY AccountFields
<1>2. 0 \in 0 .. MaxSession
  BY BoundsAreNatural
<1>3. (code \in expired) \in BOOLEAN
  OBVIOUS
<1> QED
  BY <1>1, <1>2, <1>3 DEF Read, Request, Ops, Purposes

LEMMA AskKeeps ==
  ASSUME IInv, NEW r \in Requests, NEW op \in Ops, NEW at,
         NEW to \in Addresses \cup {Null}, NEW code \in 0 .. MaxId,
         at \in {"reserve", "commit"}, op \in Purposes => at = "reserve",
         to = Null => op \in {"verify", "delete"},
         op \in {"change", "verify"} => code # 0,
         op \in {"email_verify", "account_delete"} => to = account.email,
         Begin(r, Read(op, at, to, code))
  PROVE  IInv'
<1> DEFINE q == Read(op, at, to, code)
<1>1. /\ q \in Request /\ q.op = op /\ q.at = at /\ q.to = to /\ q.code = code
      /\ q.stamp = account.stamp
  BY ReadsAre DEF IInv
<1>2. account.stamp \in Nat
  BY AccountFields DEF IInv
<1>3. Remembers(q)
  BY <1>1, <1>2 DEF Remembers
<1>4. requests' = [requests EXCEPT ![r] = q]
  BY DEF Begin
<1> HIDE DEF q
<1> QED
  BY <1>1, <1>3, <1>4, RequestAlone DEF Begin

LEMMA AsksKeep ==
  ASSUME IInv, NEW r \in Requests, Ask(r)
  PROVE  IInv'
<1>0. /\ 0 \in 0 .. MaxId /\ Purposes \subseteq Ops
      /\ {"change", "verify", "delete", "challenge", "prove"} \subseteq Ops
  BY BoundsAreNatural DEF Ops
<1>1. Enabled => account.email \in Addresses /\ account.email # Null
  BY AccountFields DEF IInv
<1>2. ASSUME NEW a \in Addresses, PostEmailToken(r, a) PROVE IInv'
  <2>1. a # Null
    BY NullIsNoAddress
  <2> QED
    BY <1>0, <1>2, <2>1, AskKeeps DEF PostEmailToken, Purposes
<1>3. CASE PostVerifyEmail(r)
  BY <1>0, <1>1, <1>3, AskKeeps DEF PostVerifyEmail, Purposes
<1>4. CASE PostDeleteRecover(r)
  BY <1>0, <1>1, <1>4, AskKeeps DEF PostDeleteRecover, Purposes
<1>5. CASE DeleteAccountRoute(r)
  BY <1>0, <1>5, AskKeeps DEF DeleteAccountRoute, Purposes
<1>6. CASE PostChallenge(r)
  BY <1>0, <1>1, <1>6, AskKeeps DEF PostChallenge, Purposes
<1>7. CASE VerifyEmailVerification(r)
  <2>1. challenge.id \in 0 .. MaxId
    <3>1. challenge \in Challenge \cup {NoChallenge}
      BY DEF IInv, TypeOK
    <3> QED
      BY <1>0, <3>1, BoundsAreNatural DEF Challenge, NoChallenge, Ids
  <2>2. Enabled /\ Begin(r, Read("prove", "commit", account.email, challenge.id))
    BY <1>7 DEF VerifyEmailVerification
  <2> QED
    BY <1>0, <1>1, <2>1, <2>2, AskKeeps DEF Purposes
<1> QED
  BY <1>2, <1>3, <1>4, <1>5, <1>6, <1>7 DEF Ask

LEMMA CodesBroughtKeep ==
  ASSUME IInv, NEW r \in Requests, BringCode(r)
  PROVE  IInv'
<1>0. /\ {"change", "verify", "delete"} \subseteq Ops
      /\ \A t \in Ids : t \in 0 .. MaxId /\ t # 0
  BY BoundsAreNatural DEF Ops, Ids
<1> PICK t \in Ids : \/ \E a \in Addresses : PostEmail(r, t, a)
                     \/ PostVerifyEmailToken(r, t) \/ PostDeleteRecoverToken(r, t)
  BY DEF BringCode
<1>1. ASSUME NEW a \in Addresses, PostEmail(r, t, a) PROVE IInv'
  <2>1. a # Null
    BY NullIsNoAddress
  <2> QED
    BY <1>0, <1>1, <2>1, AskKeeps DEF PostEmail, Purposes
<1>2. CASE PostVerifyEmailToken(r, t)
  BY <1>0, <1>2, AskKeeps DEF PostVerifyEmailToken, Purposes
<1>3. CASE PostDeleteRecoverToken(r, t)
  BY <1>0, <1>3, AskKeeps DEF PostDeleteRecoverToken, Purposes
<1> QED
  BY <1>1, <1>2, <1>3

-----------------------------------------------------------------------------
(* The way out: a code is drawn, queued, and its row marked                   *)

Marked(c, d, s) == [c EXCEPT !.delivery = d, !.state = s]

LEMMA RecordsStay ==
  ASSUME NEW c \in Code, NEW d \in {"pending", "accepted", "failed"},
         NEW s \in {"active", "consumed", "superseded"},
         NEW new, new = Marked(c, d, s)
  PROVE  /\ new \in Code /\ new.purpose = c.purpose /\ new.stamp = c.stamp
         /\ new.target = c.target /\ new.delivery = d /\ new.state = s
<1>1. new = [purpose |-> c.purpose, target |-> c.target, stamp |-> c.stamp,
             state |-> s, delivery |-> d]
  BY DEF Code, Marked
<1>2. c.purpose \in Purposes /\ c.target \in Addresses \cup {Null} /\ c.stamp \in 0 .. MaxSession
  BY CodeFields
<1>3. new \in Code
  BY <1>1, <1>2 DEF Code
<1> QED
  BY <1>1, <1>3

LEMMA StateStays ==
  ASSUME NEW c \in Code, NEW s \in {"active", "consumed", "superseded"},
         NEW new, new = [c EXCEPT !.state = s]
  PROVE  /\ new \in Code /\ new.purpose = c.purpose /\ new.stamp = c.stamp
         /\ new.target = c.target /\ new.delivery = c.delivery /\ new.state = s
<1>1. new = [purpose |-> c.purpose, target |-> c.target, stamp |-> c.stamp,
             state |-> s, delivery |-> c.delivery]
  BY DEF Code
<1>2. /\ c.purpose \in Purposes /\ c.target \in Addresses \cup {Null}
      /\ c.stamp \in 0 .. MaxSession /\ c.delivery \in {"pending", "accepted", "failed"}
  BY CodeFields
<1>3. new \in Code
  BY <1>1, <1>2 DEF Code
<1> QED
  BY <1>1, <1>3

Places == {"reserve", "enqueue", "accept", "fail", "commit"}
Moved(q, at, c) == [q EXCEPT !.at = at, !.code = c]

LEMMA GotoIs ==
  ASSUME NEW q \in Request, NEW c \in 0 .. MaxId, NEW at \in Places
  PROVE  /\ Moved(q, at, c) \in Request /\ Moved(q, at, c).op = q.op
         /\ Moved(q, at, c).to = q.to /\ Moved(q, at, c).stamp = q.stamp
         /\ Moved(q, at, c).at = at /\ Moved(q, at, c).code = c
<1> PICK new : new = Moved(q, at, c)
  OBVIOUS
<1>1. new = [op |-> q.op, at |-> at, to |-> q.to, stamp |-> q.stamp,
             session |-> q.session, code |-> c, late |-> q.late]
  BY DEF Request, Moved
<1>2. new \in Request
  BY <1>1, RequestFields DEF Request, Ops, Purposes, Places
<1> QED
  BY <1>1, <1>2

\* The row that a reservation writes, and the rows it supersedes.
Draws(q, t) ==
  codes' = [s \in Ids |->
     IF s = t
     THEN [purpose |-> q.op, stamp |-> q.stamp,
           target |-> IF q.op = "email_change" THEN q.to ELSE Null,
           state |-> "active", delivery |-> "pending"]
     ELSE IF s \in Superseded(q.op) THEN [codes[s] EXCEPT !.state = "superseded"]
     ELSE codes[s]]

LEMMA DrawnRows ==
  ASSUME TypeOK, Rows, NEW q \in Request, q.op \in Purposes, drawn < MaxId,
         NEW t, t = drawn + 1, Draws(q, t)
  PROVE  /\ t \in Ids /\ codes[t] = NoCode /\ ~Sent(t)
         /\ codes'[t] \in Code /\ codes'[t].purpose = q.op /\ codes'[t].stamp = q.stamp
         /\ q.op = "email_change" => codes'[t].target = q.to
         /\ codes'[t].delivery = "pending"
         /\ \A s \in Ids \ {t} :
              /\ codes[s] = NoCode => codes'[s] = NoCode
              /\ codes[s] # NoCode => codes'[s] # NoCode
              /\ codes'[s] \in Code \cup {NoCode, Deleted}
              /\ codes'[s] \in Code => /\ codes[s] \in Code
                                       /\ codes'[s].purpose = codes[s].purpose
                                       /\ codes'[s].stamp = codes[s].stamp
                                       /\ codes'[s].target = codes[s].target
                                       /\ codes'[s].delivery = codes[s].delivery
              /\ codes'[s].state = "active" => Active(s) /\ codes[s].purpose # q.op
         /\ codes' \in [Ids -> Code \cup {NoCode, Deleted}]
<1>1. t \in Ids /\ drawn \in Nat /\ ~(t <= drawn)
  BY BoundsAreNatural DEF TypeOK, Ids
<1>2. codes[t] = NoCode /\ ~Sent(t)
  BY <1>1 DEF Rows
<1>3. /\ codes'[t] = [purpose |-> q.op, stamp |-> q.stamp,
                      target |-> IF q.op = "email_change" THEN q.to ELSE Null,
                      state |-> "active", delivery |-> "pending"]
      /\ codes'[t] \in Code
  <2>1. codes'[t] = [purpose |-> q.op, stamp |-> q.stamp,
                     target |-> IF q.op = "email_change" THEN q.to ELSE Null,
                     state |-> "active", delivery |-> "pending"]
    BY <1>1 DEF Draws
  <2> QED
    BY <2>1, RequestFields DEF Code
<1>4. ASSUME NEW s \in Ids \ {t}
      PROVE  /\ codes[s] = NoCode => codes'[s] = NoCode
             /\ codes[s] # NoCode => codes'[s] # NoCode
             /\ codes'[s] \in Code \cup {NoCode, Deleted}
             /\ codes'[s] \in Code => /\ codes[s] \in Code
                                       /\ codes'[s].purpose = codes[s].purpose
                                       /\ codes'[s].stamp = codes[s].stamp
                                       /\ codes'[s].target = codes[s].target
                                       /\ codes'[s].delivery = codes[s].delivery
             /\ codes'[s].state = "active" => Active(s) /\ codes[s].purpose # q.op
  <2>1. CASE s \in Superseded(q.op)
    <3>1. codes'[s] = [codes[s] EXCEPT !.state = "superseded"]
      BY <2>1, <1>4 DEF Draws
    <3>2. codes[s] \in Code /\ codes[s] # NoCode
      BY <2>1, CodeKinds DEF Superseded
    <3> QED
      BY <3>1, <3>2, StateStays, CodeKinds
  <2>2. CASE s \notin Superseded(q.op)
    <3>1. codes'[s] = codes[s]
      BY <2>2, <1>4 DEF Draws
    <3> QED
      BY <2>2, <3>1, CodeKinds DEF Superseded, Active
  <2> QED
    BY <2>1, <2>2
<1>5. codes' \in [Ids -> Code \cup {NoCode, Deleted}]
  BY <1>1, <1>3, <1>4 DEF Draws
<1> QED
  BY <1>1, <1>2, <1>3, <1>4, <1>5

LEMMA ReservationsKeep ==
  ASSUME IInv, NEW r \in Requests, ReserveAccountLifecycleToken(r)
  PROVE  IInv'
<1>0. PICK q \in Request : q = requests[r] /\ Remembers(q) /\ q.op \in Purposes
  BY RequestKinds DEF IInv, InFlight, ReserveAccountLifecycleToken, At, Ops
<1>1. q \in Request /\ Remembers(q) /\ q.op \in Purposes
  BY <1>0
<1>2. CASE ~Eligible(q)
  BY <1>0, <1>2, FinishKeeps DEF ReserveAccountLifecycleToken
<1>3. CASE Eligible(q)
  <2>0. drawn < MaxId /\ drawn \in Nat
    BY DEF ReserveAccountLifecycleToken, IInv, TypeOK
  <2>t. PICK t \in Ids : t = drawn + 1
    BY <2>0, BoundsAreNatural DEF Ids
  <2>1. /\ drawn < MaxId /\ drawn' = t /\ Draws(q, t) /\ Goto(r, "enqueue", t)
        /\ UNCHANGED <<account, taken, expired, messages, inbox, challenge, proven>>
    BY <1>0, <1>3, <2>t DEF ReserveAccountLifecycleToken, Draws
  <2>2. SameGeneration(q)
    BY <1>3 DEF Eligible
  <2>a. TypeOK /\ Rows /\ drawn \in Nat
    BY DEF IInv, TypeOK
  <2>3. /\ t \in Ids /\ codes[t] = NoCode /\ ~Sent(t)
        /\ codes'[t] \in Code /\ codes'[t].purpose = q.op /\ codes'[t].stamp = q.stamp
        /\ q.op = "email_change" => codes'[t].target = q.to
        /\ codes'[t].delivery = "pending"
        /\ codes' \in [Ids -> Code \cup {NoCode, Deleted}]
    BY <1>1, <2>1, <2>a, <2>t, DrawnRows
  <2>4. \A s \in Ids \ {t} :
              /\ codes[s] = NoCode => codes'[s] = NoCode
              /\ codes[s] # NoCode => codes'[s] # NoCode
              /\ codes'[s] \in Code => /\ codes[s] \in Code
                                       /\ codes'[s].purpose = codes[s].purpose
                                       /\ codes'[s].stamp = codes[s].stamp
                                       /\ codes'[s].target = codes[s].target
                                       /\ codes'[s].delivery = codes[s].delivery
              /\ codes'[s].state = "active" => Active(s) /\ codes[s].purpose # q.op
    BY <1>1, <2>1, <2>a, <2>t, DrawnRows
  <2>n. PICK new : new = Moved(q, "enqueue", t)
    OBVIOUS
  <2>5. t \in 0 .. MaxId /\ t # 0
    BY <2>3 DEF Ids
  <2>6. /\ new \in Request /\ new.op = q.op /\ new.to = q.to
        /\ new.stamp = q.stamp /\ new.at = "enqueue" /\ new.code = t
    <3>1. "enqueue" \in Places
      BY DEF Places
    <3> QED
      BY <1>1, <2>5, <2>n, <3>1, GotoIs
  <2>7. requests' = [requests EXCEPT ![r] = new]
    BY <1>0, <2>1, <2>n DEF Goto, Moved, IInv, TypeOK
  <2>8. TypeOK'
    <3>1. requests' \in [Requests -> Request \cup {Idle}]
      BY <2>6, <2>7, <2>a DEF TypeOK
    <3>2. drawn' \in 0 .. MaxId
      BY <2>1, <2>5
    <3> QED
      BY <2>1, <2>3, <2>a, <3>1, <3>2 DEF TypeOK
  <2>9. AccountGoesOn /\ CodesGoOn /\ MailGoesOn
    <3>1. CodesGoOn
      BY <2>3, <2>4 DEF CodesGoOn
    <3> QED
      BY <2>1, <2>a, <3>1, StillStanding
  <2>10. Remembers(new)'
    <3>1. Remembers(q)'
      BY <1>1, <2>8, <2>9, <2>a, StillRemembered
    <3>2. codes'[t] # NoCode
      BY <2>3, <2>8, CodeKinds DEF NoCode, Code
    <3> QED
      BY <1>1, <2>3, <2>5, <2>6, <3>1, <3>2 DEF Remembers, SameGeneration
  <2>11. InFlight'
    BY <2>7, <2>8, <2>9, <2>10, InFlightGoesOn DEF IInv
  <2>12. account.stamp \in Nat
    BY <2>a, AccountFields
  <2>13. Rows'
    <3>1. \A s \in Ids : GoesOut(s)' <=> GoesOut(s)
      BY <2>1 DEF GoesOut
    <3>2. \A s \in Ids : Sent(s)' <=> Sent(s)
      BY <2>1 DEF Sent
    <3>3. drawn <= drawn' /\ t <= drawn'
      BY <2>1, <2>a, <2>t
    <3>4. ASSUME NEW s \in Ids \ {t}
          PROVE /\ codes'[s] # NoCode => s <= drawn'
                /\ Sent(s)' => codes'[s] # NoCode
                /\ codes'[s] \in Code => codes'[s].stamp <= account'.stamp
                /\ codes'[s] \in Code /\ codes'[s].delivery = "accepted" =>
                     Sent(s)' /\ GoesOut(s)'
      <4>1. s <= drawn => s <= drawn'
        BY <2>1, <2>a, <2>t, <3>3 DEF Ids
      <4> QED
        BY <2>1, <2>4, <2>a, <3>1, <3>2, <4>1 DEF Rows
    <3>5. /\ t <= drawn' /\ ~Sent(t)' /\ codes'[t].stamp <= account'.stamp
          /\ codes'[t].delivery # "accepted"
      BY <1>1, <2>1, <2>3, <3>2, <3>3 DEF Remembers
    <3> QED
      BY <2>3, <3>4, <3>5 DEF Rows
  <2>14. Addressed'
    <3> SUFFICES ASSUME NEW s \in Ids, codes'[s] \in Code, Sent(s)'
                 PROVE  AddressedTo(s)'
      BY DEF Addressed
    <3>1. Sent(s) /\ s # t
      BY <2>1, <2>3 DEF Sent
    <3>2. AddressedTo(s)
      BY <2>4, <3>1 DEF IInv, Addressed
    <3> QED
      BY <2>1, <2>4, <3>1, <3>2 DEF AddressedTo, Enabled
  <2>15. Latest'
    <3> SUFFICES ASSUME NEW u \in Ids, NEW s \in Ids, u > s, Active(s)', codes'[u] \in Code
                 PROVE  codes'[u].purpose # codes'[s].purpose
      BY DEF Latest
    <3>1. CASE u = t
      <4>1. s # t /\ codes'[s].state = "active"
        BY <3>1 DEF Ids, Active
      <4>2. codes'[s] \in Code
        BY <2>8, CodeKinds, <4>1 DEF TypeOK, NoCode, Deleted
      <4> QED
        BY <2>3, <2>4, <3>1, <4>1, <4>2
    <3>2. CASE u # t
      <4>1. codes[u] \in Code /\ codes[u] # NoCode
        BY <2>4, <2>a, <3>2, CodeKinds
      <4>2. u <= drawn
        BY <2>a, <4>1 DEF Rows
      <4>3. s # t
        BY <2>a, <2>t, <4>2 DEF Ids
      <4>4. codes'[s].state = "active" /\ codes'[s] \in Code
        BY <2>8, CodeKinds DEF Active, TypeOK, NoCode, Deleted
      <4> QED
        BY <2>4, <3>2, <4>1, <4>3, <4>4 DEF Latest, IInv
    <3> QED
      BY <3>1, <3>2
  <2>16. /\ VerifiedAddressWasProven' /\ account'.email \notin taken'
         /\ account'.stamp <= account'.session
    BY <2>1 DEF IInv, VerifiedAddressWasProven
  <2> QED
    BY <2>8, <2>11, <2>13, <2>14, <2>15, <2>16 DEF IInv
<1> QED
  BY <1>2, <1>3

LEMMA DeliveriesKeep ==
  ASSUME IInv, NEW r \in Requests, DeliverAccountLifecycleToken(r)
  PROVE  IInv'
<1>0. PICK q \in Request : /\ q = requests[r] /\ Remembers(q) /\ q.op \in Purposes
                           /\ q.at = "enqueue"
  BY RequestKinds DEF IInv, InFlight, DeliverAccountLifecycleToken, At, Ops
<1>1. PICK t \in Ids : t = q.code
  BY <1>0, RequestFields, BoundsAreNatural DEF Remembers, Ids
<1>2. /\ codes[t] # NoCode
      /\ codes[t] \in Code =>
           /\ codes[t].purpose = q.op /\ codes[t].stamp = q.stamp
           /\ q.op = "email_change" => codes[t].target = q.to
      /\ q.to \in Addresses
  BY <1>0, <1>1, RequestFields DEF Remembers, Purposes
<1>3. PICK queued \in BOOLEAN : \E answer \in Answers(queued) :
        /\ messages' = IF queued
             THEN [messages EXCEPT ![t] = [state |-> "queued", to |-> q.to]] ELSE messages
        /\ Goto(r, answer, t)
  BY <1>0, <1>1 DEF DeliverAccountLifecycleToken
<1>4. PICK answer \in Answers(queued) : Goto(r, answer, t)
  BY <1>3
<1>5. /\ messages' = IF queued
           THEN [messages EXCEPT ![t] = [state |-> "queued", to |-> q.to]] ELSE messages
      /\ UNCHANGED <<account, taken, drawn, codes, expired, inbox, challenge, proven>>
  BY <1>3 DEF DeliverAccountLifecycleToken
<1>6. PICK new : new = Moved(q, answer, t)
  OBVIOUS
<1>7. /\ new \in Request /\ new.op = q.op /\ new.to = q.to
      /\ new.stamp = q.stamp /\ new.at = answer /\ new.code = t
  <2>1. answer \in Places /\ t \in 0 .. MaxId
    BY BoundsAreNatural DEF Places, Answers, Ids
  <2> QED
    BY <1>6, <2>1, GotoIs
<1>8. requests' = [requests EXCEPT ![r] = new]
  BY <1>0, <1>4, <1>6 DEF Goto, Moved, IInv, TypeOK
<1>9. /\ \A s \in Ids \ {t} : messages'[s] = messages[s]
      /\ queued => messages'[t] = [state |-> "queued", to |-> q.to]
      /\ ~queued => messages'[t] = messages[t]
      /\ messages' \in [Ids -> Message \cup {NoMessage}]
  <2>1. [state |-> "queued", to |-> q.to] \in Message
    BY <1>2 DEF Message
  <2> QED
    BY <1>5, <2>1 DEF IInv, TypeOK
<1>10. TypeOK'
  <2>1. requests' \in [Requests -> Request \cup {Idle}]
    BY <1>7, <1>8 DEF IInv, TypeOK
  <2> QED
    BY <1>5, <1>9, <2>1 DEF IInv, TypeOK
<1>11. queued => Sent(t)' /\ GoesOut(t)'
  BY <1>9, <1>10, MessageKinds DEF Sent, GoesOut, NoMessage
<1>12. AccountGoesOn /\ CodesGoOn /\ NothingDrawn
  BY <1>5, StillStanding DEF IInv
<1>13. MailGoesOn
  <2> SUFFICES ASSUME NEW s \in Ids
               PROVE  (Sent(s) => Sent(s)') /\ (GoesOut(s) => GoesOut(s)')
    BY DEF MailGoesOn
  <2>1. CASE s = t /\ queued
    BY <1>11, <2>1
  <2>2. CASE ~(s = t /\ queued)
    <3>1. messages'[s] = messages[s]
      BY <1>9, <2>2
    <3> QED
      BY <1>5, <3>1 DEF Sent, GoesOut
  <2> QED
    BY <2>1, <2>2
<1>14. Remembers(new)'
  <2>1. Remembers(q)'
    BY <1>0, <1>10, <1>12, <1>13, StillRemembered DEF IInv
  <2>2. answer = "accept" => Sent(t)' /\ GoesOut(t)'
    BY <1>11 DEF Answers
  <2>3. codes' = codes /\ t # 0
    BY <1>5, BoundsAreNatural DEF Ids
  <2> QED
    BY <1>0, <1>1, <1>2, <1>7, <2>1, <2>2, <2>3 DEF Remembers, SameGeneration
<1>15. InFlight'
  BY <1>8, <1>10, <1>12, <1>13, <1>14, InFlightGoesOn DEF IInv
<1>16. Rows'
  BY <1>2, <1>5, <1>9, <1>13 DEF IInv, Rows, MailGoesOn, Sent
<1>17. Addressed'
  <2> SUFFICES ASSUME NEW s \in Ids, codes'[s] \in Code, Sent(s)'
               PROVE  AddressedTo(s)'
    BY DEF Addressed
  <2>1. CASE s = t /\ queued
    <3>1. messages'[s].to = q.to /\ codes'[s] = codes[s]
      BY <1>5, <1>9, <2>1
    <3>2. CASE q.op = "email_change"
      BY <1>2, <1>5, <2>1, <3>1, <3>2 DEF AddressedTo
    <3>3. CASE q.op # "email_change"
      <4>1. SameGeneration(q) => q.to = account.email
        BY <1>0, <3>3 DEF Remembers, Purposes
      <4> QED
        BY <1>2, <1>5, <2>1, <3>1, <3>3, <4>1 DEF AddressedTo, SameGeneration, Enabled
    <3> QED
      BY <3>2, <3>3
  <2>2. CASE ~(s = t /\ queued)
    <3>1. messages'[s] = messages[s]
      BY <1>9, <2>2
    <3>2. AddressedTo(s)
      BY <1>5, <3>1 DEF IInv, Addressed, Sent
    <3> QED
      BY <1>5, <3>1, <3>2 DEF AddressedTo, Enabled
  <2> QED
    BY <2>1, <2>2
<1>18. Latest'
  BY <1>5 DEF IInv, Latest, Active
<1>19. /\ VerifiedAddressWasProven' /\ account'.email \notin taken'
       /\ account'.stamp <= account'.session
  BY <1>5 DEF IInv, VerifiedAddressWasProven
<1> QED
  BY <1>10, <1>15, <1>16, <1>17, <1>18, <1>19 DEF IInv

\* One row gets another state or another delivery, and its request ends.
LEMMA MarksKeep ==
  ASSUME IInv, NEW r \in Requests, NEW t \in Ids, Finish(r),
         UNCHANGED <<account, taken, drawn, expired, messages, inbox, challenge, proven>>,
         Active(t), NEW d \in {"pending", "accepted", "failed"},
         NEW s \in {"active", "consumed", "superseded"},
         codes' = [codes EXCEPT ![t].delivery = d, ![t].state = s],
         d = "accepted" => codes[t].delivery = "accepted" \/ (Sent(t) /\ GoesOut(t))
  PROVE  IInv'
<1> PICK new : new = Marked(codes[t], d, s)
  OBVIOUS
<1>1. codes[t] \in Code
  BY CodeKinds DEF IInv
<1>2. /\ new \in Code /\ new.purpose = codes[t].purpose /\ new.stamp = codes[t].stamp
      /\ new.target = codes[t].target /\ new.delivery = d
  BY <1>1, RecordsStay
<1>3. codes' = [codes EXCEPT ![t] = new]
  BY DEF Marked, IInv, TypeOK
<1>4. codes'[t] = new /\ \A u \in Ids \ {t} : codes'[u] = codes[u]
  BY <1>3 DEF IInv, TypeOK
<1>5. TypeOK'
  <2>1. codes' \in [Ids -> Code \cup {NoCode, Deleted}]
    BY <1>2, <1>3 DEF IInv, TypeOK
  <2>2. requests' \in [Requests -> Request \cup {Idle}]
    BY DEF IInv, TypeOK, Finish
  <2> QED
    BY <2>1, <2>2 DEF IInv, TypeOK
<1>6. CodesGoOn
  <2>1. new # NoCode
    BY <1>2 DEF Code, NoCode
  <2> QED
    BY <1>1, <1>2, <1>4, <2>1 DEF CodesGoOn
<1>7. NothingDrawn
  <2>1. drawn' >= drawn
    BY DEF IInv, TypeOK
  <2>2. codes[t] # NoCode
    BY <1>1, CodeKinds DEF IInv
  <2> QED
    BY <1>2, <1>4, <2>1, <2>2 DEF NothingDrawn, Active
<1>8. /\ AccountGoesOn /\ MailGoesOn /\ NothingQueued
      /\ VerifiedAddressWasProven' /\ account'.email \notin taken'
      /\ account'.stamp <= account'.session
  BY StillStanding DEF IInv
<1>9. InFlight'
  <2>1. Idle \notin Request
    BY RequestKinds DEF IInv
  <2> QED
    BY <1>5, <1>6, <1>8, <2>1, InFlightGoesOn DEF IInv, Finish
<1> QED
  BY <1>5, <1>6, <1>7, <1>8, <1>9, GoingOnIsEnough

LEMMA AnswersMarked ==
  ASSUME IInv, NEW r \in Requests, MarkDeliveryAccepted(r) \/ MarkDeliveryFailed(r)
  PROVE  IInv'
<1>0. PICK q \in Request : /\ q = requests[r] /\ Remembers(q) /\ q.op \in Purposes
                           /\ q.at \in {"accept", "fail"}
                           /\ MarkDeliveryAccepted(r) => q.at = "accept"
  BY RequestKinds DEF IInv, InFlight, MarkDeliveryAccepted, MarkDeliveryFailed, At, Ops
<1>1. PICK t \in Ids : t = q.code
  BY <1>0, RequestFields, BoundsAreNatural DEF Remembers, Ids
<1>2. Finish(r) /\ UNCHANGED <<account, taken, drawn, expired, messages, inbox,
                               challenge, proven>>
  BY DEF MarkDeliveryAccepted, MarkDeliveryFailed
<1>3. CASE ~Undecided(t)
  <2>1. codes' = codes
    BY <1>0, <1>1, <1>3 DEF MarkDeliveryAccepted, MarkDeliveryFailed
  <2> QED
    BY <1>2, <2>1, FinishKeeps
<1>4. CASE Undecided(t) /\ MarkDeliveryAccepted(r)
  <2>1. codes' = [codes EXCEPT ![t].delivery = "accepted"]
    BY <1>0, <1>1, <1>4 DEF MarkDeliveryAccepted
  <2>2. Sent(t) /\ GoesOut(t)
    BY <1>0, <1>1, <1>4 DEF Remembers
  <2>3. Active(t) /\ codes[t].state = "active" /\ codes[t] \in Code
    BY <1>4, CodeKinds DEF Undecided, Active, IInv
  <2>4. [codes[t] EXCEPT !.delivery = "accepted"]
          = [codes[t] EXCEPT !.delivery = "accepted", !.state = "active"]
    BY <2>3 DEF Code
  <2>5. codes' = [codes EXCEPT ![t].delivery = "accepted", ![t].state = "active"]
    BY <2>1, <2>4 DEF IInv, TypeOK
  <2> QED
    BY <1>2, <2>2, <2>3, <2>5, MarksKeep
<1>5. CASE Undecided(t) /\ MarkDeliveryFailed(r)
  <2>1. codes' = [codes EXCEPT ![t].delivery = "failed", ![t].state = "superseded"]
    BY <1>0, <1>1, <1>5 DEF MarkDeliveryFailed
  <2>2. Active(t)
    BY <1>5 DEF Undecided
  <2> QED
    BY <1>2, <2>1, <2>2, MarksKeep
<1> QED
  BY <1>3, <1>4, <1>5

-----------------------------------------------------------------------------
(* The consumer of the queue, and time                                        *)

\* A message is settled, the mail arrives, or a code lapses.
LEMMA MailKeeps ==
  ASSUME IInv, NEW t \in Ids,
         ConsumeAccountLifecycleMail(t) \/ Expire(t)
  PROVE  IInv'
<1>0. UNCHANGED <<account, taken, drawn, codes, challenge, requests, proven>>
  BY DEF ConsumeAccountLifecycleMail, Expire
<1>1. /\ inbox \subseteq inbox' /\ expired \subseteq expired'
      /\ inbox' \subseteq Ids /\ expired' \subseteq Ids
  BY DEF ConsumeAccountLifecycleMail, Expire, IInv, TypeOK
<1>2. \A s \in Ids : s # t => messages'[s] = messages[s]
  BY DEF ConsumeAccountLifecycleMail, Expire, Settle, IInv, TypeOK
<1>3. /\ messages' \in [Ids -> Message \cup {NoMessage}]
      /\ messages'[t] = messages[t]
         \/ /\ messages[t] \in Message /\ messages'[t] \in Message
            /\ messages'[t].to = messages[t].to
            /\ messages'[t].state = "dead" \/ t \in inbox' \cup expired'
  <2>1. CASE UNCHANGED messages
    BY <2>1 DEF IInv, TypeOK
  <2>2. ASSUME NEW state \in {"done", "dead"}, Settle(t, state),
               ConsumeAccountLifecycleMail(t), state = "done" => t \in inbox' \cup expired'
        PROVE  /\ messages' \in [Ids -> Message \cup {NoMessage}]
               /\ messages[t] \in Message /\ messages'[t] \in Message
               /\ messages'[t].to = messages[t].to
               /\ messages'[t].state = "dead" \/ t \in inbox' \cup expired'
    <3>1. messages[t] \in Message
      BY <2>2, MessageKinds DEF ConsumeAccountLifecycleMail, IInv
    <3>2. messages'[t] = [state |-> state, to |-> messages[t].to]
      BY <2>2, <3>1 DEF Settle, Message, IInv, TypeOK
    <3>3. messages'[t] \in Message
      BY <2>2, <3>1, <3>2 DEF Message
    <3> QED
      BY <2>2, <3>1, <3>2, <3>3 DEF Settle, IInv, TypeOK
  <2>3. CASE Expire(t)
    BY <2>1, <2>3 DEF Expire
  <2>4. CASE ConsumeAccountLifecycleMail(t)
    <3>1. \/ UNCHANGED messages
          \/ Settle(t, "dead")
          \/ Settle(t, "done") /\ t \in inbox' \cup expired'
      BY <1>1, <2>4 DEF ConsumeAccountLifecycleMail
    <3> QED
      BY <2>1, <2>2, <2>4, <3>1
  <2> QED
    BY <2>3, <2>4
<1>4. TypeOK'
  BY <1>0, <1>1, <1>3 DEF IInv, TypeOK
<1>5. \A s \in Ids : /\ Sent(s)' <=> Sent(s)
                     /\ GoesOut(s) => GoesOut(s)'
                     /\ Sent(s) => messages'[s].to = messages[s].to
  <2> SUFFICES ASSUME NEW s \in Ids
               PROVE  /\ Sent(s)' <=> Sent(s)
                      /\ GoesOut(s) => GoesOut(s)'
                      /\ Sent(s) => messages'[s].to = messages[s].to
    OBVIOUS
  <2>1. CASE messages'[s] = messages[s]
    BY <1>1, <2>1 DEF Sent, GoesOut
  <2>2. CASE messages'[s] # messages[s]
    <3>1. s = t
      BY <1>2, <2>2
    <3>2. NoMessage \notin Message
      BY MessageKinds DEF IInv
    <3> QED
      BY <1>3, <2>2, <3>1, <3>2 DEF Sent, GoesOut
  <2> QED
    BY <2>1, <2>2
<1>6. MailGoesOn /\ NothingQueued
  BY <1>5 DEF MailGoesOn, NothingQueued
<1>7. /\ AccountGoesOn /\ CodesGoOn /\ NothingDrawn
      /\ VerifiedAddressWasProven' /\ account'.email \notin taken'
      /\ account'.stamp <= account'.session
  BY <1>0, StillStanding DEF IInv
<1>8. InFlight'
  BY <1>0, <1>4, <1>6, <1>7, InFlightStays DEF IInv
<1> QED
  BY <1>4, <1>6, <1>7, <1>8, GoingOnIsEnough

-----------------------------------------------------------------------------
(* Codes that act                                                             *)

\* A code that holds was mailed to the address it acts for.
LEMMA HoldersReadTheirMail ==
  ASSUME IInv, NEW q \in Request, NEW purpose \in Purposes,
         q.code \in Ids, SameGeneration(q), Holds(q, purpose)
  PROVE  /\ Active(q.code) /\ codes[q.code] \in Code /\ messages[q.code] \in Message
         /\ codes[q.code].delivery = "accepted"
         /\ purpose = "email_change" => messages[q.code].to = q.to
         /\ purpose # "email_change" => messages[q.code].to = account.email
<1>1. /\ Active(q.code) /\ codes[q.code] \in Code
      /\ codes[q.code].delivery = "accepted" /\ codes[q.code].purpose = purpose
  BY CodeKinds DEF Holds, IInv
<1>2. Sent(q.code)
  BY <1>1 DEF IInv, Rows
<1>3. AddressedTo(q.code) /\ messages[q.code] \in Message
  BY <1>1, <1>2, MessageKinds DEF IInv, Addressed
<1> QED
  BY <1>1, <1>3 DEF AddressedTo, Holds, SameGeneration

\* Rows that may only lose their activity.
Settled ==
  /\ codes' \in [Ids -> Code \cup {NoCode, Deleted}]
  /\ \A t \in Ids :
       \/ codes'[t] = codes[t]
       \/ /\ Active(t) /\ codes'[t] \in Code
          /\ codes'[t].state \in {"consumed", "superseded"}
          /\ codes'[t].purpose = codes[t].purpose /\ codes'[t].stamp = codes[t].stamp
          /\ codes'[t].target = codes[t].target
          /\ codes'[t].delivery = codes[t].delivery
       \/ codes[t] \in Code /\ codes'[t] = Deleted

LEMMA SettledGoOn ==
  ASSUME TypeOK, Settled, drawn' = drawn
  PROVE  CodesGoOn /\ NothingDrawn
<1> SUFFICES ASSUME NEW t \in Ids
             PROVE  /\ codes[t] # NoCode => codes'[t] # NoCode
                    /\ codes[t] # NoCode /\ codes'[t] \in Code =>
                         /\ codes[t] \in Code
                         /\ codes'[t].purpose = codes[t].purpose
                         /\ codes'[t].stamp = codes[t].stamp
                         /\ codes'[t].target = codes[t].target
                    /\ codes[t] = NoCode => codes'[t] = NoCode
                    /\ codes'[t].state = "active" => Active(t)
                    /\ codes'[t] \in Code /\ codes'[t].delivery = "accepted" =>
                         codes[t].delivery = "accepted"
  <2>1. drawn' >= drawn
    BY DEF TypeOK
  <2> QED
    BY <2>1 DEF CodesGoOn, NothingDrawn, Active
<1>1. /\ NoCode \notin Code /\ Deleted \notin Code /\ NoCode # Deleted
      /\ codes[t] \in Code \cup {NoCode, Deleted}
      /\ Active(t) => codes[t] \in Code
      /\ Deleted.state = "deleted"
  BY CodeKinds DEF Deleted
<1>2. CASE codes'[t] = codes[t]
  BY <1>1, <1>2 DEF Active
<1>3. CASE codes'[t] # codes[t]
  BY <1>1, <1>3 DEF Settled
<1> QED
  BY <1>2, <1>3

LEMMA OneSettled ==
  ASSUME TypeOK, NEW t \in Ids, Active(t), NEW s \in {"consumed", "superseded"},
         codes' = [codes EXCEPT ![t].state = s]
  PROVE  Settled
<1>1. codes[t] \in Code
  BY CodeKinds
<1>2. PICK new : new = [codes[t] EXCEPT !.state = s]
  OBVIOUS
<1>3. /\ new \in Code /\ new.purpose = codes[t].purpose /\ new.stamp = codes[t].stamp
      /\ new.target = codes[t].target /\ new.delivery = codes[t].delivery
      /\ new.state = s
  BY <1>1, <1>2, StateStays
<1>4. codes' = [codes EXCEPT ![t] = new]
  BY <1>2 DEF TypeOK
<1> QED
  BY <1>1, <1>3, <1>4 DEF Settled, TypeOK

\* The step of a request that changes the account and settles codes.
LEMMA ActsKeep ==
  ASSUME IInv, NEW r \in Requests, Finish(r), Settled,
         UNCHANGED <<taken, drawn, expired, messages, inbox>>,
         challenge' \in Challenge \cup {NoChallenge},
         account' \in Account, account'.stamp <= account'.session,
         account'.email = Null <=> account'.state = "purged",
         proven' \in Addresses \cup {Null},
         AccountGoesOn, VerifiedAddressWasProven', account'.email \notin taken
  PROVE  IInv'
<1>1. TypeOK'
  <2>1. requests' \in [Requests -> Request \cup {Idle}]
    BY DEF IInv, TypeOK, Finish
  <2> QED
    BY <2>1 DEF IInv, TypeOK, Settled
<1>2. CodesGoOn /\ NothingDrawn /\ MailGoesOn /\ NothingQueued
  BY SettledGoOn, StillStanding DEF IInv
<1>3. InFlight'
  <2>1. Idle \notin Request
    BY RequestKinds DEF IInv
  <2> QED
    BY <1>1, <1>2, <2>1, InFlightGoesOn DEF IInv, Finish
<1> QED
  BY <1>1, <1>2, <1>3, GoingOnIsEnough

LEMMA Renewal ==
  ASSUME IInv, MayRenew
  PROVE  /\ account.stamp + 1 \in 0 .. MaxSession
         /\ account.session + 1 \in 0 .. MaxSession
         /\ account.stamp + 1 <= account.session + 1
         /\ account.stamp <= account.session + 1
         /\ account.stamp + 1 >= account.stamp /\ account.stamp + 1 # account.stamp
<1>1. /\ account.stamp \in 0 .. MaxSession /\ account.session \in 0 .. MaxSession
      /\ account.stamp <= account.session /\ MaxSession \in Nat
  BY AccountFields, BoundsAreNatural DEF IInv
<1> QED
  BY <1>1 DEF MayRenew

\* Accounts after a change of some columns.
RenewedTo(a, x, y) == [a EXCEPT !.stamp = x, !.session = y]
ReaddressedTo(a, x) == [a EXCEPT !.email = x, !.verified = TRUE]

LEMMA Renewed ==
  ASSUME NEW a \in Account, NEW x \in 0 .. MaxSession, NEW y \in 0 .. MaxSession,
         NEW new, new = RenewedTo(a, x, y)
  PROVE  /\ new \in Account /\ new.state = a.state /\ new.email = a.email
         /\ new.stamp = x /\ new.session = y /\ new.verified = a.verified
<1>1. new = [state |-> a.state, email |-> a.email, stamp |-> x, session |-> y,
             verified |-> a.verified]
  BY DEF Account, RenewedTo
<1>2. /\ a.state \in {"enabled", "disabled", "purged"} /\ a.verified \in BOOLEAN
      /\ a.email \in Addresses \cup {Null}
      /\ a.stamp \in 0 .. MaxSession /\ a.session \in 0 .. MaxSession
  BY DEF Account
<1>3. new \in Account
  BY <1>1, <1>2 DEF Account
<1> QED
  BY <1>1, <1>3

LEMMA Readdressed ==
  ASSUME NEW a \in Account, NEW x \in Addresses,
         NEW new, new = ReaddressedTo(a, x)
  PROVE  /\ new \in Account /\ new.state = a.state /\ new.email = x
         /\ new.stamp = a.stamp /\ new.session = a.session
<1>1. new = [state |-> a.state, email |-> x, stamp |-> a.stamp, session |-> a.session,
             verified |-> TRUE]
  BY DEF Account, ReaddressedTo
<1>2. /\ a.state \in {"enabled", "disabled", "purged"} /\ a.verified \in BOOLEAN
      /\ a.email \in Addresses \cup {Null}
      /\ a.stamp \in 0 .. MaxSession /\ a.session \in 0 .. MaxSession
  BY DEF Account
<1>3. new \in Account
  BY <1>1, <1>2 DEF Account
<1> QED
  BY <1>1, <1>3

LEMMA MadeVerified ==
  ASSUME NEW a \in Account,
         NEW new, new = [a EXCEPT !.verified = TRUE]
  PROVE  /\ new \in Account /\ new.state = a.state /\ new.email = a.email
         /\ new.stamp = a.stamp /\ new.session = a.session /\ new.verified = TRUE
<1>1. new = [state |-> a.state, email |-> a.email, stamp |-> a.stamp, session |-> a.session,
             verified |-> TRUE]
  BY DEF Account
<1>2. /\ a.state \in {"enabled", "disabled", "purged"} /\ a.verified \in BOOLEAN
      /\ a.email \in Addresses \cup {Null}
      /\ a.stamp \in 0 .. MaxSession /\ a.session \in 0 .. MaxSession
  BY DEF Account
<1>3. new \in Account
  BY <1>1, <1>2 DEF Account
<1> QED
  BY <1>1, <1>3

LEMMA Restated ==
  ASSUME NEW a \in Account, NEW x \in {"enabled", "disabled", "purged"},
         NEW new, new = [a EXCEPT !.state = x]
  PROVE  /\ new \in Account /\ new.state = x /\ new.email = a.email
         /\ new.stamp = a.stamp /\ new.session = a.session /\ new.verified = a.verified
<1>1. new = [state |-> x, email |-> a.email, stamp |-> a.stamp, session |-> a.session,
             verified |-> a.verified]
  BY DEF Account
<1>2. /\ a.state \in {"enabled", "disabled", "purged"} /\ a.verified \in BOOLEAN
      /\ a.email \in Addresses \cup {Null}
      /\ a.stamp \in 0 .. MaxSession /\ a.session \in 0 .. MaxSession
  BY DEF Account
<1>3. new \in Account
  BY <1>1, <1>2 DEF Account
<1> QED
  BY <1>1, <1>3

LEMMA SessionEnded ==
  ASSUME NEW a \in Account, NEW x \in 0 .. MaxSession,
         NEW new, new = [a EXCEPT !.session = x]
  PROVE  /\ new \in Account /\ new.state = a.state /\ new.email = a.email
         /\ new.stamp = a.stamp /\ new.session = x /\ new.verified = a.verified
<1>1. new = [state |-> a.state, email |-> a.email, stamp |-> a.stamp, session |-> x,
             verified |-> a.verified]
  BY DEF Account
<1>2. /\ a.state \in {"enabled", "disabled", "purged"} /\ a.verified \in BOOLEAN
      /\ a.email \in Addresses \cup {Null}
      /\ a.stamp \in 0 .. MaxSession /\ a.session \in 0 .. MaxSession
  BY DEF Account
<1>3. new \in Account
  BY <1>1, <1>2 DEF Account
<1> QED
  BY <1>1, <1>3

LEMMA Generation ==
  ASSUME IInv, MayRenew
  PROVE  /\ NewGeneration \in Account /\ NewGeneration.state = account.state
         /\ NewGeneration.email = account.email
         /\ NewGeneration.stamp = account.stamp + 1
         /\ NewGeneration.session = account.session + 1
         /\ NewGeneration.verified = account.verified
<1>1. account \in Account
  BY DEF IInv, TypeOK
<1>2. PICK x \in 0 .. MaxSession : x = account.stamp + 1
  BY Renewal
<1>3. PICK y \in 0 .. MaxSession : y = account.session + 1
  BY Renewal
<1>4. PICK new : new = NewGeneration
  OBVIOUS
<1>5. new = RenewedTo(account, x, y)
  BY <1>2, <1>3, <1>4 DEF NewGeneration, RenewedTo
<1> QED
  BY <1>1, <1>2, <1>3, <1>4, <1>5, Renewed

LEMMA ChangesKeep ==
  ASSUME IInv, NEW r \in Requests, ChangeAccountEmail(r)
  PROVE  IInv'
<1>0. PICK q \in Request : q = requests[r] /\ Remembers(q) /\ q.op = "change"
  BY RequestKinds DEF IInv, InFlight, ChangeAccountEmail, At, Ops
<1>1. Finish(r) /\ UNCHANGED <<taken, drawn, expired, messages, inbox, challenge>>
      /\ MayRenew
  BY DEF ChangeAccountEmail
<1>2. CASE ~MayChangeEmail(q)
  BY <1>0, <1>1, <1>2, FinishKeeps DEF ChangeAccountEmail
<1>3. CASE MayChangeEmail(q)
  <2>1. PICK t \in Ids : t = q.code
    BY <1>0, RequestFields, BoundsAreNatural DEF Remembers, Ids
  <2>2. /\ account' = [NewGeneration EXCEPT !.email = q.to, !.verified = TRUE]
        /\ codes' = [codes EXCEPT ![t].state = "consumed"]
        /\ proven' = messages[t].to
    BY <1>0, <1>3, <2>1 DEF ChangeAccountEmail
  <2>3. /\ Active(t) /\ messages[t] \in Message /\ messages[t].to = q.to
        /\ Enabled /\ q.to \notin taken
    BY <1>3, <2>1, HoldersReadTheirMail DEF MayChangeEmail, Free, Purposes, SameGeneration
  <2>4. Settled
    BY <2>2, <2>3, OneSettled DEF IInv
  <2>5. q.to \in Addresses
    BY <2>3 DEF Message
  <2>6. PICK g \in Account : g = NewGeneration
    BY <1>1, Generation
  <2>7. /\ account' \in Account /\ account'.state = account.state
        /\ account'.email = q.to /\ account'.stamp = account.stamp + 1
        /\ account'.session = account.session + 1
    <3>1. PICK new : new = account'
      OBVIOUS
    <3> PICK x \in Addresses : x = q.to
      BY <2>5
    <3>2. new = ReaddressedTo(g, x)
      BY <2>2, <2>6, <3>1 DEF ReaddressedTo
    <3>3. /\ new \in Account /\ new.state = g.state /\ new.email = x
          /\ new.stamp = g.stamp /\ new.session = g.session
      BY <3>2, Readdressed
    <3> QED
      BY <1>1, <2>6, <3>1, <3>3, Generation
  <2>8. AccountGoesOn /\ account'.stamp <= account'.session
    BY <1>1, <2>7, Renewal DEF AccountGoesOn
  <2>9. account'.email = Null <=> account'.state = "purged"
    BY <2>3, <2>5, <2>7, NullIsNoAddress DEF Enabled
  <2>10. proven' \in Addresses \cup {Null} /\ VerifiedAddressWasProven'
    BY <2>2, <2>3, <2>5, <2>7 DEF VerifiedAddressWasProven
  <2>11. challenge' \in Challenge \cup {NoChallenge}
    BY <1>1 DEF IInv, TypeOK
  <2> QED
    BY <1>1, <2>3, <2>4, <2>7, <2>8, <2>9, <2>10, <2>11, ActsKeep
<1> QED
  BY <1>2, <1>3

LEMMA VerificationsKeep ==
  ASSUME IInv, NEW r \in Requests, VerifyAccountEmail(r)
  PROVE  IInv'
<1>0. PICK q \in Request : q = requests[r] /\ Remembers(q) /\ q.op = "verify"
  BY RequestKinds DEF IInv, InFlight, VerifyAccountEmail, At, Ops
<1>1. Finish(r) /\ UNCHANGED <<taken, drawn, expired, messages, inbox, challenge>>
  BY DEF VerifyAccountEmail
<1>2. CASE ~(SameGeneration(q) /\ Holds(q, "email_verify"))
  BY <1>0, <1>1, <1>2, FinishKeeps DEF VerifyAccountEmail
<1>3. CASE SameGeneration(q) /\ Holds(q, "email_verify")
  <2>1. PICK t \in Ids : t = q.code
    BY <1>0, RequestFields, BoundsAreNatural DEF Remembers, Ids
  <2>2. /\ account' = [account EXCEPT !.verified = TRUE]
        /\ codes' = [codes EXCEPT ![t].state = "consumed"]
        /\ proven' = messages[t].to
    BY <1>0, <1>3, <2>1 DEF VerifyAccountEmail
  <2>3. /\ Active(t) /\ messages[t] \in Message /\ messages[t].to = account.email
        /\ Enabled
    BY <1>3, <2>1, HoldersReadTheirMail DEF Purposes, SameGeneration
  <2>4. Settled
    BY <2>2, <2>3, OneSettled DEF IInv
  <2>5. account \in Account /\ account.stamp \in Nat
    BY AccountFields DEF IInv
  <2>6. /\ account' \in Account /\ account'.state = account.state
        /\ account'.email = account.email /\ account'.stamp = account.stamp
        /\ account'.session = account.session
    <3>1. PICK new : new = account'
      OBVIOUS
    <3>2. new = [account EXCEPT !.verified = TRUE]
      BY <2>2, <3>1
    <3> QED
      BY <2>5, <3>1, <3>2, MadeVerified
  <2>7. AccountGoesOn /\ account'.stamp <= account'.session
    BY <2>5, <2>6 DEF AccountGoesOn, Enabled, IInv
  <2>8. /\ account'.email = Null <=> account'.state = "purged"
        /\ account'.email \notin taken
    BY <2>6 DEF IInv, TypeOK
  <2>9. proven' \in Addresses \cup {Null} /\ VerifiedAddressWasProven'
    BY <2>2, <2>3, <2>6 DEF VerifiedAddressWasProven, Message
  <2>10. challenge' \in Challenge \cup {NoChallenge}
    BY <1>1 DEF IInv, TypeOK
  <2> QED
    BY <1>1, <2>4, <2>6, <2>7, <2>8, <2>9, <2>10, ActsKeep
<1> QED
  BY <1>2, <1>3

LEMMA DeletionsKeep ==
  ASSUME IInv, NEW r \in Requests, BeginRecoverableAccountDeletion(r)
  PROVE  IInv'
<1>0. PICK q \in Request : q = requests[r] /\ q.op = "delete"
  BY RequestKinds DEF IInv, BeginRecoverableAccountDeletion, At, Ops
<1>1. /\ Finish(r) /\ MayRenew
      /\ UNCHANGED <<taken, drawn, expired, messages, inbox, challenge, proven>>
  BY DEF BeginRecoverableAccountDeletion
<1>2. CASE ~(SameGeneration(q) /\ (q.code = 0 \/ Holds(q, "account_delete")))
  BY <1>0, <1>1, <1>2, FinishKeeps DEF BeginRecoverableAccountDeletion
<1>3. CASE SameGeneration(q) /\ (q.code = 0 \/ Holds(q, "account_delete"))
  <2>1. /\ account' = [NewGeneration EXCEPT !.state = "disabled"]
        /\ codes' = [t \in Ids |->
             IF Active(t)
             THEN [codes[t] EXCEPT
                     !.state = IF t = q.code THEN "consumed" ELSE "superseded"]
             ELSE codes[t]]
    BY <1>0, <1>3 DEF BeginRecoverableAccountDeletion
  <2>2. Settled
    <3>1. ASSUME NEW t \in Ids, Active(t)
          PROVE  /\ codes'[t] \in Code
                 /\ codes'[t].state \in {"consumed", "superseded"}
                 /\ codes'[t].purpose = codes[t].purpose
                 /\ codes'[t].stamp = codes[t].stamp
                 /\ codes'[t].target = codes[t].target
                 /\ codes'[t].delivery = codes[t].delivery
      <4>1. PICK s \in {"consumed", "superseded"} :
              s = IF t = q.code THEN "consumed" ELSE "superseded"
        OBVIOUS
      <4>2. PICK new : new = [codes[t] EXCEPT !.state = s]
        OBVIOUS
      <4>3. codes'[t] = new
        BY <2>1, <3>1, <4>1, <4>2
      <4>4. codes[t] \in Code
        BY <3>1, CodeKinds DEF IInv
      <4> QED
        BY <4>2, <4>3, <4>4, StateStays
    <3>2. ASSUME NEW t \in Ids, ~Active(t) PROVE codes'[t] = codes[t]
      BY <2>1, <3>2
    <3>3. codes' \in [Ids -> Code \cup {NoCode, Deleted}]
      <4>1. \A t \in Ids : codes'[t] \in Code \cup {NoCode, Deleted}
        BY <3>1, <3>2 DEF IInv, TypeOK
      <4>2. codes' = [t \in Ids |-> codes'[t]]
        BY <2>1
      <4> QED
        BY <4>1, <4>2
    <3> QED
      BY <3>1, <3>2, <3>3 DEF Settled
  <2>3. PICK g \in Account : g = NewGeneration
    BY <1>1, Generation
  <2>4. /\ account' \in Account /\ account'.state = "disabled"
        /\ account'.email = account.email /\ account'.stamp = account.stamp + 1
        /\ account'.session = account.session + 1
        /\ account'.verified = account.verified
    <3>1. PICK new : new = account'
      OBVIOUS
    <3>2. new = [g EXCEPT !.state = "disabled"]
      BY <2>1, <2>3, <3>1
    <3>3. /\ new \in Account /\ new.state = "disabled" /\ new.email = g.email
          /\ new.stamp = g.stamp /\ new.session = g.session /\ new.verified = g.verified
      BY <3>2, Restated
    <3> QED
      BY <1>1, <2>3, <3>1, <3>3, Generation
  <2>5. AccountGoesOn /\ account'.stamp <= account'.session
    BY <1>1, <2>4, Renewal DEF AccountGoesOn
  <2>6. /\ account'.email = Null <=> account'.state = "purged"
        /\ account'.email \notin taken
    BY <1>3, <2>4 DEF IInv, TypeOK, SameGeneration, Enabled
  <2>7. proven' \in Addresses \cup {Null} /\ VerifiedAddressWasProven'
    BY <1>1, <2>4 DEF VerifiedAddressWasProven, IInv, TypeOK
  <2>8. challenge' \in Challenge \cup {NoChallenge}
    BY <1>1 DEF IInv, TypeOK
  <2> QED
    BY <1>1, <2>2, <2>4, <2>5, <2>6, <2>7, <2>8, ActsKeep
<1> QED
  BY <1>2, <1>3

LEMMA ChallengesKeep ==
  ASSUME IInv, NEW r \in Requests,
         \/ CreateEmailVerificationChallengeRecord(r)
         \/ ConsumeEmailVerificationChallenge(r)
  PROVE  IInv'
<1>0. /\ Finish(r) /\ UNCHANGED <<taken, codes, expired, messages, inbox>>
      /\ account' = account \/ account' = [account EXCEPT !.verified = TRUE]
  BY DEF CreateEmailVerificationChallengeRecord, ConsumeEmailVerificationChallenge
<1>1. PICK q \in Request : q = requests[r]
  BY RequestKinds DEF IInv, CreateEmailVerificationChallengeRecord,
       ConsumeEmailVerificationChallenge, At, Ops
<1>2. /\ account \in Account /\ account.stamp \in Nat
      /\ Enabled => account.email \in Addresses
  BY AccountFields DEF IInv
<1>3. /\ account' \in Account /\ account'.state = account.state
      /\ account'.email = account.email /\ account'.stamp = account.stamp
      /\ account'.session = account.session
  <2>1. PICK new : new = account'
    OBVIOUS
  <2>2. CASE new = account
    BY <1>2, <2>1, <2>2
  <2>3. CASE new = [account EXCEPT !.verified = TRUE]
    BY <1>2, <2>1, <2>3, MadeVerified
  <2> QED
    BY <1>0, <2>1, <2>2, <2>3
<1>4. /\ account'.email = Null <=> account'.state = "purged"
      /\ account'.email \notin taken /\ account'.stamp <= account'.session
  BY <1>3 DEF IInv, TypeOK
<1>5. AccountGoesOn
  BY <1>2, <1>3 DEF AccountGoesOn, Enabled
<1>6. drawn' \in 0 .. MaxId /\ drawn' >= drawn
  BY BoundsAreNatural DEF CreateEmailVerificationChallengeRecord,
       ConsumeEmailVerificationChallenge, IInv, TypeOK
<1>7. challenge' \in Challenge \cup {NoChallenge}
  <2>1. CASE challenge' = challenge
    BY <2>1 DEF IInv, TypeOK
  <2>2. CASE challenge' # challenge /\ CreateEmailVerificationChallengeRecord(r)
    <3>1. /\ challenge' = [id |-> drawn + 1, email |-> q.to, stamp |-> q.stamp,
                           session |-> q.session, used |-> FALSE]
          /\ ActiveFamily(q) /\ drawn < MaxId
      BY <1>1, <2>2 DEF CreateEmailVerificationChallengeRecord
    <3>2. q.to \in Addresses
      BY <1>2, <3>1 DEF ActiveFamily, SameGeneration
    <3>3. drawn + 1 \in Ids
      BY <3>1, BoundsAreNatural DEF Ids, IInv, TypeOK
    <3> QED
      BY <3>1, <3>2, <3>3, RequestFields DEF Challenge
  <2>3. CASE challenge' # challenge /\ ConsumeEmailVerificationChallenge(r)
    <3>1. challenge' = [challenge EXCEPT !.used = TRUE] /\ challenge = [id |-> q.code,
            email |-> q.to, stamp |-> q.stamp, session |-> q.session, used |-> FALSE]
      BY <1>1, <2>3 DEF ConsumeEmailVerificationChallenge, MayConsume, OwnChallenge
    <3>2. q.code \in Ids /\ q.to \in Addresses
      <4>1. /\ challenge \in Challenge \cup {NoChallenge}
            /\ ActiveFamily(q)
        BY <1>1, <2>3 DEF IInv, TypeOK, ConsumeEmailVerificationChallenge, MayConsume
      <4>2. q.to \in Addresses
        BY <1>2, <4>1 DEF ActiveFamily, SameGeneration
      <4>3. challenge # NoChallenge
        <5>1. PICK c : c = challenge
          OBVIOUS
        <5>2. "used" \in DOMAIN c /\ "used" \notin DOMAIN NoChallenge
          BY <3>1, <5>1 DEF NoChallenge
        <5> QED
          BY <5>1, <5>2
      <4>4. challenge.id \in Ids /\ challenge.id = q.code
        BY <3>1, <4>1, <4>3 DEF Challenge
      <4> QED
        BY <4>2, <4>4
    <3>3. challenge' = [id |-> q.code, email |-> q.to, stamp |-> q.stamp,
                        session |-> q.session, used |-> TRUE]
      BY <3>1
    <3> QED
      BY <3>2, <3>3, RequestFields DEF Challenge
  <2> QED
    BY <2>1, <2>2, <2>3
<1>8. proven' \in Addresses \cup {Null} /\ VerifiedAddressWasProven'
  <2>1. CASE UNCHANGED <<account, proven>>
    BY <2>1 DEF VerifiedAddressWasProven, IInv, TypeOK
  <2>2. CASE ~UNCHANGED <<account, proven>>
    <3>1. ActiveFamily(q) /\ proven' = q.to
      BY <1>1, <2>2 DEF CreateEmailVerificationChallengeRecord,
           ConsumeEmailVerificationChallenge, MayConsume
    <3> QED
      BY <1>2, <1>3, <3>1 DEF ActiveFamily, SameGeneration, VerifiedAddressWasProven
  <2> QED
    BY <2>1, <2>2
<1>9. TypeOK'
  <2>1. requests' \in [Requests -> Request \cup {Idle}]
    BY <1>0 DEF IInv, TypeOK, Finish
  <2> QED
    BY <1>0, <1>3, <1>4, <1>6, <1>7, <1>8, <2>1 DEF IInv, TypeOK
<1>10. CodesGoOn /\ NothingDrawn /\ MailGoesOn /\ NothingQueued
  <2>1. Settled
    BY <1>0 DEF Settled, IInv, TypeOK
  <2>2. CodesGoOn /\ MailGoesOn /\ NothingQueued
    BY <1>0, StillStanding DEF IInv
  <2>3. \A t \in Ids : codes[t] \in Code => codes[t].delivery \in {"pending", "accepted", "failed"}
    BY CodeFields
  <2>4. NothingDrawn
    BY <1>0, <1>6, <2>3 DEF NothingDrawn, Active
  <2> QED
    BY <2>2, <2>4
<1>11. InFlight'
  <2>1. Idle \notin Request
    BY RequestKinds DEF IInv
  <2> QED
    BY <1>0, <1>5, <1>9, <1>10, <2>1, InFlightGoesOn DEF IInv, Finish
<1> QED
  BY <1>4, <1>5, <1>8, <1>9, <1>10, <1>11, <1>0, GoingOnIsEnough

-----------------------------------------------------------------------------
(* Other parts of the program, and other accounts                             *)

LEMMA OthersKeep ==
  ASSUME IInv,
         \/ ChangeCredentials \/ RevokeDeviceSession
         \/ RecoverAccountDeletion \/ FinalizeAccountPurge
  PROVE  IInv'
<1>0. UNCHANGED <<taken, drawn, expired, messages, inbox, challenge, requests, proven>>
  BY DEF ChangeCredentials, RevokeDeviceSession, RecoverAccountDeletion,
       FinalizeAccountPurge, Store
<1>1. account \in Account /\ account.stamp \in Nat
  BY AccountFields DEF IInv
<1>2. Settled
  <2>1. CASE FinalizeAccountPurge
    <3>1. codes' = [t \in Ids |-> IF codes[t] \in Code THEN Deleted ELSE codes[t]]
      BY <2>1 DEF FinalizeAccountPurge
    <3> QED
      BY <3>1 DEF Settled, IInv, TypeOK
  <2>2. CASE codes' = codes
    BY <2>2 DEF Settled, IInv, TypeOK
  <2> QED
    BY <2>1, <2>2 DEF ChangeCredentials, RevokeDeviceSession, RecoverAccountDeletion
<1>3. /\ account' \in Account /\ account'.stamp <= account'.session
      /\ account'.email = Null <=> account'.state = "purged"
      /\ account'.email \notin taken /\ AccountGoesOn /\ VerifiedAddressWasProven'
  <2>0. PICK new : new = account'
    OBVIOUS
  <2>1. CASE ChangeCredentials
    <3>1. account' = NewGeneration /\ MayRenew
      BY <2>1 DEF ChangeCredentials, Store
    <3>2. /\ account' \in Account /\ account'.state = account.state
          /\ account'.email = account.email /\ account'.verified = account.verified
          /\ account'.stamp = account.stamp + 1 /\ account'.session = account.session + 1
      BY <3>1, Generation
    <3>3. account'.stamp <= account'.session /\ AccountGoesOn
      BY <3>1, <3>2, Renewal DEF AccountGoesOn
    <3> QED
      BY <1>0, <3>2, <3>3 DEF IInv, TypeOK, VerifiedAddressWasProven
  <2>2. CASE RevokeDeviceSession
    <3>1. account' = [account EXCEPT !.session = account.session + 1] /\ MayRenew
      BY <2>2 DEF RevokeDeviceSession, Store
    <3>2. PICK x \in 0 .. MaxSession : x = account.session + 1
      BY <3>1, Renewal
    <3>3. new = [account EXCEPT !.session = x]
      BY <2>0, <3>1, <3>2
    <3>4. /\ new \in Account /\ new.state = account.state
          /\ new.email = account.email /\ new.verified = account.verified
          /\ new.stamp = account.stamp /\ new.session = x
      BY <1>1, <3>3, SessionEnded
    <3>5. new.stamp <= new.session
      BY <3>1, <3>2, <3>4, Renewal
    <3>6. AccountGoesOn
      BY <1>1, <2>0, <3>4 DEF AccountGoesOn, Enabled
    <3> QED
      BY <1>0, <2>0, <3>4, <3>5, <3>6 DEF IInv, TypeOK, VerifiedAddressWasProven
  <2>3. CASE RecoverAccountDeletion
    <3>1. /\ account' = [NewGeneration EXCEPT !.state = "enabled"] /\ MayRenew
          /\ account.state = "disabled"
      BY <2>3 DEF RecoverAccountDeletion, Store
    <3>2. PICK g \in Account : g = NewGeneration
      BY <3>1, Generation
    <3>3. new = [g EXCEPT !.state = "enabled"]
      BY <2>0, <3>1, <3>2
    <3>4. /\ new \in Account /\ new.state = "enabled" /\ new.email = g.email
          /\ new.stamp = g.stamp /\ new.session = g.session /\ new.verified = g.verified
      BY <3>3, Restated
    <3>5. /\ new.email = account.email /\ new.verified = account.verified
          /\ new.stamp = account.stamp + 1 /\ new.session = account.session + 1
      BY <3>1, <3>2, <3>4, Generation
    <3>6. new.stamp <= new.session /\ AccountGoesOn
      BY <2>0, <3>1, <3>5, Renewal DEF AccountGoesOn
    <3> QED
      BY <1>0, <2>0, <3>1, <3>4, <3>5, <3>6 DEF IInv, TypeOK, VerifiedAddressWasProven
  <2>4. CASE FinalizeAccountPurge
    <3>1. new = [account EXCEPT !.state = "purged", !.email = Null, !.verified = FALSE]
      BY <2>0, <2>4 DEF FinalizeAccountPurge, Store, Tombstone
    <3>2. /\ new = [state |-> "purged", email |-> Null, stamp |-> account.stamp,
                    session |-> account.session, verified |-> FALSE]
          /\ account.stamp \in 0 .. MaxSession /\ account.session \in 0 .. MaxSession
      BY <1>1, <3>1 DEF Account
    <3>3. /\ new \in Account /\ new.state = "purged" /\ new.email = Null
          /\ new.stamp = account.stamp /\ new.session = account.session
          /\ ~new.verified
      BY <3>2 DEF Account
    <3>4. AccountGoesOn
      BY <1>1, <2>0, <3>3 DEF AccountGoesOn, Enabled
    <3>5. Null \notin taken
      BY NullIsNoAddress DEF IInv, TypeOK
    <3> QED
      BY <1>0, <2>0, <3>3, <3>4, <3>5 DEF IInv, VerifiedAddressWasProven
  <2> QED
    BY <2>1, <2>2, <2>3, <2>4
<1>4. TypeOK'
  BY <1>0, <1>2, <1>3 DEF IInv, TypeOK, Settled
<1>5. CodesGoOn /\ NothingDrawn /\ MailGoesOn /\ NothingQueued
  BY <1>0, <1>2, SettledGoOn, StillStanding DEF IInv
<1>6. InFlight'
  BY <1>0, <1>3, <1>4, <1>5, InFlightStays DEF IInv
<1> QED
  BY <1>0, <1>3, <1>4, <1>5, <1>6, GoingOnIsEnough

LEMMA AddressesKeep ==
  ASSUME IInv, NEW a \in Addresses, OtherAccounts(a)
  PROVE  IInv'
<1>0. UNCHANGED <<account, drawn, codes, expired, messages, inbox, challenge, requests, proven>>
  BY DEF OtherAccounts
<1>1. taken' \in SUBSET Addresses /\ account'.email \notin taken'
  BY <1>0 DEF OtherAccounts, IInv, TypeOK
<1>2. TypeOK'
  BY <1>0, <1>1 DEF IInv, TypeOK
<1>3. /\ AccountGoesOn /\ CodesGoOn /\ NothingDrawn /\ MailGoesOn /\ NothingQueued
      /\ VerifiedAddressWasProven' /\ account'.stamp <= account'.session
  BY <1>0, StillStanding DEF IInv, VerifiedAddressWasProven
<1>4. InFlight'
  BY <1>0, <1>2, <1>3, InFlightStays DEF IInv
<1> QED
  BY <1>1, <1>2, <1>3, <1>4, GoingOnIsEnough

-----------------------------------------------------------------------------
(* Every reachable state                                                      *)

LEMMA InitIInv ==
  ASSUME Init
  PROVE  IInv
<1>0. 0 \in 0 .. MaxSession /\ 0 \in 0 .. MaxId
  BY BoundsAreNatural
<1>1. /\ account \in Account /\ account.state = "enabled" /\ account.email \in Addresses
      /\ account.stamp = 0 /\ account.session = 0
  BY <1>0 DEF Init, Account
<1>2. proven \in Addresses \cup {Null} /\ VerifiedAddressWasProven
  BY <1>1 DEF Init, VerifiedAddressWasProven
<1>3. \A t \in Ids : /\ codes[t] = NoCode /\ codes[t] \notin Code /\ ~Active(t)
                     /\ messages[t] = NoMessage
  BY DEF Init, Code, NoCode, Active
<1>4. TypeOK
  <2>1. account.email = Null <=> account.state = "purged"
    BY <1>1, NullIsNoAddress
  <2> QED
    BY <1>0, <1>1, <1>2, <2>1 DEF Init, TypeOK
<1>5. Rows /\ Addressed /\ Latest
  BY <1>3 DEF Rows, Addressed, Latest, Sent
<1>6. InFlight
  BY <1>4, RequestKinds DEF Init, InFlight
<1> QED
  BY <1>1, <1>2, <1>4, <1>5, <1>6 DEF IInv, Init

LEMMA StepIInv ==
  ASSUME IInv, [Next]_vars
  PROVE  IInv'
<1>1. ASSUME NEW r \in Requests, Ask(r) PROVE IInv'
  BY <1>1, AsksKeep
<1>2. ASSUME NEW r \in Requests, BringCode(r) PROVE IInv'
  BY <1>2, CodesBroughtKeep
<1>3. ASSUME NEW r \in Requests, Serve(r) PROVE IInv'
  <2>1. CASE ReserveAccountLifecycleToken(r)
    BY <2>1, ReservationsKeep
  <2>2. CASE DeliverAccountLifecycleToken(r)
    BY <2>2, DeliveriesKeep
  <2>3. CASE MarkDeliveryAccepted(r) \/ MarkDeliveryFailed(r)
    BY <2>3, AnswersMarked
  <2>4. CASE ChangeAccountEmail(r)
    BY <2>4, ChangesKeep
  <2>5. CASE VerifyAccountEmail(r)
    BY <2>5, VerificationsKeep
  <2>6. CASE BeginRecoverableAccountDeletion(r)
    BY <2>6, DeletionsKeep
  <2>7. CASE \/ CreateEmailVerificationChallengeRecord(r)
             \/ ConsumeEmailVerificationChallenge(r)
    BY <2>7, ChallengesKeep
  <2>8. CASE Abandon(r)
    BY <2>8, FinishKeeps DEF Abandon
  <2> QED
    BY <1>3, <2>1, <2>2, <2>3, <2>4, <2>5, <2>6, <2>7, <2>8 DEF Serve
<1>4. ASSUME NEW t \in Ids, ConsumeAccountLifecycleMail(t) \/ Expire(t) PROVE IInv'
  BY <1>4, MailKeeps
<1>5. CASE \/ ChangeCredentials \/ RevokeDeviceSession
           \/ RecoverAccountDeletion \/ FinalizeAccountPurge
  BY <1>5, OthersKeep
<1>6. ASSUME NEW a \in Addresses, OtherAccounts(a) PROVE IInv'
  BY <1>6, AddressesKeep
<1>7. CASE UNCHANGED vars
  <2>1. UNCHANGED <<account, taken, drawn, codes, expired, messages, inbox, challenge,
                    requests, proven>>
    BY <1>7 DEF vars
  <2>2. TypeOK'
    BY <2>1 DEF IInv, TypeOK
  <2>3. /\ AccountGoesOn /\ CodesGoOn /\ NothingDrawn /\ MailGoesOn /\ NothingQueued
        /\ VerifiedAddressWasProven' /\ account'.email \notin taken'
        /\ account'.stamp <= account'.session
    BY <2>1, StillStanding DEF IInv
  <2>4. InFlight'
    BY <2>1, <2>2, <2>3, InFlightStays DEF IInv
  <2> QED
    BY <2>2, <2>3, <2>4, GoingOnIsEnough
<1> QED
  BY <1>1, <1>2, <1>3, <1>4, <1>5, <1>6, <1>7 DEF Next

\* Whoever compares the stamps of a code compares addresses, and an active code
\* is the last of its purpose, in every reachable state.
THEOREM CodesInvariant == Spec => []IInv
<1>1. Init => IInv
  BY InitIInv
<1>2. IInv /\ [Next]_vars => IInv'
  BY StepIInv
<1> QED
  BY <1>1, <1>2, PTL DEF Spec

\* Rows, messages and requests keep their shapes, and an account has an address
\* until it is purged.
THEOREM TypeCorrect == Spec => []TypeOK
<1>1. IInv => TypeOK
  BY DEF IInv
<1> QED
  BY <1>1, CodesInvariant, PTL

\* Changing and verifying an address, and consuming a challenge, mark an address as
\* verified only when its holder acted, whatever the requests and codes in flight.
THEOREM VerifiedWasProven == Spec => []VerifiedAddressWasProven
<1>1. IInv => VerifiedAddressWasProven
  BY DEF IInv
<1> QED
  BY <1>1, CodesInvariant, PTL

\* Reserving a code never meets the index of one active code for each purpose,
\* changing the address never that of addresses.
THEOREM IndexesHold == Spec => []UniqueIndexesHold
<1>1. ASSUME IInv PROVE UniqueIndexesHold
  <2>1. ASSUME NEW s \in Ids, NEW t \in Ids, s # t, Active(s), Active(t)
        PROVE  codes[s].purpose # codes[t].purpose
    <3>1. codes[s] \in Code /\ codes[t] \in Code
      BY <1>1, <2>1, CodeKinds DEF IInv
    <3>2. s > t \/ t > s
      BY <2>1, BoundsAreNatural DEF Ids
    <3> QED
      BY <1>1, <2>1, <3>1, <3>2 DEF IInv, Latest
  <2> QED
    BY <1>1, <2>1 DEF UniqueIndexesHold, IInv
<1> QED
  BY <1>1, CodesInvariant, PTL

\* A code whose request was answered 202 is in the queue, arrived, expired, or was
\* refused for good.
THEOREM AnsweredGoOut == Spec => []AnsweredCodesGoOut
<1>1. IInv => AnsweredCodesGoOut
  BY DEF IInv, Rows, GoesOut, AnsweredCodesGoOut
<1> QED
  BY <1>1, CodesInvariant, PTL

\* An account is put up for deletion with the password, or by the reader of a mail
\* to the address it has, never by one of an address it gave up.
THEOREM DeletionsOfOwner == Spec => DeletionsComeFromTheOwner
<1>1. ASSUME IInv, [Next]_vars, Enabled, account'.state = "disabled"
      PROVE  \E r \in Requests :
               /\ requests[r].op = "delete" /\ requests'[r] = Idle
               /\ requests[r].code = 0 \/ messages[requests[r].code].to = account.email
  <2>0. account.state # "disabled" /\ account \in Account
    BY <1>1 DEF Enabled, IInv, TypeOK
  <2>1. PICK r \in Requests : BeginRecoverableAccountDeletion(r)
    <3>1. CASE \E r \in Requests : ChangeAccountEmail(r)
      <4>1. PICK r \in Requests : ChangeAccountEmail(r)
        BY <3>1
      <4>2. account' = account
              \/ /\ MayRenew
                 /\ account' = [NewGeneration EXCEPT !.email = requests[r].to, !.verified = TRUE]
        BY <4>1 DEF ChangeAccountEmail
      <4>3. PICK g : g = NewGeneration
        OBVIOUS
      <4>4. MayRenew => g \in Account /\ g.state = account.state
        BY <1>1, <4>3, Generation
      <4>5. account'.state = account.state
        <5>1. CASE account' = account
          BY <5>1
        <5>2. CASE MayRenew /\ account' = [g EXCEPT !.email = requests[r].to, !.verified = TRUE]
          <6>1. PICK to : to = requests[r].to
            OBVIOUS
          <6>2. PICK new : new = ReaddressedTo(g, to)
            OBVIOUS
          <6>3. new.state = g.state
            BY <4>4, <5>2, <6>2 DEF ReaddressedTo, Account
          <6> QED
            BY <4>4, <5>2, <6>1, <6>2, <6>3 DEF ReaddressedTo
        <5> QED
          BY <4>2, <4>3, <5>1, <5>2
      <4> QED
        BY <1>1, <2>0, <4>5
    <3>2. ASSUME account' = [account EXCEPT !.verified = TRUE] PROVE FALSE
      BY <1>1, <2>0, <3>2, MadeVerified
    <3>3. CASE ChangeCredentials
      BY <1>1, <2>0, <3>3, Generation DEF ChangeCredentials, Store
    <3>4. CASE RevokeDeviceSession
      <4>1. account' = [account EXCEPT !.session = account.session + 1]
        BY <3>4 DEF RevokeDeviceSession, Store
      <4>2. account'.state = account.state
        BY <2>0, <4>1 DEF Account
      <4> QED
        BY <1>1, <2>0, <4>2
    <3>5. CASE account' = account
      BY <1>1, <2>0, <3>5
    <3>6. CASE RecoverAccountDeletion \/ FinalizeAccountPurge
      BY <1>1, <3>6 DEF RecoverAccountDeletion, FinalizeAccountPurge, Enabled
    <3>7. \/ \E r \in Requests : ChangeAccountEmail(r)
          \/ \E r \in Requests : BeginRecoverableAccountDeletion(r)
          \/ account' = [account EXCEPT !.verified = TRUE]
          \/ ChangeCredentials \/ RevokeDeviceSession
          \/ account' = account
          \/ RecoverAccountDeletion \/ FinalizeAccountPurge
      BY <1>1 DEF Next, vars, Ask, BringCode, Serve, Begin, PostEmailToken,
           PostVerifyEmail, PostDeleteRecover, DeleteAccountRoute, PostChallenge,
           VerifyEmailVerification, PostEmail, PostVerifyEmailToken,
           PostDeleteRecoverToken, ReserveAccountLifecycleToken,
           DeliverAccountLifecycleToken, MarkDeliveryAccepted, MarkDeliveryFailed,
           VerifyAccountEmail, CreateEmailVerificationChallengeRecord,
           ConsumeEmailVerificationChallenge, Abandon, ConsumeAccountLifecycleMail,
           Expire, OtherAccounts
    <3> QED
      BY <3>1, <3>2, <3>3, <3>4, <3>5, <3>6, <3>7
  <2>2. PICK q \in Request : q = requests[r] /\ q.op = "delete"
    BY <1>1, <2>1, RequestKinds DEF IInv, BeginRecoverableAccountDeletion, At, Ops
  <2>3. SameGeneration(q) /\ (q.code = 0 \/ Holds(q, "account_delete"))
    BY <1>1, <2>0, <2>1, <2>2 DEF BeginRecoverableAccountDeletion
  <2>4. q.code = 0 \/ messages[q.code].to = account.email
    <3> SUFFICES ASSUME q.code # 0 PROVE messages[q.code].to = account.email
      OBVIOUS
    <3>1. q.code \in Ids
      BY RequestFields, BoundsAreNatural DEF Ids
    <3> QED
      BY <1>1, <2>3, <3>1, HoldersReadTheirMail DEF Purposes
  <2>5. requests'[r] = Idle
    BY <1>1, <2>1 DEF BeginRecoverableAccountDeletion, Finish, IInv, TypeOK
  <2> QED
    BY <2>2, <2>4, <2>5
<1>2. ASSUME IInv, [Next]_vars
      PROVE  [Enabled /\ account'.state = "disabled" =>
               \E r \in Requests :
                 /\ requests[r].op = "delete" /\ requests'[r] = Idle
                 /\ requests[r].code = 0 \/ messages[requests[r].code].to = account.email]_vars
  BY <1>1, <1>2
<1> QED
  BY <1>2, CodesInvariant, PTL DEF Spec, DeletionsComeFromTheOwner

LEMMA OnlyActiveCodesAct ==
  ASSUME IInv, [Next]_vars, NEW t \in Ids,
         codes'[t].state = "consumed", codes[t].state # "consumed"
  PROVE  Active(t)
<1>2. CASE codes' = codes
  BY <1>2
<1>3. ASSUME NEW r \in Requests, NEW q \in Request, q = requests[r],
             \/ ChangeAccountEmail(r) \/ VerifyAccountEmail(r)
      PROVE  Active(t)
  <2>1. \/ codes' = codes
        \/ Active(q.code) /\ codes' = [codes EXCEPT ![q.code].state = "consumed"]
    BY <1>3 DEF ChangeAccountEmail, VerifyAccountEmail, MayChangeEmail, Holds
  <2>2. q.code # t => codes'[t] = codes[t]
    BY <2>1 DEF IInv, TypeOK
  <2> QED
    BY <2>1, <2>2
<1>4. ASSUME NEW r \in Requests, BeginRecoverableAccountDeletion(r) PROVE Active(t)
  <2>1. Active(t) \/ codes'[t] = codes[t]
    BY <1>4 DEF BeginRecoverableAccountDeletion
  <2> QED
    BY <2>1
<1>5. ASSUME NEW r \in Requests, ReserveAccountLifecycleToken(r) PROVE Active(t)
  <2>1. PICK q \in Request : q = requests[r] /\ q.op \in Purposes
    BY <1>5, RequestKinds DEF IInv, ReserveAccountLifecycleToken, At, Ops
  <2>2. CASE codes' = codes
    BY <2>2
  <2>3. CASE Draws(q, drawn + 1)
    <3>1. CASE t = drawn + 1
      <4>1. codes'[t] = [purpose |-> q.op, stamp |-> q.stamp,
              target |-> IF q.op = "email_change" THEN q.to ELSE Null,
              state |-> "active", delivery |-> "pending"]
        BY <2>3, <3>1 DEF Draws
      <4> QED
        BY <4>1
    <3>2. CASE t # drawn + 1
      BY <2>3, <3>2 DEF Draws, Superseded
    <3> QED
      BY <3>1, <3>2
  <2> QED
    BY <1>5, <2>1, <2>2, <2>3 DEF ReserveAccountLifecycleToken, Draws
<1>6. ASSUME NEW r \in Requests, MarkDeliveryAccepted(r) \/ MarkDeliveryFailed(r)
      PROVE  Active(t)
  <2>1. PICK c : c = requests[r].code
    OBVIOUS
  <2>2. \/ codes' = codes
        \/ Active(c) /\ codes' = [codes EXCEPT ![c].delivery = "accepted"]
        \/ Active(c) /\ codes' = [codes EXCEPT ![c].delivery = "failed",
                                               ![c].state = "superseded"]
    BY <1>6, <2>1 DEF MarkDeliveryAccepted, MarkDeliveryFailed, Undecided
  <2>3. c # t => codes'[t] = codes[t]
    BY <2>2 DEF IInv, TypeOK
  <2> QED
    BY <2>2, <2>3
<1>7. CASE FinalizeAccountPurge
  BY <1>7 DEF FinalizeAccountPurge, Deleted
<1>8. \/ codes' = codes \/ FinalizeAccountPurge
      \/ \E r \in Requests :
           \/ ChangeAccountEmail(r) \/ VerifyAccountEmail(r)
           \/ BeginRecoverableAccountDeletion(r) \/ ReserveAccountLifecycleToken(r)
           \/ MarkDeliveryAccepted(r) \/ MarkDeliveryFailed(r)
  BY DEF Next, vars, Ask, BringCode, Serve, Begin, PostEmailToken,
       PostVerifyEmail, PostDeleteRecover, DeleteAccountRoute, PostChallenge,
       VerifyEmailVerification, PostEmail, PostVerifyEmailToken,
       PostDeleteRecoverToken, DeliverAccountLifecycleToken,
       CreateEmailVerificationChallengeRecord, ConsumeEmailVerificationChallenge,
       Abandon, ConsumeAccountLifecycleMail, Expire, OtherAccounts,
       ChangeCredentials, RevokeDeviceSession, RecoverAccountDeletion
<1>9. \A r \in Requests : ChangeAccountEmail(r) \/ VerifyAccountEmail(r) =>
        requests[r] \in Request
  BY RequestKinds DEF IInv, ChangeAccountEmail, VerifyAccountEmail, At, Ops
<1> QED
  BY <1>2, <1>3, <1>4, <1>5, <1>6, <1>7, <1>8, <1>9

\* Reservations supersede: of several codes of one purpose only the one that was
\* asked for last is ever consumed.
THEOREM LatestActs == Spec => OnlyTheLatestCodeActs
<1>1. ASSUME IInv, [Next]_vars
      PROVE  [\A t \in Ids : codes'[t].state = "consumed" /\ codes[t].state # "consumed" =>
                \A s \in Ids : s > t /\ codes[s] \in Code =>
                  codes[s].purpose # codes[t].purpose]_vars
  BY <1>1, OnlyActiveCodesAct DEF IInv, Latest
<1> QED
  BY <1>1, CodesInvariant, PTL DEF Spec, OnlyTheLatestCodeActs

=============================================================================
