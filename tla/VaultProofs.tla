----------------------------- MODULE VaultProofs -----------------------------
(***************************************************************************)
(* Vault for every number of records, requests, user keys and times: its   *)
(* types, that shared ciphers are stripped, and what a rotation of the     *)
(* user key leaves and overwrites.                                         *)
(*                                                                         *)
(* The argument is about times: a pending request has a time that no row,  *)
(* no other request and nothing that a client has seen carries.  Whatever  *)
(* a write puts into a row therefore makes it differ from all that others  *)
(* have read of it.                                                        *)
(***************************************************************************)
EXTENDS Vault, TLAPS

LEMMA RecordsAre == Records = Folders \cup Ciphers \cup Attachments \cup Devices
  BY DEF Records, Tables

Writing(r)  == requests[r] \in Write
Rotating(r) == requests[r] \in Rotation
Timed(r)    == Writing(r) \/ (Rotating(r) /\ requests[r].at # "summary")
Pending(r)  == requests[r] # Idle

FolderOps == {"create_folder", "rename_folder", "delete_folder"}
CipherOps == {"create_cipher", "update_cipher", "move", "trash", "restore",
              "purge", "share"}

\* What the routes ask of the records of each operation.
Fits(q) ==
  /\ q.op \in FolderOps => q.records \subseteq Folders
  /\ q.op \in CipherOps => q.records \subseteq Ciphers
  /\ q.op = "attach" => q.records \subseteq Attachments /\ q.link \in Ciphers
  /\ q.op = "trust" => q.records \subseteq Devices
  /\ q.op = "share" => q.link = Null

Fitting == \A r \in Requests : Writing(r) => Fits(requests[r])

DevicesStay == \A d \in Devices : rows[d].state \in {"live", "revoked"}

LEMMA RequestKinds ==
  ASSUME TypeOK, NEW r \in Requests
  PROVE  /\ Writing(r) => requests[r].op # "rotate" /\ ~Rotating(r) /\ Pending(r)
         /\ Rotating(r) => requests[r].op = "rotate" /\ ~Writing(r) /\ Pending(r)
         /\ Pending(r) => Writing(r) \/ Rotating(r)
         /\ requests[r].op = "rotate" => Rotating(r)
         /\ requests[r].op # "rotate" /\ Pending(r) => Writing(r)
<1>1. requests[r] \in Write \cup Rotation \cup {Idle}
  BY DEF TypeOK
<1>2. \A q \in Write : q.op # "rotate" /\ q.op # "idle"
  BY DEF Write
<1>3. \A q \in Rotation : q.op = "rotate"
  BY DEF Rotation
<1>4. Idle.op = "idle"
  BY DEF Idle
<1> QED
  BY <1>1, <1>2, <1>3, <1>4 DEF Writing, Rotating, Pending

LEMMA StoredRows ==
  ASSUME NEW row \in Row \cup {Fresh, Gone}
  PROVE  /\ row \in Row <=> row.state \notin {"unused", "gone"}
         /\ row = Fresh <=> row.state = "unused"
         /\ row = Gone <=> row.state = "gone"
         /\ row \in Row => /\ row.key \in Generations \cup {OrgKey, NoKey}
                           /\ row.rev \in 0 .. MaxTime
                           /\ row.link \in Folders \cup Ciphers \cup {Null}
                           /\ row.state \in {"live", "trashed", "deleted", "pending", "revoked"}
<1>1. \A x \in Row : x.state \in {"live", "trashed", "deleted", "pending", "revoked"}
  BY DEF Row
<1>2. Fresh.state = "unused" /\ Gone.state = "gone"
  BY DEF Fresh, Gone
<1>3. row \in Row => /\ row.key \in Generations \cup {OrgKey, NoKey}
                     /\ row.rev \in 0 .. MaxTime
                     /\ row.link \in Folders \cup Ciphers \cup {Null}
  BY DEF Row
<1> QED
  BY <1>1, <1>2, <1>3

LEMMA RowsAre ==
  ASSUME TypeOK, NEW k \in Records
  PROVE  /\ rows[k] \in Row \cup {Fresh, Gone}
         /\ Stored(k) <=> rows[k] \in Row
         /\ rows[k].state = "live" => rows[k] \in Row
<1>1. rows[k] \in Row \cup {Fresh, Gone}
  BY DEF TypeOK, Table
<1> QED
  BY <1>1, StoredRows DEF Stored

-----------------------------------------------------------------------------
(* What a write does to a row *)

New(q) == [state |-> "live", key |-> q.key, rev |-> q.now, link |-> q.link]

Kept(k)   == rows'[k] = rows[k]
Erased(k) == Stored(k) /\ rows'[k] = Gone /\ k \in Ciphers \cup Attachments
Created(q, k) ==
  k \in Folders \cup Ciphers /\ rows[k] = Fresh /\ rows'[k] = New(q)
Attached(q, k) ==
  /\ q.op = "attach" /\ k \in Attachments /\ rows[k] = Fresh
  /\ q.link \in Ciphers /\ ~Shared(q.link)
  /\ rows'[k] = [New(q) EXCEPT !.state = "pending"]
Edited(q, k) ==
  /\ q.op \in {"rename_folder", "update_cipher"} /\ k \in Folders \cup Ciphers
  /\ IsCurrent(q, k) /\ rows'[k] = New(q)
NowShared(q, k) ==
  /\ q.op = "share" /\ q.link = Null /\ k \in Ciphers
  /\ IsCurrent(q, k) /\ NoAttachment(k)
  /\ rows'[k] = [New(q) EXCEPT !.key = OrgKey]
Stamped(q, k) ==
  /\ k \in Folders \cup Ciphers /\ Stored(k) /\ (k \in Ciphers => ~Shared(k))
  /\ rows'[k] \in Row /\ rows'[k].key = rows[k].key /\ rows'[k].rev = q.now
Trusted(q, k) == k \in Devices /\ Live(k) /\ rows'[k] = New(q)

WrittenAs(q, k) ==
  \/ Created(q, k) \/ Attached(q, k) \/ Edited(q, k)
  \/ NowShared(q, k) \/ Stamped(q, k) \/ Trusted(q, k)

LEMMA SelectsByTable ==
  ASSUME NEW q, NEW k
  PROVE  /\ k \in Folders => Selects(q, k) = SelectsFolder(q, k)
         /\ k \in Ciphers => Selects(q, k) = SelectsCipher(q, k)
         /\ k \in Attachments =>
              Selects(q, k) = (rows[k] = Fresh /\ Live(q.link) /\ ~Shared(q.link))
         /\ k \in Devices => Selects(q, k) = Live(k)
  BY RecordsAreDistinct DEF Selects

LEMMA Selected ==
  ASSUME TypeOK, NEW q \in Write, Fits(q), NEW k \in q.records, Selects(q, k),
         q.op # "purge", rows'[k] = Written(q, k)
  PROVE  WrittenAs(q, k)
<1>1. /\ q.now \in 0 .. MaxTime /\ q.link \in Folders \cup Ciphers \cup {Null}
      /\ q.op \in FolderOps \cup CipherOps \cup {"attach", "trust"}
      /\ k \in Records
  BY DEF Write, FolderOps, CipherOps
<1>2. Stored(k) <=> rows[k] \in Row
  BY <1>1, RowsAre
<1>3. Live(k) => Stored(k)
  BY DEF Live, Stored
<1>4. CASE q.op \in FolderOps
  <2>1. k \in Folders /\ SelectsFolder(q, k)
    BY <1>4, SelectsByTable DEF Fits
  <2>2. k \notin Ciphers
    BY <2>1, RecordsAreDistinct
  <2>3. CASE q.op = "create_folder"
    BY <2>1, <2>3 DEF SelectsFolder, Written, WrittenAs, Created, New
  <2>4. CASE q.op = "rename_folder"
    BY <2>1, <2>4 DEF SelectsFolder, Written, WrittenAs, Edited, New
  <2>5. CASE q.op = "delete_folder"
    <3>1. rows'[k] = [rows[k] EXCEPT !.state = "deleted", !.rev = q.now] /\ Live(k)
      BY <2>1, <2>5 DEF SelectsFolder, Written
    <3>2. rows[k] \in Row /\ Stored(k)
      BY <1>2, <1>3, <3>1
    <3>3. /\ rows'[k] \in Row /\ rows'[k].key = rows[k].key
          /\ rows'[k].rev = q.now
      BY <1>1, <3>1, <3>2 DEF Row
    <3> QED
      BY <2>1, <2>2, <3>2, <3>3 DEF WrittenAs, Stamped
  <2> QED
    BY <1>4, <2>3, <2>4, <2>5 DEF FolderOps
<1>5. CASE q.op \in CipherOps
  <2>1. k \in Ciphers /\ SelectsCipher(q, k)
    BY <1>5, SelectsByTable DEF Fits
  <2>2. CASE q.op = "create_cipher"
    BY <2>1, <2>2 DEF SelectsCipher, Written, WrittenAs, Created, New
  <2>3. CASE q.op = "update_cipher"
    BY <2>1, <2>3 DEF SelectsCipher, Written, WrittenAs, Edited, New
  <2>4. CASE q.op = "share"
    <3>1. IsCurrent(q, k) /\ NoAttachment(k)
      BY <2>1, <2>4 DEF SelectsCipher
    <3>2. rows'[k] = [New(q) EXCEPT !.key = OrgKey]
      BY <2>4 DEF Written, New
    <3> QED
      BY <2>1, <2>4, <3>1, <3>2 DEF WrittenAs, NowShared, Fits
  <2>5. CASE q.op = "move"
    <3>1. rows'[k] = [rows[k] EXCEPT !.link = q.link, !.rev = q.now]
      BY <2>5 DEF Written
    <3>2. Stored(k) /\ ~Shared(k) /\ rows[k] \in Row
      BY <1>2, <2>1, <2>5 DEF SelectsCipher, IsOwn, OwnCipher
    <3>3. /\ rows'[k] \in Row /\ rows'[k].key = rows[k].key
          /\ rows'[k].rev = q.now
      BY <1>1, <3>1, <3>2 DEF Row
    <3> QED
      BY <2>1, <3>2, <3>3 DEF WrittenAs, Stamped
  <2>6. CASE q.op = "trash"
    <3>1. rows'[k] = [rows[k] EXCEPT !.state = "trashed", !.rev = q.now]
      BY <2>6 DEF Written
    <3>2. Stored(k) /\ ~Shared(k) /\ rows[k] \in Row
      BY <1>2, <2>1, <2>6 DEF SelectsCipher, IsOwn, OwnCipher
    <3>3. /\ rows'[k] \in Row /\ rows'[k].key = rows[k].key
          /\ rows'[k].rev = q.now
      BY <1>1, <3>1, <3>2 DEF Row
    <3> QED
      BY <2>1, <3>2, <3>3 DEF WrittenAs, Stamped
  <2>7. CASE q.op = "restore"
    <3>1. rows'[k] = [rows[k] EXCEPT !.state = "live", !.rev = q.now]
      BY <2>7 DEF Written
    <3>2. Stored(k) /\ ~Shared(k) /\ rows[k] \in Row
      BY <1>2, <2>1, <2>7 DEF SelectsCipher, IsOwn, OwnCipher
    <3>3. /\ rows'[k] \in Row /\ rows'[k].key = rows[k].key
          /\ rows'[k].rev = q.now
      BY <1>1, <3>1, <3>2 DEF Row
    <3> QED
      BY <2>1, <3>2, <3>3 DEF WrittenAs, Stamped
  <2> QED
    BY <1>5, <2>2, <2>3, <2>4, <2>5, <2>6, <2>7 DEF CipherOps
<1>6. CASE q.op = "attach"
  <2>1. /\ k \in Attachments /\ q.link \in Ciphers /\ rows[k] = Fresh
        /\ ~Shared(q.link)
    BY <1>6, SelectsByTable DEF Fits
  <2>2. rows'[k] = [New(q) EXCEPT !.state = "pending"]
    BY <1>6 DEF Written, New
  <2> QED
    BY <1>6, <2>1, <2>2 DEF WrittenAs, Attached
<1>7. CASE q.op = "trust"
  <2>1. k \in Devices /\ Live(k)
    BY <1>7, SelectsByTable DEF Fits
  <2>2. rows'[k] = New(q)
    BY <1>7 DEF Written, New
  <2> QED
    BY <2>1, <2>2 DEF WrittenAs, Trusted
<1> QED
  BY <1>1, <1>4, <1>5, <1>6, <1>7

LEMMA WritesOfARequest ==
  ASSUME TypeOK, Fitting, NEW r \in Requests, CommitWrite(r)
  PROVE  /\ Writing(r) /\ Fits(requests[r]) /\ requests[r].at = "write"
         /\ requests' = [requests EXCEPT ![r] = Idle]
         /\ account' = account /\ used' = used /\ clock' = clock
         /\ DOMAIN rows' = Records /\ rows' = [k \in Records |-> rows'[k]]
         /\ \A k \in Records :
              \/ Kept(k) \/ Erased(k)
              \/ k \in requests[r].records /\ WrittenAs(requests[r], k)
<1> DEFINE q == requests[r]
           S == {k \in q.records : Selects(q, k)}
           erased == IF q.op = "purge" THEN Cascade(S) ELSE {}
           changed == [k \in S \cup erased |-> IF k \in S THEN Written(q, k) ELSE Gone]
<1>1. /\ q # Idle /\ q.op # "rotate" /\ q.at = "write" /\ Put(changed) /\ Finish(r)
      /\ account' = account /\ used' = used /\ clock' = clock
  BY DEF CommitWrite
<1>2. Writing(r)
  BY <1>1, RequestKinds DEF Pending
<1>3. Fits(q) /\ q \in Write
  BY <1>2 DEF Fitting, Writing
<1>4. rows' = [k \in Records |-> IF k \in DOMAIN changed THEN changed[k] ELSE rows[k]]
  BY <1>1 DEF Put
<1>5. \A k \in Records :
        rows'[k] = IF k \in S THEN Written(q, k) ELSE IF k \in erased THEN Gone ELSE rows[k]
  BY <1>4
<1>6. ASSUME NEW k \in Records
      PROVE  Kept(k) \/ Erased(k) \/ (k \in q.records /\ WrittenAs(q, k))
  <2>1. CASE k \in S /\ q.op # "purge"
    <3>1. k \in q.records /\ Selects(q, k)
      BY <2>1
    <3>2. rows'[k] = Written(q, k)
      BY <1>5, <2>1
    <3> QED
      BY <1>3, <2>1, <3>1, <3>2, Selected
  <2>2. CASE k \in S /\ q.op = "purge"
    <3>1. k \in Ciphers /\ Selects(q, k)
      BY <1>3, <2>2 DEF Fits, CipherOps
    <3>2. SelectsCipher(q, k)
      BY <3>1, SelectsByTable
    <3>3. Stored(k)
      BY <2>2, <3>2 DEF SelectsCipher, IsOwn, OwnCipher
    <3>4. rows'[k] = Gone
      BY <1>5, <2>2 DEF Written
    <3> QED
      BY <3>1, <3>3, <3>4 DEF Erased
  <2>3. CASE k \notin S /\ k \in erased
    <3>1. k \in Attachments /\ Stored(k)
      BY <2>3 DEF Cascade
    <3> QED
      BY <1>5, <2>3, <3>1 DEF Erased
  <2>4. CASE k \notin S /\ k \notin erased
    BY <1>5, <2>4 DEF Kept
  <2> QED
    BY <2>1, <2>2, <2>3, <2>4
<1>7. DOMAIN rows' = Records /\ rows' = [k \in Records |-> rows'[k]]
  BY <1>4
<1> QED
  BY <1>1, <1>2, <1>3, <1>6, <1>7 DEF Finish

-----------------------------------------------------------------------------
(* The inductive invariant *)

\* Dates that rows carry, and that requests have read of rows.
InRows(t) == t = 0 \/ \E k \in Records : Stored(k) /\ rows[k].rev = t
InHand(s, t) ==
  \/ Writing(s) /\ requests[s].rev = t
  \/ Rotating(s) /\ \E k \in Records :
       requests[s].seen[k] \in Row /\ requests[s].seen[k].rev = t
Known(t) == InRows(t) \/ \E s \in Requests : InHand(s, t)

\* The time of a pending request is its own.
Apart ==
  /\ \A t \in 0 .. MaxTime : Known(t) =>
       t <= clock /\ \A r \in Requests : Timed(r) => t # requests[r].now
  /\ \A r \in Requests : Timed(r) => 0 < requests[r].now /\ requests[r].now <= clock
  /\ \A r, s \in Requests :
       Timed(r) /\ Timed(s) /\ r # s => requests[r].now # requests[s].now

UsedKeys ==
  account \in used /\ \A r \in Requests : Pending(r) => requests[r].key \in used

\* What a rotation's client saw was live.  A cipher of the same revision still is
\* as it was seen, and so is an attachment while the user key is the one it saw.
SeenRow(q, k) ==
  /\ q.seen[k].state = "live" /\ rows[k] # Fresh
  /\ k \in Ciphers /\ Stored(k) /\ rows[k].rev = q.seen[k].rev => rows[k] = q.seen[k]
  /\ k \in Attachments /\ Stored(k) /\ q.key = account => rows[k] = q.seen[k]
SeenRowsStay ==
  \A r \in Requests : Rotating(r) =>
    \A k \in Records : requests[r].seen[k] \in Row => SeenRow(requests[r], k)

\* An edit of a row of the current key that is not stale is under that key.
EditOps == {"rename_folder", "update_cipher"}
EditsOfKey ==
  \A r \in Requests : Writing(r) /\ requests[r].op \in EditOps =>
    \A k \in requests[r].records :
      Stored(k) /\ rows[k].rev = requests[r].rev /\ rows[k].key = account
        => requests[r].key = account

Matched ==
  \A r \in Requests : At(r, "rotate", "write") => RequestMatches(requests[r])

IInv ==
  /\ TypeOK /\ Fitting /\ DevicesStay /\ Apart /\ UsedKeys
  /\ SeenRowsStay /\ EditsOfKey /\ Matched /\ SharedCiphersAreStripped

LEMMA ApartStep ==
  ASSUME TypeOK, Apart, TypeOK', clock' \in {clock, clock + 1},
         NEW u \in Requests,
         \A r \in Requests : Timed(r)' =>
           \/ Timed(r) /\ requests'[r].now = requests[r].now
           \/ r = u /\ requests'[r].now = clock + 1 /\ clock' = clock + 1,
         \A t \in 0 .. MaxTime : Known(t)' =>
           Known(t) \/ (Timed(u) /\ ~Timed(u)' /\ t = requests[u].now)
  PROVE  Apart'
<1>1. clock \in Nat /\ clock' \in Nat
  BY BoundIsNatural DEF TypeOK
<1>2. \A r \in Requests : Timed(r) => requests[r].now \in 0 .. MaxTime
  BY DEF Timed, Writing, Rotating, Write, Rotation
<1>3. \A r \in Requests : Timed(r)' => requests'[r].now \in 0 .. MaxTime
  BY DEF Timed, Writing, Rotating, Write, Rotation
<1>4. ASSUME NEW t \in 0 .. MaxTime, Known(t)' PROVE t <= clock
  BY <1>4 DEF Apart
<1>5. ASSUME NEW t \in 0 .. MaxTime, Known(t)', NEW r \in Requests, Timed(r)'
      PROVE  t # requests'[r].now
  <2>1. CASE Timed(r) /\ requests'[r].now = requests[r].now
    <3>1. CASE Known(t)
      BY <2>1, <3>1 DEF Apart
    <3>2. CASE Timed(u) /\ ~Timed(u)' /\ t = requests[u].now
      <4>1. r # u
        BY <1>5, <3>2
      <4> QED
        BY <2>1, <3>2, <4>1 DEF Apart
    <3> QED
      BY <1>5, <3>1, <3>2
  <2>2. CASE requests'[r].now = clock + 1
    BY <1>1, <1>4, <1>5, <2>2
  <2> QED
    BY <1>5, <2>1, <2>2
<1>7. ASSUME NEW r \in Requests, Timed(r)'
      PROVE  0 < requests'[r].now /\ requests'[r].now <= clock'
  BY <1>1, <1>2, <1>7 DEF Apart
<1>6. ASSUME NEW r \in Requests, NEW s \in Requests, Timed(r)', Timed(s)', r # s
      PROVE  requests'[r].now # requests'[s].now
  BY <1>1, <1>6 DEF Apart
<1>8. \A t \in 0 .. MaxTime : Known(t)' =>
        t <= clock' /\ \A r \in Requests : Timed(r)' => t # requests'[r].now
  <2>1. ASSUME NEW t \in 0 .. MaxTime, t <= clock PROVE t <= clock'
    BY <1>1, <2>1
  <2> QED
    BY <1>4, <1>5, <2>1
<1> QED
  BY <1>6, <1>7, <1>8 DEF Apart

-----------------------------------------------------------------------------
(* Steps of a request that change no row *)

\* How a request may go on: a write starts or passes its check, a rotation starts,
\* takes its time, or reads.
Starts(r, new) ==
  /\ new \in Write /\ ~Pending(r) /\ Fits(new)
  /\ new.key = account /\ InRows(new.rev)
  /\ new.now = clock + 1 /\ clock' = clock + 1
Checked(r, new) ==
  /\ new \in Write /\ Writing(r)
  /\ new.op = requests[r].op
  /\ new.key = requests[r].key /\ new.now = requests[r].now
  /\ new.records = requests[r].records /\ new.rev = requests[r].rev
  /\ new.link = requests[r].link
Submits(r, new) ==
  /\ new \in Rotation /\ ~Pending(r) /\ new.at = "summary" /\ new.key = account
  /\ \A k \in Records : new.seen[k] \in Row =>
       rows[k] = new.seen[k] /\ rows[k].state = "live"
Reads(r, new) ==
  /\ new \in Rotation /\ Rotating(r)
  /\ new.key = requests[r].key /\ new.seen = requests[r].seen
  /\ new.at = "write" => RequestMatches(new)
  /\ \/ requests[r].at = "summary" /\ new.now = clock + 1 /\ clock' = clock + 1
     \/ requests[r].at # "summary" /\ new.now = requests[r].now
Ends(new) == new = Idle

RequestStep(r, new) ==
  /\ requests' = [requests EXCEPT ![r] = new]
  /\ UNCHANGED <<account, used, rows>>
  /\ clock' \in {clock, clock + 1} /\ clock' \in 0 .. MaxTime
  /\ Starts(r, new) \/ Checked(r, new) \/ Submits(r, new) \/ Reads(r, new) \/ Ends(new)

LEMMA NewKinds ==
  /\ \A q \in Write : q \notin Rotation /\ q # Idle /\ q.op # "rotate"
  /\ \A q \in Rotation : q \notin Write /\ q # Idle /\ q.op = "rotate"
  /\ Idle \notin Write /\ Idle \notin Rotation /\ Idle.op # "rotate"
<1>1. \A q \in Write : q.op # "rotate" /\ q.op # "idle"
  BY DEF Write
<1>2. \A q \in Rotation : q.op = "rotate"
  BY DEF Rotation
<1>3. Idle.op = "idle"
  BY DEF Idle
<1> QED
  BY <1>1, <1>2, <1>3

LEMMA RequestStepsKeep ==
  ASSUME IInv, NEW r \in Requests, NEW new, RequestStep(r, new)
  PROVE  IInv'
<1>1. /\ TypeOK /\ Fitting /\ DevicesStay /\ Apart /\ UsedKeys /\ SeenRowsStay
      /\ EditsOfKey /\ Matched /\ SharedCiphersAreStripped
  BY DEF IInv
<1>2. /\ requests \in [Requests -> Write \cup Rotation \cup {Idle}]
      /\ clock \in Nat
  BY <1>1, BoundIsNatural DEF TypeOK
<1>3. /\ rows' = rows /\ account' = account /\ used' = used
      /\ requests' = [requests EXCEPT ![r] = new]
      /\ clock' \in {clock, clock + 1} /\ clock' \in 0 .. MaxTime
  BY DEF RequestStep
<1>4. \A s \in Requests : requests'[s] = IF s = r THEN new ELSE requests[s]
  BY <1>2, <1>3
<1>5. new \in Write \cup Rotation \cup {Idle}
  BY DEF RequestStep, Starts, Checked, Submits, Reads, Ends
<1>6. TypeOK'
  <2>1. requests' \in [Requests -> Write \cup Rotation \cup {Idle}]
    BY <1>2, <1>3, <1>5
  <2> QED
    BY <1>1, <1>3, <2>1 DEF TypeOK
<1>7. Fitting'
  <2>1. new \in Write => Fits(new)
    <3>1. CASE Starts(r, new)
      BY <3>1 DEF Starts
    <3>2. CASE Checked(r, new)
      BY <1>1, <3>2 DEF Checked, Fitting, Fits
    <3> QED
      BY <3>1, <3>2, NewKinds DEF RequestStep, Submits, Reads, Ends
  <2> QED
    BY <1>1, <1>4, <2>1 DEF Fitting, Writing
<1>8. DevicesStay' /\ SharedCiphersAreStripped'
  BY <1>1, <1>3 DEF DevicesStay, SharedCiphersAreStripped, Shared, Stored, NoAttachment
<1>9. UsedKeys'
  <2>1. new # Idle => new.key \in used
    BY <1>1, RequestKinds
    DEF RequestStep, Starts, Checked, Submits, Reads, Ends, UsedKeys
  <2> QED
    BY <1>1, <1>3, <1>4, <2>1 DEF UsedKeys, Pending
<1>10. SeenRowsStay'
  <2>1. ASSUME new \in Rotation, NEW k \in Records, new.seen[k] \in Row
        PROVE  SeenRow(new, k)
    <3>1. CASE Submits(r, new)
      <4>1. rows[k] = new.seen[k] /\ rows[k].state = "live"
        BY <2>1, <3>1 DEF Submits
      <4> QED
        BY <4>1 DEF SeenRow, Fresh
    <3>2. CASE Reads(r, new)
      BY <1>1, <2>1, <3>2 DEF Reads, SeenRowsStay, SeenRow
    <3> QED
      BY <2>1, <3>1, <3>2, NewKinds DEF RequestStep, Starts, Checked, Ends
  <2>2. ASSUME NEW s \in Requests, Rotating(s)', NEW k \in Records,
               requests'[s].seen[k] \in Row
        PROVE  SeenRow(requests'[s], k)
    BY <1>1, <1>4, <2>1, <2>2 DEF SeenRowsStay, Rotating
  <2>3. ASSUME NEW s \in Requests, Rotating(s)', NEW k \in Records,
               requests'[s].seen[k] \in Row
        PROVE  SeenRow(requests[s], k)'
    <3>1. SeenRow(requests'[s], k)
      BY <2>2, <2>3
    <3> QED
      BY <1>3, <3>1 DEF SeenRow, Stored
  <2> QED
    BY <2>3 DEF SeenRowsStay
<1>11. EditsOfKey'
  <2>1. ASSUME new \in Write, new.op \in EditOps, NEW k \in new.records,
               Stored(k) /\ rows[k].rev = new.rev /\ rows[k].key = account
        PROVE  new.key = account
    <3>1. CASE Starts(r, new)
      BY <3>1 DEF Starts
    <3>2. CASE Checked(r, new)
      BY <1>1, <2>1, <3>2 DEF Checked, EditsOfKey
    <3> QED
      BY <2>1, <3>1, <3>2, NewKinds DEF RequestStep, Submits, Reads, Ends
  <2> QED
    BY <1>1, <1>3, <1>4, <2>1 DEF EditsOfKey, Writing, Stored
<1>12. Matched'
  <2>1. new.op = "rotate" /\ new.at = "write" => RequestMatches(new)
    BY NewKinds DEF RequestStep, Starts, Checked, Submits, Reads, Ends
  <2>2. ASSUME NEW s \in Requests, requests'[s].op = "rotate", requests'[s].at = "write"
        PROVE  RequestMatches(requests'[s])
    BY <1>1, <1>4, <2>1, <2>2 DEF Matched, At
  <2>3. ASSUME NEW s \in Requests, At(s, "rotate", "write")'
        PROVE  RequestMatches(requests[s])'
    <3>1. RequestMatches(requests'[s])
      BY <2>2, <2>3 DEF At
    <3> QED
      BY <3>1 DEF RequestMatches, Submitted, Personal
  <2> QED
    BY <2>3 DEF Matched
<1>13. Apart'
  <2>1. ASSUME NEW s \in Requests, Timed(s)'
        PROVE  \/ Timed(s) /\ requests'[s].now = requests[s].now
               \/ s = r /\ requests'[s].now = clock + 1 /\ clock' = clock + 1
    <3>1. CASE s # r
      BY <1>4, <2>1, <3>1 DEF Timed, Writing, Rotating
    <3>2. CASE s = r
      <4>1. requests'[s] = new
        BY <1>4, <3>2
      <4>2. new \in Write \/ (new \in Rotation /\ new.at # "summary")
        BY <2>1, <4>1 DEF Timed, Writing, Rotating
      <4> QED
        BY <3>2, <4>1, <4>2, NewKinds
        DEF RequestStep, Starts, Checked, Submits, Reads, Ends, Timed, Writing, Rotating
    <3> QED
      BY <3>1, <3>2
  <2>2. ASSUME NEW t \in 0 .. MaxTime, Known(t)' PROVE Known(t)
    <3>1. CASE InRows(t)'
      BY <1>3, <3>1 DEF InRows, Stored, Known
    <3>2. ASSUME NEW s \in Requests, InHand(s, t)', s # r PROVE Known(t)
      BY <1>4, <3>2 DEF InHand, Writing, Rotating, Known
    <3>3. CASE InHand(r, t)'
      <4>1. \/ new \in Write /\ new.rev = t
            \/ new \in Rotation /\ \E k \in Records : new.seen[k] \in Row /\ new.seen[k].rev = t
        BY <1>4, <3>3 DEF InHand, Writing, Rotating
      <4>2. CASE Starts(r, new)
        BY <4>1, <4>2, NewKinds DEF Starts, Known
      <4>3. CASE Checked(r, new)
        BY <4>1, <4>3, NewKinds DEF Checked, InHand, Known
      <4>4. CASE Submits(r, new)
        <5>1. PICK k \in Records : new.seen[k] \in Row /\ new.seen[k].rev = t
          BY <4>1, <4>4, NewKinds DEF Submits
        <5>2. rows[k] = new.seen[k] /\ rows[k].state = "live"
          BY <4>4, <5>1 DEF Submits
        <5> QED
          BY <5>1, <5>2 DEF InRows, Stored, Known
      <4>5. CASE Reads(r, new)
        BY <4>1, <4>5, NewKinds DEF Reads, InHand, Known
      <4>6. ~Ends(new)
        BY <4>1, NewKinds DEF Ends
      <4> QED
        BY <4>2, <4>3, <4>4, <4>5, <4>6 DEF RequestStep
    <3> QED
      BY <2>2, <3>1, <3>2, <3>3 DEF Known
  <2> QED
    BY <1>1, <1>3, <1>6, <2>1, <2>2, ApartStep
<1> QED
  BY <1>6, <1>7, <1>8, <1>9, <1>10, <1>11, <1>12, <1>13 DEF IInv

LEMMA BeginIsAStep ==
  ASSUME TypeOK, NEW r \in Requests,
         NEW op \in FolderOps \cup CipherOps \cup {"attach", "trust"},
         NEW step \in {"check", "write"}, NEW S \in SUBSET Records,
         NEW rev \in 0 .. MaxTime, NEW link \in Folders \cup Ciphers \cup {Null},
         Begin(r, op, step, S, rev, link), InRows(rev),
         op \in FolderOps => S \subseteq Folders,
         op \in CipherOps => S \subseteq Ciphers,
         op = "attach" => S \subseteq Attachments /\ link \in Ciphers,
         op = "trust" => S \subseteq Devices,
         op = "share" => link = Null
  PROVE  \E new : RequestStep(r, new)
<1> DEFINE new == [op |-> op, at |-> step, key |-> account, now |-> clock + 1,
                   records |-> S, rev |-> rev, link |-> link]
<1>1. account \in Generations /\ clock \in 0 .. MaxTime
  BY DEF TypeOK
<1>2. clock + 1 \in 0 .. MaxTime
  BY <1>1, BoundIsNatural DEF Begin
<1>3. new \in Write
  BY <1>1, <1>2 DEF Write, FolderOps, CipherOps
<1>4. Fits(new)
  BY DEF Fits
<1>5. Starts(r, new)
  BY <1>3, <1>4 DEF Starts, Begin, Pending
<1>6. RequestStep(r, new)
  BY <1>2, <1>5 DEF RequestStep, Begin
<1> QED
  BY <1>6

LEMMA RoutesAreSteps ==
  ASSUME TypeOK, NEW r \in Requests,
         \/ PostFolder(r) \/ PutFolder(r) \/ DeleteFolder(r)
         \/ PostCipher(r) \/ PutCipher(r) \/ PutCiphersMove(r)
         \/ PutCiphersDelete(r) \/ PutCiphersRestore(r) \/ DeleteCiphers(r)
         \/ PutCipherShare(r) \/ PostAttachment(r) \/ PostUpdateTrust(r)
  PROVE  \E new : RequestStep(r, new)
<1>1. /\ Folders \subseteq Records /\ Ciphers \subseteq Records
      /\ Attachments \subseteq Records /\ Devices \subseteq Records
  BY RecordsAre
<1>2. 0 \in 0 .. MaxTime /\ InRows(0)
  BY BoundIsNatural DEF InRows
<1>3. \A k \in Records : Stored(k) => rows[k].rev \in 0 .. MaxTime /\ InRows(rows[k].rev)
  BY RowsAre, StoredRows DEF InRows
<1>4. \A k \in Records : Live(k) => Stored(k)
  BY DEF Live, Stored
<1>5. \A link : FolderStep(link) \in {"check", "write"}
  BY DEF FolderStep
<1>6. /\ "create_folder" \in FolderOps /\ "rename_folder" \in FolderOps
      /\ "delete_folder" \in FolderOps /\ "create_cipher" \in CipherOps
      /\ "update_cipher" \in CipherOps /\ "move" \in CipherOps
      /\ "trash" \in CipherOps /\ "restore" \in CipherOps
      /\ "purge" \in CipherOps /\ "share" \in CipherOps
  BY DEF FolderOps, CipherOps
<1>7. FolderOps \cap CipherOps = {} /\ {"attach", "trust"} \cap (FolderOps \cup CipherOps) = {}
  BY DEF FolderOps, CipherOps
<1>8. \A op \in FolderOps : op # "share"
  BY DEF FolderOps
\* A route of folders, or of ciphers, with the folder they go to.
<1>9. ASSUME NEW op \in FolderOps, NEW f \in Folders, NEW rev \in 0 .. MaxTime,
             InRows(rev), Begin(r, op, "write", {f}, rev, Null)
      PROVE  \E new : RequestStep(r, new)
  <2>1. {f} \in SUBSET Records /\ {f} \subseteq Folders
    BY <1>1
  <2> QED
    BY <1>7, <1>8, <1>9, <2>1, BeginIsAStep
<1>10. ASSUME NEW op \in CipherOps, NEW S \in SUBSET Ciphers, NEW rev \in 0 .. MaxTime,
              NEW link \in Folders \cup {Null}, NEW step \in {"check", "write"},
              op = "share" => link = Null,
              InRows(rev), Begin(r, op, step, S, rev, link)
       PROVE  \E new : RequestStep(r, new)
  <2>1. S \in SUBSET Records
    BY <1>1
  <2> QED
    BY <1>7, <1>10, <2>1, BeginIsAStep
<1>11. CASE PostFolder(r) \/ PutFolder(r) \/ DeleteFolder(r)
  BY <1>1, <1>2, <1>3, <1>4, <1>6, <1>9, <1>11 DEF PostFolder, PutFolder, DeleteFolder
<1>12. CASE PostCipher(r)
  <2>1. PICK c \in Ciphers, link \in Folders \cup {Null} :
          Begin(r, "create_cipher", FolderStep(link), {c}, 0, link)
    BY <1>12 DEF PostCipher
  <2> QED
    BY <1>2, <1>5, <1>6, <1>10, <2>1
<1>13. CASE PutCipher(r)
  <2>1. PICK c \in Ciphers, link \in Folders \cup {Null} :
          Stored(c) /\ Begin(r, "update_cipher", FolderStep(link), {c}, rows[c].rev, link)
    BY <1>13 DEF PutCipher
  <2> QED
    BY <1>1, <1>3, <1>5, <1>6, <1>10, <2>1
<1>14. CASE PutCiphersMove(r)
  <2>1. PICK S \in SUBSET Ciphers, link \in Folders \cup {Null} :
          Begin(r, "move", FolderStep(link), S, 0, link)
    BY <1>14 DEF PutCiphersMove
  <2> QED
    BY <1>2, <1>5, <1>6, <1>10, <2>1
<1>15. CASE PutCiphersDelete(r) \/ PutCiphersRestore(r) \/ DeleteCiphers(r)
  <2>1. PICK S \in SUBSET Ciphers, op \in {"trash", "restore", "purge"} :
          Begin(r, op, "write", S, 0, Null)
    BY <1>15 DEF PutCiphersDelete, PutCiphersRestore, DeleteCiphers
  <2>2. op \in CipherOps
    BY <1>6
  <2> QED
    BY <1>2, <1>10, <2>1, <2>2
<1>16. CASE PutCipherShare(r)
  <2>1. PICK c \in Ciphers :
          Stored(c) /\ Begin(r, "share", "write", {c}, rows[c].rev, Null)
    BY <1>16 DEF PutCipherShare
  <2> QED
    BY <1>1, <1>3, <1>6, <1>10, <2>1
<1>17. CASE PostAttachment(r)
  <2>1. PICK a \in Attachments, c \in Ciphers : Begin(r, "attach", "write", {a}, 0, c)
    BY <1>17 DEF PostAttachment
  <2>2. {a} \in SUBSET Records /\ {a} \subseteq Attachments
    BY <1>1
  <2> QED
    BY <1>2, <1>7, <2>1, <2>2, BeginIsAStep
<1>18. CASE PostUpdateTrust(r)
  <2>1. PICK d \in Devices : Begin(r, "trust", "write", {d}, 0, Null)
    BY <1>18 DEF PostUpdateTrust
  <2>2. {d} \in SUBSET Records /\ {d} \subseteq Devices
    BY <1>1
  <2> QED
    BY <1>2, <1>7, <2>1, <2>2, BeginIsAStep
<1> QED
  BY <1>11, <1>12, <1>13, <1>14, <1>15, <1>16, <1>17, <1>18

LEMMA CheckIsAStep ==
  ASSUME TypeOK, NEW r \in Requests, FolderBelongsToUser(r)
  PROVE  \E new : RequestStep(r, new)
<1>1. requests[r] # Idle /\ requests[r].at = "check"
  BY DEF FolderBelongsToUser
<1>2. Writing(r)
  BY <1>1, RequestKinds DEF Rotating, Rotation, Pending
<1>3. clock' \in {clock, clock + 1} /\ clock' \in 0 .. MaxTime
  BY DEF FolderBelongsToUser, TypeOK
<1>4. CASE Goto(r, "write")
  <2> DEFINE new == [requests[r] EXCEPT !.at = "write"]
  <2>1. new \in Write
    BY <1>2 DEF Writing, Write
  <2>2. Checked(r, new)
    BY <1>2, <2>1 DEF Checked, Writing, Write
  <2>3. requests' = [requests EXCEPT ![r] = new]
    BY <1>4 DEF Goto, TypeOK
  <2> HIDE DEF new
  <2>4. RequestStep(r, new)
    BY <1>3, <2>2, <2>3 DEF RequestStep, FolderBelongsToUser
  <2> QED
    BY <2>4
<1>5. CASE Finish(r)
  <2>1. RequestStep(r, Idle)
    BY <1>3, <1>5 DEF RequestStep, FolderBelongsToUser, Finish, Ends
  <2> QED
    BY <2>1
<1> QED
  BY <1>4, <1>5 DEF FolderBelongsToUser

LEMMA TablesOfAClient ==
  ASSUME TypeOK, NEW S \in SUBSET Records
  PROVE  /\ Only(S) \in Table
         /\ \A k \in Records : Only(S)[k] \in Row => k \in S /\ Only(S)[k] = rows[k]
<1>1. Fresh \notin Row
  BY StoredRows
<1>2. \A k \in Records : rows[k] \in Row \cup {Fresh, Gone}
  BY RowsAre
<1> QED
  BY <1>1, <1>2 DEF Only, Table

LEMMA RotationIsAStep ==
  ASSUME TypeOK, NEW r \in Requests,
         \/ \E next \in Generations : ClientSubmitsRotation(r, next)
         \/ RotationSummary(r)
         \/ \E table \in Tables : RotationRead(r, table)
  PROVE  \E new : RequestStep(r, new)
<1>1. account \in Generations /\ clock \in 0 .. MaxTime
  BY DEF TypeOK
<1>2. ASSUME NEW next \in Generations, ClientSubmitsRotation(r, next)
      PROVE  \E new : RequestStep(r, new)
  <2> DEFINE new == [op |-> "rotate", at |-> "summary", key |-> account, next |-> next,
                     now |-> 0, seen |-> Only(Listed), read |-> Only({}),
                     left |-> Tables]
  <2>1. Listed \in SUBSET Records /\ {} \in SUBSET Records
    BY DEF Listed, Submitted, Personal
  <2>2. new \in Rotation
    BY <1>1, <2>1, TablesOfAClient, BoundIsNatural DEF Rotation
  <2>3. \A k \in Records : Only(Listed)[k] \in Row =>
          rows[k] = Only(Listed)[k] /\ rows[k].state = "live"
    BY <2>1, TablesOfAClient DEF Listed, Submitted
  <2>4. Submits(r, new)
    BY <1>2, <2>2, <2>3 DEF Submits, ClientSubmitsRotation, Pending
  <2>5. RequestStep(r, new)
    BY <1>1, <1>2, <2>4 DEF RequestStep, ClientSubmitsRotation
  <2> QED
    BY <2>5
<1>3. CASE RotationSummary(r)
  <2>1. Rotating(r) /\ requests[r].at = "summary"
    BY <1>3, RequestKinds DEF RotationSummary, At
  <2>2. clock' = clock + 1 /\ clock + 1 \in 0 .. MaxTime
    BY <1>1, <1>3, BoundIsNatural DEF RotationSummary
  <2>3. CASE requests' = [requests EXCEPT ![r].at = "read", ![r].now = clock + 1]
    <3> DEFINE new == [requests[r] EXCEPT !.at = "read", !.now = clock + 1]
    <3>1. new \in Rotation
      BY <2>1, <2>2 DEF Rotating, Rotation
    <3>2. /\ new.key = requests[r].key /\ new.seen = requests[r].seen
          /\ new.at = "read" /\ new.now = clock + 1
      BY <2>1 DEF Rotating, Rotation
    <3>3. requests' = [requests EXCEPT ![r] = new]
      BY <2>3 DEF TypeOK
    <3> HIDE DEF new
    <3>4. Reads(r, new)
      BY <2>1, <2>2, <3>1, <3>2 DEF Reads
    <3>5. RequestStep(r, new)
      BY <1>3, <2>2, <3>3, <3>4 DEF RequestStep, RotationSummary
    <3> QED
      BY <3>5
  <2>4. CASE Finish(r)
    <3>1. RequestStep(r, Idle)
      BY <1>3, <2>2, <2>4 DEF RequestStep, RotationSummary, Finish, Ends
    <3> QED
      BY <3>1
  <2> QED
    BY <1>3, <2>3, <2>4 DEF RotationSummary
<1>4. ASSUME NEW table \in Tables, RotationRead(r, table)
      PROVE  \E new : RequestStep(r, new)
  <2> DEFINE q == WithTable(requests[r], table)
             done == [q EXCEPT !.at = "write"]
  <2>1. Rotating(r) /\ requests[r].at = "read"
    BY <1>4, RequestKinds DEF RotationRead, At
  <2>2. Listed \cup (Personal(rows) \cap Devices) \in SUBSET Records
    BY DEF Listed, Submitted, Personal
  <2>3. [k \in Records |->
          IF k \in table
          THEN Only(Listed \cup (Personal(rows) \cap Devices))[k]
          ELSE requests[r].read[k]] \in Table
    <3>1. requests[r].read \in Table
      BY <2>1 DEF Rotating, Rotation
    <3>2. Only(Listed \cup (Personal(rows) \cap Devices)) \in Table
      BY <2>2, TablesOfAClient
    <3> QED
      BY <3>1, <3>2 DEF Table
  <2>4. q \in Rotation
    BY <2>1, <2>3 DEF Rotating, Rotation, WithTable
  <2>5. /\ q.key = requests[r].key /\ q.seen = requests[r].seen
        /\ q.at = "read" /\ q.now = requests[r].now
    BY <2>1 DEF Rotating, Rotation, WithTable
  <2>6. /\ UNCHANGED <<account, used, rows, clock>>
        /\ clock' \in {clock, clock + 1} /\ clock' \in 0 .. MaxTime
    BY <1>1, <1>4 DEF RotationRead
  <2>7. CASE requests' = [requests EXCEPT ![r] = q]
    <3>1. Reads(r, q)
      BY <2>1, <2>4, <2>5 DEF Reads
    <3>2. RequestStep(r, q)
      BY <2>6, <2>7, <3>1 DEF RequestStep
    <3> QED
      BY <3>2
  <2>8. CASE requests' = [requests EXCEPT ![r] = done] /\ RequestMatches(q)
    <3>1. done \in Rotation
      BY <2>4 DEF Rotation
    <3>2. /\ done.key = q.key /\ done.seen = q.seen /\ done.read = q.read
          /\ done.now = q.now
      BY <2>4 DEF Rotation
    <3> HIDE DEF done
    <3>3. RequestMatches(done)
      BY <2>8, <3>2 DEF RequestMatches
    <3>4. Reads(r, done)
      BY <2>1, <2>5, <3>1, <3>2, <3>3 DEF Reads
    <3>5. RequestStep(r, done)
      BY <2>6, <2>8, <3>4 DEF RequestStep
    <3> QED
      BY <3>5
  <2>9. CASE requests' = [requests EXCEPT ![r] = Idle]
    <3>1. RequestStep(r, Idle)
      BY <2>6, <2>9 DEF RequestStep, Ends
    <3> QED
      BY <3>1
  <2> QED
    BY <1>4, <2>7, <2>8, <2>9 DEF RotationRead
<1> QED
  BY <1>2, <1>3, <1>4

-----------------------------------------------------------------------------
(* Writes *)

LEMMA NewIsARow ==
  ASSUME NEW q \in Write
  PROVE  /\ New(q) \in Row /\ [New(q) EXCEPT !.state = "pending"] \in Row
         /\ [New(q) EXCEPT !.key = OrgKey] \in Row
  BY DEF New, Write, Row

\* A row that a write made carries the time of the write; only new, edited and
\* trusted records take its key, and only a share that of an organization.
LEMMA WrittenRows ==
  ASSUME TypeOK, NEW q \in Write, NEW k \in Records, WrittenAs(q, k)
  PROVE  /\ rows'[k] \in Row /\ rows'[k].rev = q.now
         /\ rows'[k].key \in {q.key, OrgKey} \/ (rows'[k].key = rows[k].key /\ Stored(k))
         /\ k \in Attachments => Attached(q, k)
         /\ k \in Devices => Trusted(q, k)
         /\ k \notin Folders \cup Ciphers => ~Created(q, k) /\ ~Edited(q, k) /\ ~Stamped(q, k)
<1>1. New(q) \in Row /\ New(q).key = q.key /\ New(q).rev = q.now
  BY NewIsARow DEF New
<1>2. /\ [New(q) EXCEPT !.state = "pending"] \in Row
      /\ [New(q) EXCEPT !.state = "pending"].key = q.key
      /\ [New(q) EXCEPT !.state = "pending"].rev = q.now
  BY NewIsARow DEF New
<1>3. /\ [New(q) EXCEPT !.key = OrgKey] \in Row
      /\ [New(q) EXCEPT !.key = OrgKey].key = OrgKey
      /\ [New(q) EXCEPT !.key = OrgKey].rev = q.now
  BY NewIsARow DEF New
<1>4. /\ rows'[k] \in Row /\ rows'[k].rev = q.now
      /\ rows'[k].key \in {q.key, OrgKey} \/ (rows'[k].key = rows[k].key /\ Stored(k))
  <2>1. CASE Created(q, k) \/ Edited(q, k) \/ Trusted(q, k)
    <3>1. rows'[k] = New(q)
      BY <2>1 DEF Created, Edited, Trusted
    <3> QED
      BY <1>1, <3>1
  <2>2. CASE Attached(q, k)
    <3>1. rows'[k] = [New(q) EXCEPT !.state = "pending"]
      BY <2>2 DEF Attached
    <3> QED
      BY <1>2, <3>1
  <2>3. CASE NowShared(q, k)
    <3>1. rows'[k] = [New(q) EXCEPT !.key = OrgKey]
      BY <2>3 DEF NowShared
    <3> QED
      BY <1>3, <3>1
  <2>4. CASE Stamped(q, k)
    BY <2>4 DEF Stamped
  <2> QED
    BY <2>1, <2>2, <2>3, <2>4 DEF WrittenAs
<1>5. k \in Attachments => Attached(q, k)
  BY RecordsAreDistinct
  DEF WrittenAs, Created, Edited, NowShared, Stamped, Trusted
<1>6. k \in Devices => Trusted(q, k)
  BY RecordsAreDistinct
  DEF WrittenAs, Created, Attached, Edited, NowShared, Stamped
<1> QED
  BY <1>4, <1>5, <1>6 DEF Created, Edited, Stamped

LEMMA WritesKeepStrips ==
  ASSUME TypeOK, SharedCiphersAreStripped, NEW q \in Write,
         \A k \in Records : Kept(k) \/ Erased(k) \/ (k \in q.records /\ WrittenAs(q, k)),
         NEW c \in Ciphers, Shared(c)'
  PROVE  rows'[c].link = Null /\ NoAttachment(c)'
<1>1. /\ Ciphers \subseteq Records /\ Attachments \subseteq Records
      /\ Ciphers \cap Attachments = {} /\ Ciphers \cap Devices = {}
  BY RecordsAre, RecordsAreDistinct
<1>2. Stored(c)' /\ rows'[c].key = OrgKey
  BY DEF Shared
<1>3. ~Erased(c)
  BY <1>2 DEF Erased, Stored, Gone
<1>4. q.key # OrgKey
  BY KeysAreDistinct DEF Write
\* The cipher was shared before, or is by this request.
<1>5. (Kept(c) /\ Shared(c)) \/ NowShared(q, c)
  <2>1. CASE Kept(c)
    BY <1>2, <2>1 DEF Kept, Shared, Stored
  <2>2. CASE WrittenAs(q, c)
    <3>1. ~Created(q, c) /\ ~Edited(q, c)
      BY <1>2, <1>4 DEF Created, Edited, New
    <3>2. ~Stamped(q, c)
      BY <1>2 DEF Stamped, Shared
    <3>3. ~Attached(q, c) /\ ~Trusted(q, c)
      BY <1>1 DEF Attached, Trusted
    <3> QED
      BY <2>2, <3>1, <3>2, <3>3 DEF WrittenAs
  <2> QED
    BY <1>1, <1>3, <2>1, <2>2
<1>6. rows'[c].link = Null
  <2>1. CASE Kept(c) /\ Shared(c)
    BY <2>1 DEF SharedCiphersAreStripped, Kept
  <2>2. CASE NowShared(q, c)
    BY <2>2 DEF NowShared, New
  <2> QED
    BY <1>5, <2>1, <2>2
<1>7. NoAttachment(c)
  BY <1>5 DEF SharedCiphersAreStripped, NowShared
<1>8. ASSUME NEW a \in Attachments, Stored(a)' PROVE rows'[a].link # c
  <2>1. ~Erased(a)
    BY <1>8 DEF Erased, Stored, Gone
  <2>2. CASE Kept(a)
    BY <1>7, <1>8, <2>2 DEF NoAttachment, Kept, Stored
  <2>3. CASE WrittenAs(q, a)
    <3>1. Attached(q, a)
      BY <1>1, <2>3, WrittenRows
    <3>2. rows'[a].link = q.link /\ ~Shared(q.link) /\ q.op = "attach"
      BY <3>1 DEF Attached, New
    <3> QED
      BY <1>5, <3>2 DEF NowShared
  <2> QED
    BY <1>1, <2>1, <2>2, <2>3
<1> QED
  BY <1>6, <1>8 DEF NoAttachment

LEMMA WritesKeep ==
  ASSUME IInv, NEW r \in Requests, CommitWrite(r)
  PROVE  IInv'
<1> DEFINE q == requests[r]
<1>1. /\ TypeOK /\ Fitting /\ DevicesStay /\ Apart /\ UsedKeys /\ SeenRowsStay
      /\ EditsOfKey /\ Matched /\ SharedCiphersAreStripped
  BY DEF IInv
<1>2. /\ requests \in [Requests -> Write \cup Rotation \cup {Idle}]
      /\ clock \in Nat /\ clock \in 0 .. MaxTime
  BY <1>1, BoundIsNatural DEF TypeOK
<1>3. /\ q \in Write /\ Fits(q)
      /\ requests' = [requests EXCEPT ![r] = Idle]
      /\ account' = account /\ used' = used /\ clock' = clock
      /\ rows' = [k \in Records |-> rows'[k]]
      /\ \A k \in Records : Kept(k) \/ Erased(k) \/ (k \in q.records /\ WrittenAs(q, k))
  BY <1>1, WritesOfARequest DEF Writing
<1>4. \A s \in Requests : requests'[s] = IF s = r THEN Idle ELSE requests[s]
  BY <1>2, <1>3
<1>5. \A k \in Records : Erased(k) => rows'[k] = Gone /\ ~Stored(k)'
  BY DEF Erased, Gone, Stored
<1>6. \A k \in Records : rows[k] \in Row \cup {Fresh, Gone}
  BY <1>1, RowsAre
<1>7. \A k \in Records : WrittenAs(q, k) => rows'[k] \in Row /\ rows'[k].rev = q.now
  BY <1>1, <1>3, WrittenRows
<1>8. Timed(r) /\ q.now \in 0 .. MaxTime
  BY <1>3 DEF Timed, Writing, Write
<1>9. TypeOK'
  <2>1. \A k \in Records : rows'[k] \in Row \cup {Fresh, Gone}
    BY <1>3, <1>5, <1>6, <1>7 DEF Kept
  <2>2. rows' \in Table
    BY <1>3, <2>1 DEF Table
  <2>3. requests' \in [Requests -> Write \cup Rotation \cup {Idle}]
    BY <1>2, <1>3
  <2> QED
    BY <1>1, <1>3, <2>2, <2>3 DEF TypeOK
<1>10. Fitting'
  BY <1>1, <1>4, NewKinds DEF Fitting, Writing
<1>11. DevicesStay'
  <2> SUFFICES ASSUME NEW d \in Devices PROVE rows'[d].state \in {"live", "revoked"}
    BY DEF DevicesStay
  <2>1. d \in Records /\ ~Erased(d)
    BY RecordsAre, RecordsAreDistinct DEF Erased
  <2>2. CASE Kept(d)
    BY <1>1, <2>2 DEF Kept, DevicesStay
  <2>3. CASE WrittenAs(q, d)
    <3>1. Trusted(q, d)
      BY <1>1, <1>3, <2>1, <2>3, WrittenRows
    <3> QED
      BY <3>1 DEF Trusted, New
  <2> QED
    BY <1>3, <2>1, <2>2, <2>3
<1>12. UsedKeys'
  BY <1>1, <1>3, <1>4 DEF UsedKeys, Pending
\* No row that the request wrote is what others have read of it.
<1>13. ASSUME NEW s \in Requests, s # r, NEW k \in Records, Stored(k)',
              InHand(s, rows'[k].rev) \/ k \in Attachments
       PROVE  Kept(k) \/ rows[k] = Fresh
  <2>1. ~Erased(k)
    BY <1>5, <1>13
  <2>2. CASE WrittenAs(q, k) /\ InHand(s, rows'[k].rev)
    <3>1. InHand(s, q.now)
      BY <1>7, <2>2
    <3> QED
      BY <1>1, <1>8, <3>1 DEF Apart, Known
  <2>3. CASE WrittenAs(q, k) /\ k \in Attachments
    <3>1. Attached(q, k)
      BY <1>1, <1>3, <2>3, WrittenRows
    <3> QED
      BY <3>1 DEF Attached
  <2> QED
    BY <1>3, <1>13, <2>1, <2>2, <2>3
<1>14. SeenRowsStay'
  <2>1. ASSUME NEW s \in Requests, Rotating(s)', NEW k \in Records,
               requests'[s].seen[k] \in Row
        PROVE  SeenRow(requests[s], k)'
    <3>1. s # r /\ requests'[s] = requests[s] /\ Rotating(s)
      BY <1>4, <2>1, NewKinds DEF Rotating
    <3>2. SeenRow(requests[s], k) /\ requests[s].seen[k] \in Row
      BY <1>1, <2>1, <3>1 DEF SeenRowsStay
    <3>3. rows'[k] # Fresh
      <4>1. Gone # Fresh /\ Fresh \notin Row
        BY StoredRows DEF Gone, Fresh
      <4> QED
        BY <1>3, <1>5, <1>7, <3>2, <4>1 DEF Kept, SeenRow
    <3>4. ASSUME k \in Ciphers, Stored(k)', rows'[k].rev = requests[s].seen[k].rev
          PROVE  rows'[k] = requests[s].seen[k]
      <4>1. InHand(s, rows'[k].rev)
        BY <3>1, <3>2, <3>4 DEF InHand
      <4>2. Kept(k)
        BY <1>13, <3>1, <3>2, <3>4, <4>1 DEF SeenRow
      <4> QED
        BY <3>2, <3>4, <4>2 DEF SeenRow, Kept, Stored
    <3>5. ASSUME k \in Attachments, Stored(k)', requests[s].key = account
          PROVE  rows'[k] = requests[s].seen[k]
      <4>1. Kept(k)
        BY <1>13, <3>1, <3>2, <3>5 DEF SeenRow
      <4> QED
        BY <3>2, <3>5, <4>1 DEF SeenRow, Kept, Stored
    <3> QED
      BY <1>3, <3>1, <3>2, <3>3, <3>4, <3>5 DEF SeenRow
  <2> QED
    BY <2>1 DEF SeenRowsStay
<1>15. EditsOfKey'
  <2> SUFFICES ASSUME NEW s \in Requests, Writing(s)', requests'[s].op \in EditOps,
                      NEW k \in requests'[s].records, Stored(k)',
                      rows'[k].rev = requests'[s].rev, rows'[k].key = account'
               PROVE  requests'[s].key = account'
    BY DEF EditsOfKey
  <2>1. s # r /\ requests'[s] = requests[s] /\ Writing(s)
    BY <1>4, NewKinds DEF Writing
  <2>2. k \in Records
    BY <2>1 DEF Writing, Write
  <2>3. InHand(s, rows'[k].rev)
    BY <2>1 DEF InHand
  <2>4. ~WrittenAs(q, k) /\ ~Erased(k)
    <3>1. ~(WrittenAs(q, k))
      <4> SUFFICES ASSUME WrittenAs(q, k) PROVE FALSE
        OBVIOUS
      <4>1. InHand(s, q.now)
        BY <1>7, <2>2, <2>3
      <4> QED
        BY <1>1, <1>8, <4>1 DEF Apart, Known
    <3> QED
      BY <1>5, <2>2, <3>1
  <2>5. rows'[k] = rows[k]
    BY <1>3, <2>2, <2>4 DEF Kept
  <2> QED
    BY <1>1, <1>3, <2>1, <2>5 DEF EditsOfKey, Stored
<1>16. Matched'
  <2>1. ASSUME NEW s \in Requests, At(s, "rotate", "write")'
        PROVE  RequestMatches(requests[s])'
    <3>1. s # r /\ requests'[s] = requests[s]
      BY <1>4, <2>1, NewKinds DEF At
    <3>2. RequestMatches(requests[s])
      BY <1>1, <2>1, <3>1 DEF Matched, At
    <3> QED
      BY <3>1, <3>2 DEF RequestMatches, Submitted, Personal
  <2> QED
    BY <2>1 DEF Matched
<1>17. SharedCiphersAreStripped'
  BY <1>1, <1>3, WritesKeepStrips DEF SharedCiphersAreStripped
<1>18. Apart'
  <2>1. \A s \in Requests : Timed(s)' => Timed(s) /\ requests'[s].now = requests[s].now
    BY <1>4, NewKinds DEF Timed, Writing, Rotating
  <2>2. ~Timed(r)'
    BY <1>4, NewKinds DEF Timed, Writing, Rotating
  <2>3. ASSUME NEW t \in 0 .. MaxTime, Known(t)' PROVE Known(t) \/ t = q.now
    <3>1. CASE InRows(t)'
      <4>1. CASE t = 0
        BY <4>1 DEF Known, InRows
      <4>2. ASSUME NEW k \in Records, Stored(k)', rows'[k].rev = t
            PROVE  Known(t) \/ t = q.now
        BY <1>3, <1>5, <1>7, <4>2 DEF Known, InRows, Kept, Stored
      <4> QED
        BY <3>1, <4>1, <4>2 DEF InRows
    <3>2. ASSUME NEW s \in Requests, InHand(s, t)' PROVE Known(t)
      BY <1>4, <3>2, NewKinds DEF InHand, Writing, Rotating, Known
    <3> QED
      BY <2>3, <3>1, <3>2 DEF Known
  <2> QED
    BY <1>1, <1>3, <1>8, <1>9, <2>1, <2>2, <2>3, ApartStep
<1> QED
  BY <1>9, <1>10, <1>11, <1>12, <1>14, <1>15, <1>16, <1>17, <1>18 DEF IInv

-----------------------------------------------------------------------------
(* Single statements *)

\* The state of one attachment or device changes, or an attachment goes.
LEMMA StatementsKeep ==
  ASSUME IInv, NEW k0 \in Attachments \cup Devices, Stored(k0), NEW row \in Row \cup {Gone},
         rows' = [rows EXCEPT ![k0] = row],
         UNCHANGED <<account, used, clock, requests>>,
         row \in Row => /\ row.key = rows[k0].key /\ row.rev = rows[k0].rev
                        /\ row.link = rows[k0].link,
         k0 \in Devices => row.state \in {"live", "revoked"},
         k0 \in Attachments => row = Gone \/ rows[k0].state = "pending"
  PROVE  IInv'
<1>1. /\ TypeOK /\ Fitting /\ DevicesStay /\ Apart /\ UsedKeys /\ SeenRowsStay
      /\ EditsOfKey /\ Matched /\ SharedCiphersAreStripped
  BY DEF IInv
<1>2. /\ k0 \in Records /\ k0 \notin Folders \cup Ciphers
      /\ Ciphers \subseteq Records /\ Attachments \subseteq Records
      /\ Devices \subseteq Records /\ Attachments \cap Devices = {}
  BY RecordsAre, RecordsAreDistinct
<1>3. \A k \in Records : rows'[k] = IF k = k0 THEN row ELSE rows[k]
  BY <1>1 DEF TypeOK, Table
<1>4. Gone # Fresh /\ Fresh \notin Row /\ Gone \notin Row
  BY StoredRows DEF Gone, Fresh
<1>5. \A k \in Records : Stored(k)' => /\ Stored(k) /\ rows'[k].key = rows[k].key
                                       /\ rows'[k].rev = rows[k].rev
                                       /\ rows'[k].link = rows[k].link
  <2>1. row = Gone => ~Stored(k0)'
    BY <1>2, <1>3 DEF Stored, Gone
  <2> QED
    BY <1>3, <2>1 DEF Stored
<1>6. TypeOK'
  <2>1. rows' \in Table
    BY <1>1, <1>2 DEF TypeOK, Table
  <2> QED
    BY <1>1, <2>1 DEF TypeOK
<1>7. Fitting' /\ UsedKeys' /\ Matched'
  BY <1>1 DEF Fitting, Writing, UsedKeys, Pending, Matched, At, RequestMatches,
     Submitted, Personal
<1>8. DevicesStay'
  BY <1>1, <1>2, <1>3 DEF DevicesStay
<1>9. SeenRowsStay'
  <2>1. ASSUME NEW s \in Requests, Rotating(s), NEW k \in Records,
               requests[s].seen[k] \in Row
        PROVE  SeenRow(requests[s], k)'
    <3>1. SeenRow(requests[s], k)
      BY <1>1, <2>1 DEF SeenRowsStay
    <3>2. CASE k # k0
      BY <1>3, <3>1, <3>2 DEF SeenRow, Stored
    <3>3. CASE k = k0
      <4>1. rows'[k] # Fresh /\ k \notin Ciphers
        BY <1>2, <1>3, <1>4, <3>3
      <4>2. ASSUME k \in Attachments, Stored(k)', requests[s].key = account
            PROVE  rows'[k] = requests[s].seen[k]
        <5>1. rows[k] = requests[s].seen[k] /\ rows[k].state = "live"
          BY <3>1, <3>3, <4>2 DEF SeenRow
        <5>2. row # Gone
          BY <1>2, <1>3, <3>3, <4>2 DEF Stored, Gone
        <5> QED
          BY <3>3, <4>2, <5>1, <5>2
      <4> QED
        BY <3>1, <4>1, <4>2 DEF SeenRow
    <3> QED
      BY <3>2, <3>3
  <2> QED
    BY <2>1 DEF SeenRowsStay, Rotating
<1>10. EditsOfKey'
  BY <1>1, <1>5 DEF EditsOfKey, Writing, Write
<1>11. SharedCiphersAreStripped'
  BY <1>1, <1>2, <1>5 DEF SharedCiphersAreStripped, Shared, NoAttachment
<1>12. Apart'
  <2>1. ASSUME NEW t, Known(t)' PROVE Known(t)
    BY <1>5, <2>1 DEF Known, InRows, InHand, Writing, Rotating
  <2>2. \A s \in Requests : Timed(s)' => Timed(s)
    BY DEF Timed, Writing, Rotating
  <2> QED
    BY <1>1, <2>1, <2>2 DEF Apart
<1> QED
  BY <1>6, <1>7, <1>8, <1>9, <1>10, <1>11, <1>12 DEF IInv

LEMMA OtherPartsKeep ==
  ASSUME IInv,
         \/ \E a \in Attachments : MarkUploaded(a) \/ DeleteAttachment(a)
         \/ \E d \in Devices : RevokeDevice(d) \/ LoginOnDevice(d)
  PROVE  IInv'
<1>1. /\ TypeOK /\ Attachments \subseteq Records /\ Devices \subseteq Records
      /\ Attachments \cap Devices = {}
  BY RecordsAre, RecordsAreDistinct DEF IInv
<1>2. ASSUME NEW k \in Records, Stored(k),
             NEW state \in {"live", "trashed", "deleted", "pending", "revoked"}
      PROVE  LET row == [rows[k] EXCEPT !.state = state] IN
             /\ row \in Row /\ row.state = state /\ row.key = rows[k].key
             /\ row.rev = rows[k].rev /\ row.link = rows[k].link
  <2>1. rows[k] \in Row
    BY <1>1, <1>2, RowsAre
  <2> QED
    BY <1>2, <2>1 DEF Row
<1>3. ASSUME NEW a \in Attachments, MarkUploaded(a) PROVE IInv'
  <2> DEFINE row == [rows[a] EXCEPT !.state = "live"]
  <2>1. Stored(a) /\ rows[a].state = "pending"
    BY <1>3 DEF MarkUploaded, Stored
  <2>2. /\ row \in Row /\ row.state = "live" /\ row.key = rows[a].key
        /\ row.rev = rows[a].rev /\ row.link = rows[a].link
    BY <1>1, <1>2, <2>1
  <2>3. rows' = [rows EXCEPT ![a] = row] /\ UNCHANGED <<account, used, clock, requests>>
    BY <1>1, <1>3 DEF MarkUploaded, TypeOK, Table
  <2> HIDE DEF row
  <2> QED
    BY <1>1, <2>1, <2>2, <2>3, StatementsKeep
<1>4. ASSUME NEW a \in Attachments, DeleteAttachment(a) PROVE IInv'
  <2>1. Gone \notin Row
    BY StoredRows DEF Gone
  <2> QED
    BY <1>1, <1>4, <2>1, StatementsKeep DEF DeleteAttachment
<1>5. ASSUME NEW d \in Devices, RevokeDevice(d) PROVE IInv'
  <2> DEFINE row == [rows[d] EXCEPT !.state = "revoked"]
  <2>1. Stored(d)
    BY <1>5 DEF RevokeDevice, Live, Stored
  <2>2. /\ row \in Row /\ row.state = "revoked" /\ row.key = rows[d].key
        /\ row.rev = rows[d].rev /\ row.link = rows[d].link
    BY <1>1, <1>2, <2>1
  <2>3. rows' = [rows EXCEPT ![d] = row] /\ UNCHANGED <<account, used, clock, requests>>
    BY <1>1, <1>5 DEF RevokeDevice, TypeOK, Table
  <2> HIDE DEF row
  <2> QED
    BY <1>1, <2>1, <2>2, <2>3, StatementsKeep
<1>6. ASSUME NEW d \in Devices, LoginOnDevice(d) PROVE IInv'
  <2> DEFINE row == [rows[d] EXCEPT !.state = "live"]
  <2>1. Stored(d)
    BY <1>6 DEF LoginOnDevice, Stored
  <2>2. /\ row \in Row /\ row.state = "live" /\ row.key = rows[d].key
        /\ row.rev = rows[d].rev /\ row.link = rows[d].link
    BY <1>1, <1>2, <2>1
  <2>3. rows' = [rows EXCEPT ![d] = row] /\ UNCHANGED <<account, used, clock, requests>>
    BY <1>1, <1>6 DEF LoginOnDevice, TypeOK, Table
  <2> HIDE DEF row
  <2> QED
    BY <1>1, <2>1, <2>2, <2>3, StatementsKeep
<1> QED
  BY <1>3, <1>4, <1>5, <1>6

-----------------------------------------------------------------------------
(* The batch of a rotation *)

\* The batch goes through.
Rotates(r) ==
  LET q == requests[r] IN
  /\ q.key = account /\ Unchanged(q) /\ q.next \notin used
  /\ account' = q.next /\ used' = used \cup {q.key, q.next}
  /\ rows' = [k \in Records |-> Rotated(q, k)]

\* What it replaces is every row under the user key, all of them in use.
LEMMA RotationCoversThePersonal ==
  ASSUME IInv, NEW r \in Requests, At(r, "rotate", "write"), Rotates(r)
  PROVE  /\ requests[r] \in Rotation
         /\ \A k \in Records \ Devices :
              k \in Personal(rows) <=> k \in Submitted(requests[r].seen)
         /\ \A k \in Records \ Devices : k \in Personal(rows) => Live(k)
         /\ \A d \in Devices : d \in Personal(rows) /\ Live(d) => d \in Submitted(requests[r].seen)
         /\ \A k \in Personal(rows) : rows[k] = requests[r].read[k]
<1> DEFINE q == requests[r]
<1>1. q \in Rotation
  BY RequestKinds DEF IInv, At, Rotating
<1>2. /\ Personal(rows) = Personal(q.read)
      /\ \A k \in Personal(rows) : rows[k] = q.read[k]
      /\ \A k \in Personal(rows) \ Devices : Live(k)
  BY DEF Rotates, Unchanged
<1>3. Submitted(q.read) = Submitted(q.seen)
  BY DEF IInv, Matched, RequestMatches
<1>4. \A k \in Personal(rows) : Live(k) <=> k \in Submitted(q.read)
  BY <1>2 DEF Submitted, Live
<1>5. Submitted(q.seen) \subseteq Personal(rows)
  BY <1>2, <1>3 DEF Submitted
<1> QED
  BY <1>1, <1>2, <1>3, <1>4, <1>5 DEF Personal

LEMMA RotatedRows ==
  ASSUME IInv, NEW r \in Requests, At(r, "rotate", "write"), Rotates(r), NEW k \in Records
  PROVE  /\ rows'[k] = Rotated(requests[r], k)
         /\ k \in Devices =>
              /\ Stored(k) /\ rows'[k] \in Row /\ rows'[k].state = "revoked"
              /\ rows'[k].key \in {requests[r].next, OrgKey, NoKey}
              /\ rows'[k].rev \in {rows[k].rev, requests[r].now}
         /\ k \notin Devices /\ k \in Personal(rows) =>
              /\ Stored(k) /\ rows'[k] \in Row /\ rows'[k].key = requests[r].next
              /\ rows'[k].rev = requests[r].now /\ rows'[k].state = "live"
              /\ rows'[k].link = rows[k].link
         /\ k \notin Devices /\ k \notin Personal(rows) => rows'[k] = rows[k]
<1> DEFINE q == requests[r]
<1>1. rows'[k] = Rotated(q, k)
  BY DEF Rotates
<1>2. q.next \in Generations /\ q.now \in 0 .. MaxTime
  BY RotationCoversThePersonal DEF Rotation
<1>3. Stored(k) <=> rows[k] \in Row
  BY RowsAre DEF IInv
<1>4. ASSUME k \in Devices
      PROVE  /\ Stored(k) /\ rows'[k] \in Row /\ rows'[k].state = "revoked"
             /\ rows'[k].key \in {q.next, OrgKey, NoKey}
             /\ rows'[k].rev \in {rows[k].rev, q.now}
  <2>1. rows[k].state \in {"live", "revoked"}
    BY <1>4 DEF IInv, DevicesStay
  <2>2. Stored(k) /\ rows[k] \in Row
    BY <1>3, <2>1 DEF Stored
  <2>3. CASE Live(k) /\ k \in Submitted(q.seen)
    <3>1. rows'[k] = [rows[k] EXCEPT !.state = "revoked", !.key = q.next, !.rev = q.now]
      BY <1>1, <1>4, <2>2, <2>3 DEF Rotated
    <3> QED
      BY <1>2, <2>2, <3>1 DEF Row
  <2>4. CASE Live(k) /\ k \notin Submitted(q.seen)
    <3>1. rows'[k] = [rows[k] EXCEPT !.state = "revoked", !.key = @, !.rev = @]
      BY <1>1, <1>4, <2>2, <2>4 DEF Rotated
    <3>2. k \notin Personal(rows)
      BY <1>4, <2>4, RotationCoversThePersonal
    <3>3. rows[k].key \in {OrgKey, NoKey}
      BY <2>2, <3>2 DEF Personal, Stored
    <3> QED
      BY <2>2, <3>1, <3>3 DEF Row
  <2>5. CASE ~Live(k)
    <3>1. rows'[k] = [rows[k] EXCEPT !.state = "revoked", !.key = NoKey, !.rev = @]
      BY <1>1, <1>4, <2>2, <2>5 DEF Rotated
    <3> QED
      BY <2>2, <3>1 DEF Row
  <2> QED
    BY <2>3, <2>4, <2>5
<1>5. ASSUME k \notin Devices, k \in Personal(rows)
      PROVE  /\ Stored(k) /\ rows'[k] \in Row /\ rows'[k].key = q.next
             /\ rows'[k].rev = q.now /\ rows'[k].state = "live"
             /\ rows'[k].link = rows[k].link
  <2>1. k \in Submitted(q.seen) /\ Live(k)
    BY <1>5, RotationCoversThePersonal
  <2>2. Stored(k) /\ rows[k] \in Row /\ rows[k].state = "live"
    BY <1>3, <2>1 DEF Live, Stored
  <2>3. rows'[k] = [rows[k] EXCEPT !.key = q.next, !.rev = q.now]
    BY <1>1, <1>5, <2>1 DEF Rotated
  <2> QED
    BY <1>2, <2>2, <2>3 DEF Row
<1>6. ASSUME k \notin Devices, k \notin Personal(rows) PROVE rows'[k] = rows[k]
  BY <1>1, <1>6, RotationCoversThePersonal DEF Rotated
<1> QED
  BY <1>1, <1>4, <1>5, <1>6

LEMMA RotationsKeep ==
  ASSUME IInv, NEW r \in Requests, At(r, "rotate", "write"), Rotates(r),
         Finish(r), UNCHANGED clock
  PROVE  IInv'
<1> DEFINE q == requests[r]
<1>1. /\ TypeOK /\ Fitting /\ DevicesStay /\ Apart /\ UsedKeys /\ SeenRowsStay
      /\ EditsOfKey /\ Matched /\ SharedCiphersAreStripped
  BY DEF IInv
<1>2. /\ requests \in [Requests -> Write \cup Rotation \cup {Idle}]
      /\ clock \in Nat /\ clock \in 0 .. MaxTime
  BY <1>1, BoundIsNatural DEF TypeOK
<1>3. /\ q \in Rotation /\ q.next \in Generations /\ q.key \in Generations
      /\ q.now \in 0 .. MaxTime
  BY RotationCoversThePersonal DEF Rotation
<1>4. /\ account' = q.next /\ q.next \notin used /\ used' = used \cup {q.key, q.next}
      /\ q.key = account /\ rows' = [k \in Records |-> Rotated(q, k)]
      /\ requests' = [requests EXCEPT ![r] = Idle]
  BY DEF Rotates, Finish
<1>5. \A s \in Requests : requests'[s] = IF s = r THEN Idle ELSE requests[s]
  BY <1>2, <1>4
<1>6. q.next \notin {OrgKey, NoKey}
  BY <1>3, KeysAreDistinct
<1>7. Timed(r)
  BY <1>3 DEF Timed, Rotating, At
<1>8. /\ Folders \subseteq Records /\ Ciphers \subseteq Records
      /\ Attachments \subseteq Records /\ Devices \subseteq Records
      /\ (Folders \cup Ciphers \cup Attachments) \cap Devices = {}
  BY RecordsAre, RecordsAreDistinct
<1>9. \A k \in Records : rows[k] \in Row \cup {Fresh, Gone}
  BY <1>1, RowsAre
<1>10. Gone # Fresh /\ Fresh \notin Row /\ Gone \notin Row
  BY StoredRows DEF Gone, Fresh
<1>11. \A k \in Records :
         /\ rows'[k] = rows[k]
            \/ (Stored(k) /\ rows'[k] \in Row /\ rows'[k].rev \in {rows[k].rev, q.now})
         /\ k \notin Devices /\ Stored(k)' =>
              \/ rows'[k] = rows[k] /\ rows[k].key \in {OrgKey, NoKey}
              \/ rows'[k].rev = q.now /\ rows'[k].key = q.next /\ k \in Personal(rows)
                   /\ rows'[k].link = rows[k].link /\ Stored(k)
  <2> SUFFICES ASSUME NEW k \in Records
               PROVE  /\ rows'[k] = rows[k]
                         \/ (Stored(k) /\ rows'[k] \in Row /\ rows'[k].rev \in {rows[k].rev, q.now})
                      /\ k \notin Devices /\ Stored(k)' =>
                           \/ rows'[k] = rows[k] /\ rows[k].key \in {OrgKey, NoKey}
                           \/ rows'[k].rev = q.now /\ rows'[k].key = q.next
                                /\ k \in Personal(rows)
                                /\ rows'[k].link = rows[k].link /\ Stored(k)
    OBVIOUS
  <2>1. CASE k \in Devices
    BY <2>1, RotatedRows
  <2>2. CASE k \notin Devices /\ k \in Personal(rows)
    BY <2>2, RotatedRows
  <2>3. CASE k \notin Devices /\ k \notin Personal(rows)
    <3>1. rows'[k] = rows[k]
      BY <2>3, RotatedRows
    <3>2. Stored(k)' => rows[k].key \in {OrgKey, NoKey}
      BY <2>3, <3>1 DEF Stored, Personal
    <3> QED
      BY <3>1, <3>2
  <2> QED
    BY <2>1, <2>2, <2>3
<1>12. TypeOK'
  <2>1. \A k \in Records : rows'[k] \in Row \cup {Fresh, Gone}
    BY <1>9, <1>11
  <2>2. rows' = [k \in Records |-> rows'[k]]
    BY <1>4
  <2>3. rows' \in Table
    BY <2>1, <2>2 DEF Table
  <2>4. requests' \in [Requests -> Write \cup Rotation \cup {Idle}]
    BY <1>2, <1>4
  <2> QED
    BY <1>1, <1>3, <1>4, <2>3, <2>4 DEF TypeOK
<1>13. Fitting'
  BY <1>1, <1>5, NewKinds DEF Fitting, Writing
<1>14. DevicesStay'
  BY <1>8, RotatedRows DEF DevicesStay
<1>15. UsedKeys'
  BY <1>1, <1>4, <1>5 DEF UsedKeys, Pending
<1>16. SeenRowsStay'
  <2>1. ASSUME NEW s \in Requests, Rotating(s)', NEW k \in Records,
               requests'[s].seen[k] \in Row
        PROVE  SeenRow(requests[s], k)'
    <3>1. s # r /\ requests'[s] = requests[s] /\ Rotating(s) /\ Pending(s)
      BY <1>5, <2>1, NewKinds DEF Rotating, Pending
    <3>2. SeenRow(requests[s], k) /\ requests[s].seen[k] \in Row
      BY <1>1, <2>1, <3>1 DEF SeenRowsStay
    <3>3. rows'[k] # Fresh
      BY <1>10, <1>11, <3>2 DEF SeenRow
    <3>4. requests[s].key # account'
      BY <1>1, <1>4, <3>1 DEF UsedKeys
    <3>5. requests[s].seen[k].rev # q.now
      <4>1. Known(requests[s].seen[k].rev)
        BY <3>1, <3>2 DEF Known, InHand
      <4>2. requests[s].seen[k].rev \in 0 .. MaxTime
        BY <3>2 DEF Row
      <4> QED
        BY <1>1, <1>7, <4>1, <4>2 DEF Apart
    <3>6. ASSUME k \in Ciphers, Stored(k)', rows'[k].rev = requests[s].seen[k].rev
          PROVE  rows'[k] = requests[s].seen[k]
      <4>1. rows'[k] = rows[k]
        BY <1>8, <1>11, <3>5, <3>6
      <4> QED
        BY <3>2, <3>6, <4>1 DEF SeenRow, Stored
    <3> QED
      BY <3>1, <3>2, <3>3, <3>4, <3>6 DEF SeenRow
  <2> QED
    BY <2>1 DEF SeenRowsStay
<1>17. EditsOfKey'
  <2> SUFFICES ASSUME NEW s \in Requests, Writing(s)', requests'[s].op \in EditOps,
                      NEW k \in requests'[s].records, Stored(k)',
                      rows'[k].rev = requests'[s].rev, rows'[k].key = account'
               PROVE  FALSE
    BY DEF EditsOfKey
  <2>1. s # r /\ requests'[s] = requests[s] /\ Writing(s)
    BY <1>5, NewKinds DEF Writing
  <2>2. k \in Folders \cup Ciphers
    BY <1>1, <2>1 DEF Fitting, Fits, Writing, EditOps, FolderOps, CipherOps
  <2>3. rows'[k].rev = q.now
    BY <1>4, <1>6, <1>8, <1>11, <2>2
  <2>4. Known(q.now)
    BY <2>1, <2>3 DEF Known, InHand
  <2> QED
    BY <1>1, <1>3, <1>7, <2>4 DEF Apart
<1>18. Matched'
  <2>1. ASSUME NEW s \in Requests, At(s, "rotate", "write")'
        PROVE  RequestMatches(requests[s])'
    <3>1. s # r /\ requests'[s] = requests[s]
      BY <1>5, <2>1, NewKinds DEF At
    <3>2. RequestMatches(requests[s])
      BY <1>1, <2>1, <3>1 DEF Matched, At
    <3> QED
      BY <3>1, <3>2 DEF RequestMatches, Submitted, Personal
  <2> QED
    BY <2>1 DEF Matched
<1>19. SharedCiphersAreStripped'
  <2> SUFFICES ASSUME NEW c \in Ciphers, Shared(c)'
               PROVE  rows'[c].link = Null /\ NoAttachment(c)'
    BY DEF SharedCiphersAreStripped
  <2>1. Stored(c)' /\ rows'[c].key = OrgKey
    BY DEF Shared
  <2>2. rows'[c] = rows[c]
    BY <1>6, <1>8, <1>11, <2>1
  <2>3. Shared(c)
    BY <2>1, <2>2 DEF Shared, Stored
  <2>4. rows[c].link = Null /\ NoAttachment(c)
    BY <1>1, <2>3 DEF SharedCiphersAreStripped
  <2>5. \A a \in Attachments : Stored(a)' => Stored(a) /\ rows'[a].link = rows[a].link
    BY <1>8, <1>11 DEF Stored
  <2> QED
    BY <2>2, <2>4, <2>5 DEF NoAttachment
<1>20. Apart'
  <2>1. \A s \in Requests : Timed(s)' => Timed(s) /\ requests'[s].now = requests[s].now
    BY <1>5, NewKinds DEF Timed, Writing, Rotating
  <2>2. ~Timed(r)'
    BY <1>5, NewKinds DEF Timed, Writing, Rotating
  <2>3. ASSUME NEW t \in 0 .. MaxTime, Known(t)' PROVE Known(t) \/ t = q.now
    <3>1. CASE InRows(t)'
      <4>1. CASE t = 0
        BY <4>1 DEF Known, InRows
      <4>2. ASSUME NEW k \in Records, Stored(k)', rows'[k].rev = t
            PROVE  Known(t) \/ t = q.now
        BY <1>11, <4>2 DEF Known, InRows, Stored
      <4> QED
        BY <3>1, <4>1, <4>2 DEF InRows
    <3>2. ASSUME NEW s \in Requests, InHand(s, t)' PROVE Known(t)
      BY <1>5, <3>2, NewKinds DEF InHand, Writing, Rotating, Known
    <3> QED
      BY <2>3, <3>1, <3>2 DEF Known
  <2> QED
    BY <1>1, <1>2, <1>7, <1>12, <2>1, <2>2, <2>3, ApartStep
<1> QED
  BY <1>12, <1>13, <1>14, <1>15, <1>16, <1>17, <1>18, <1>19, <1>20 DEF IInv

-----------------------------------------------------------------------------
(* Theorems *)

LEMMA InitInv == Init => IInv
<1> SUFFICES ASSUME Init PROVE IInv
  OBVIOUS
<1>1. /\ account = First /\ used = {First} /\ clock = 0
      /\ requests = [r \in Requests |-> Idle]
      /\ rows = [k \in Records |->
           IF k \in Devices
           THEN [state |-> "live", key |-> NoKey, rev |-> 0, link |-> Null] ELSE Fresh]
  BY DEF Init
<1>2. First \in Generations /\ 0 \in 0 .. MaxTime
  BY KeysAreDistinct, BoundIsNatural
<1>3. Devices \subseteq Records /\ Ciphers \subseteq Records /\ Ciphers \cap Devices = {}
  BY RecordsAre, RecordsAreDistinct
<1>4. [state |-> "live", key |-> NoKey, rev |-> 0, link |-> Null] \in Row
  BY <1>2 DEF Row
<1>5. \A k \in Records : k \notin Devices => rows[k] = Fresh
  BY <1>1
<1>6. \A d \in Devices :
        rows[d] = [state |-> "live", key |-> NoKey, rev |-> 0, link |-> Null]
  BY <1>1, <1>3
<1>7. \A k \in Records : Stored(k) => rows[k].rev = 0
  <2>1. Fresh.state = "unused"
    BY DEF Fresh
  <2>2. \A d \in Devices : rows[d].rev = 0
    BY <1>6
  <2> QED
    BY <1>5, <2>1, <2>2 DEF Stored
<1>8. rows \in Table
  BY <1>1, <1>4 DEF Table
<1>9. \A r \in Requests : ~Writing(r) /\ ~Rotating(r) /\ ~Pending(r) /\ ~Timed(r)
  BY <1>1, NewKinds DEF Writing, Rotating, Pending, Timed
<1>10. TypeOK
  BY <1>1, <1>2, <1>8, BoundIsNatural DEF TypeOK
<1>11. Fitting /\ UsedKeys /\ SeenRowsStay /\ EditsOfKey
  BY <1>1, <1>9 DEF Fitting, UsedKeys, SeenRowsStay, EditsOfKey
<1>12. DevicesStay
  <2>1. \A d \in Devices : rows[d].state = "live"
    BY <1>6
  <2> QED
    BY <2>1 DEF DevicesStay
<1>13. Apart
  BY <1>1, <1>7, <1>9 DEF Apart, Known, InRows, InHand
<1>14. Matched
  BY <1>1, NewKinds DEF Matched, At
<1>15. SharedCiphersAreStripped
  <2>1. Fresh.state = "unused"
    BY DEF Fresh
  <2> QED
    BY <1>3, <1>5, <2>1 DEF SharedCiphersAreStripped, Shared, Stored
<1> QED
  BY <1>10, <1>11, <1>12, <1>13, <1>14, <1>15 DEF IInv

LEMMA FailedRotationsEnd ==
  ASSUME TypeOK, NEW r \in Requests, RotateUserKeyGeneration(r)
  PROVE  \/ At(r, "rotate", "write") /\ Rotates(r) /\ Finish(r) /\ UNCHANGED clock
         \/ RequestStep(r, Idle) /\ account' = account
<1>1. clock' = clock /\ clock \in 0 .. MaxTime
  BY DEF RotateUserKeyGeneration, TypeOK
<1> QED
  BY <1>1 DEF RotateUserKeyGeneration, Rotates, RequestStep, Finish, Ends

\* Every step is a step of one request, a write, a batch that rotates, or a single
\* statement of another part.
LEMMA Steps ==
  ASSUME TypeOK, Next
  PROVE  \/ \E r \in Requests : \E new : RequestStep(r, new)
         \/ \E r \in Requests : CommitWrite(r)
         \/ \E r \in Requests : At(r, "rotate", "write") /\ Rotates(r)
                                  /\ Finish(r) /\ UNCHANGED clock
         \/ \E a \in Attachments : MarkUploaded(a) \/ DeleteAttachment(a)
         \/ \E d \in Devices : RevokeDevice(d) \/ LoginOnDevice(d)
  BY RoutesAreSteps, CheckIsAStep, RotationIsAStep, FailedRotationsEnd DEF Next

LEMMA StepInv == IInv /\ [Next]_vars => IInv'
<1>1. IInv /\ UNCHANGED vars => IInv'
  <2> SUFFICES ASSUME IInv, UNCHANGED vars PROVE IInv'
    OBVIOUS
  <2>1. /\ account' = account /\ used' = used /\ rows' = rows /\ clock' = clock
        /\ requests' = requests
    BY DEF vars
  <2> QED
    BY <2>1 DEF IInv, TypeOK, Fitting, Writing, Rotating, Timed, Pending, DevicesStay,
       Apart, Known, InRows, InHand, Stored, UsedKeys, SeenRowsStay, SeenRow,
       EditsOfKey, Matched, At, RequestMatches, Submitted, Personal,
       SharedCiphersAreStripped, Shared, NoAttachment
<1>2. IInv /\ Next => IInv'
  BY Steps, RequestStepsKeep, WritesKeep, RotationsKeep, OtherPartsKeep DEF IInv
<1> QED
  BY <1>1, <1>2

\* The invariant that the argument needs: the time of a request is its own, and
\* what a rotation's client saw is what is stored or is told from it by its date.
THEOREM VaultInvariant == Spec => []IInv
  BY InitInv, StepInv, PTL DEF Spec

\* Rows and requests have their types.
THEOREM TypeCorrect == Spec => []TypeOK
<1>1. IInv => TypeOK
  BY DEF IInv
<1> QED
  BY <1>1, VaultInvariant, PTL

\* A shared cipher keeps no folder and no attachment of the user, whatever was
\* under way when it was shared.
THEOREM SharedAreStripped == Spec => []SharedCiphersAreStripped
<1>1. IInv => SharedCiphersAreStripped
  BY DEF IInv
<1> QED
  BY <1>1, VaultInvariant, PTL

\* Only the batch of a rotation changes the user key.
LEMMA OnlyRotationsRotate ==
  ASSUME IInv, Next, account' # account
  PROVE  \E r \in Requests :
           At(r, "rotate", "write") /\ Rotates(r) /\ Finish(r) /\ UNCHANGED clock
  BY Steps DEF IInv, RequestStep, CommitWrite, MarkUploaded, DeleteAttachment,
     RevokeDevice, LoginOnDevice

LEMMA OneGenerationIsLeft ==
  ASSUME IInv, NEW r \in Requests, At(r, "rotate", "write"), Rotates(r)
  PROVE  /\ \A k \in Personal(rows)' :
              /\ rows'[k].key = account'
              /\ k \notin Devices => rows'[k].state = "live"
              /\ k \in Ciphers => rows'[k].link = Null \/ rows'[rows'[k].link].state = "live"
         /\ \A d \in Devices : rows'[d].state = "revoked"
<1> DEFINE q == requests[r]
<1>1. /\ Folders \subseteq Records /\ Ciphers \subseteq Records /\ Devices \subseteq Records
      /\ (Folders \cup Ciphers) \cap Devices = {}
  BY RecordsAre, RecordsAreDistinct
<1>2. account' = q.next
  BY DEF Rotates
<1>3. \A d \in Devices : rows'[d].state = "revoked"
  BY <1>1, RotatedRows
<1>4. ASSUME NEW k \in Records, k \in Personal(rows)', k \notin Devices
      PROVE  k \in Personal(rows)
  <2>1. k \notin Personal(rows) => rows'[k] = rows[k]
    BY <1>4, RotatedRows
  <2> QED
    BY <1>4, <2>1 DEF Personal
<1>5. ASSUME NEW k \in Personal(rows)' PROVE rows'[k].key = account'
  <2>1. k \in Records /\ rows'[k].key \notin {OrgKey, NoKey}
    BY <1>5 DEF Personal
  <2>2. CASE k \in Devices
    BY <1>2, <2>1, <2>2, RotatedRows
  <2>3. CASE k \notin Devices
    <3>1. k \in Personal(rows)
      BY <1>4, <1>5, <2>1, <2>3
    <3> QED
      BY <1>2, <2>1, <2>3, <3>1, RotatedRows
  <2> QED
    BY <2>2, <2>3
<1>6. ASSUME NEW k \in Personal(rows)', k \notin Devices PROVE rows'[k].state = "live"
  <2>1. k \in Records
    BY <1>6 DEF Personal
  <2>2. k \in Personal(rows)
    BY <1>4, <1>6, <2>1
  <2> QED
    BY <1>6, <2>1, <2>2, RotatedRows
<1>7. ASSUME NEW k \in Personal(rows)', k \in Ciphers, rows'[k].link # Null
      PROVE  rows'[rows'[k].link].state = "live"
  <2>1. k \in Records /\ k \notin Devices
    BY <1>1, <1>7
  <2>2. k \in Personal(rows)
    BY <1>4, <1>7, <2>1
  <2>3. /\ rows'[k].link = rows[k].link /\ Stored(k)
        /\ rows[k] = q.read[k] /\ k \in Submitted(q.seen)
    BY <2>1, <2>2, RotatedRows, RotationCoversThePersonal
  <2>4. RequestMatches(q)
    BY DEF IInv, Matched
  <2>5. rows[k].link \in Submitted(q.seen)
    BY <1>7, <2>3, <2>4 DEF RequestMatches
  <2>6. rows[k].link \in Folders \cup Ciphers
    <3>1. rows[k] \in Row
      BY <2>1, <2>3, RowsAre DEF IInv
    <3> QED
      BY <1>7, <2>3, <3>1 DEF Row
  <2>7. /\ rows[k].link \in Records \ Devices
        /\ rows[k].link \in Personal(rows)
    BY <1>1, <2>5, <2>6, RotationCoversThePersonal
  <2>8. rows'[rows[k].link].state = "live"
    BY <2>7, RotatedRows
  <2> QED
    BY <2>3, <2>8
<1> QED
  BY <1>3, <1>5, <1>6, <1>7

\* When the user key changes, everything that is under a user key is under the new
\* one and in use, ciphers are in folders in use, and every device is signed out.
THEOREM OneGenerationLeft == Spec => RotationLeavesOneGeneration
<1>1. IInv /\ [Next]_vars =>
        [account' # account =>
           /\ \A k \in Personal(rows)' :
                /\ rows'[k].key = account'
                /\ k \notin Devices => rows'[k].state = "live"
                /\ k \in Ciphers => rows'[k].link = Null \/ rows'[rows'[k].link].state = "live"
           /\ \A d \in Devices : rows'[d].state = "revoked"]_vars
  BY OnlyRotationsRotate, OneGenerationIsLeft
<1> QED
  BY <1>1, VaultInvariant, PTL DEF Spec, RotationLeavesOneGeneration

LEMMA NewerCiphertextsStay ==
  ASSUME IInv, Next, NEW k \in Folders \cup Ciphers \cup Attachments,
         Stored(k), rows[k].key = account
  PROVE  rows'[k].state = "gone" \/ rows'[k].key \in {account', OrgKey}
<1>1. /\ k \in Records /\ k \notin Devices /\ rows[k] \in Row
      /\ TypeOK /\ EditsOfKey /\ Fitting
  BY RecordsAre, RecordsAreDistinct, RowsAre DEF IInv
<1>2. CASE rows' = rows /\ account' = account
  BY <1>2
<1>3. ASSUME NEW r \in Requests, CommitWrite(r)
      PROVE  rows'[k].state = "gone" \/ rows'[k].key \in {account', OrgKey}
  <2> DEFINE q == requests[r]
  <2>1. /\ Writing(r) /\ q \in Write /\ account' = account
        /\ Kept(k) \/ Erased(k) \/ (k \in q.records /\ WrittenAs(q, k))
    BY <1>1, <1>3, WritesOfARequest DEF Writing
  <2>2. CASE Kept(k)
    BY <2>1, <2>2 DEF Kept
  <2>3. CASE Erased(k)
    BY <2>3 DEF Erased, Gone
  <2>4. CASE k \in q.records /\ WrittenAs(q, k)
    <3>1. rows[k] # Fresh
      BY <1>1, StoredRows
    <3>2. ~Created(q, k) /\ ~Attached(q, k) /\ ~Trusted(q, k)
      BY <1>1, <3>1 DEF Created, Attached, Trusted
    <3>3. CASE Edited(q, k)
      <4>1. q.op \in EditOps /\ rows[k].rev = q.rev
        BY <3>3 DEF Edited, EditOps, IsCurrent
      <4>2. q.key = account
        BY <1>1, <2>1, <2>4, <4>1 DEF EditsOfKey
      <4>3. rows'[k].key = q.key
        BY <3>3 DEF Edited, New
      <4> QED
        BY <2>1, <4>2, <4>3
    <3>4. CASE NowShared(q, k)
      <4>1. rows'[k] = [New(q) EXCEPT !.key = OrgKey]
        BY <3>4 DEF NowShared
      <4> QED
        BY <4>1 DEF New
    <3>5. CASE Stamped(q, k)
      BY <2>1, <3>5 DEF Stamped
    <3> QED
      BY <2>4, <3>2, <3>3, <3>4, <3>5 DEF WrittenAs
  <2> QED
    BY <2>1, <2>2, <2>3, <2>4
<1>4. ASSUME NEW r \in Requests, At(r, "rotate", "write"), Rotates(r)
      PROVE  rows'[k].state = "gone" \/ rows'[k].key \in {account', OrgKey}
  <2>1. k \in Personal(rows)
    BY <1>1, KeysAreDistinct DEF Personal, Stored, TypeOK
  <2>2. rows'[k].key = requests[r].next
    BY <1>1, <1>4, <2>1, RotatedRows
  <2> QED
    BY <1>4, <2>2 DEF Rotates
<1>5. ASSUME NEW k0 \in Attachments \cup Devices,
             \/ MarkUploaded(k0) \/ DeleteAttachment(k0)
             \/ RevokeDevice(k0) \/ LoginOnDevice(k0)
      PROVE  rows'[k].state = "gone" \/ rows'[k].key \in {account', OrgKey}
  <2>1. rows \in [Records -> Row \cup {Fresh, Gone}] /\ account' = account
    BY <1>1, <1>5
    DEF TypeOK, Table, MarkUploaded, DeleteAttachment, RevokeDevice, LoginOnDevice
  <2>2. CASE k # k0
    <3>1. rows'[k] = rows[k]
      BY <1>1, <1>5, <2>1, <2>2
      DEF MarkUploaded, DeleteAttachment, RevokeDevice, LoginOnDevice
    <3> QED
      BY <2>1, <3>1
  <2>3. CASE k = k0 /\ DeleteAttachment(k0)
    <3>1. rows'[k] = Gone
      BY <1>1, <2>1, <2>3 DEF DeleteAttachment
    <3> QED
      BY <3>1 DEF Gone
  <2>4. ASSUME k = k0, NEW state, rows' = [rows EXCEPT ![k0].state = state]
        PROVE  rows'[k].key = account
    <3>1. rows'[k] = [rows[k] EXCEPT !.state = state]
      BY <1>1, <2>1, <2>4
    <3> QED
      BY <1>1, <3>1 DEF Row
  <2> QED
    BY <1>5, <2>1, <2>2, <2>3, <2>4 DEF MarkUploaded, RevokeDevice, LoginOnDevice
<1>6. \A r \in Requests : \A new : RequestStep(r, new) => rows' = rows /\ account' = account
  BY DEF RequestStep
<1> QED
  BY <1>1, <1>2, <1>3, <1>4, <1>5, <1>6, Steps

\* A ciphertext under an earlier user key never replaces one under the current key.
THEOREM NoOlderCiphertext == Spec => RotatedRecordsStayRotated
<1>1. IInv /\ [Next]_vars =>
        [\A k \in Folders \cup Ciphers \cup Attachments :
           Stored(k) /\ rows[k].key = account
             => rows'[k].state = "gone" \/ rows'[k].key \in {account', OrgKey}]_vars
  BY NewerCiphertextsStay
<1> QED
  BY <1>1, VaultInvariant, PTL DEF Spec, RotatedRecordsStayRotated

LEMMA NothingUnseenIsOverwritten ==
  ASSUME IInv, Next, account' # account, NEW r \in Requests,
         requests[r] # Idle, requests'[r] = Idle,
         NEW k \in Personal(rows) \cap (Ciphers \cup Attachments)
  PROVE  rows[k] = requests[r].seen[k]
<1>1. PICK s \in Requests : At(s, "rotate", "write") /\ Rotates(s) /\ Finish(s)
  BY OnlyRotationsRotate
<1>2. s = r
  <2>1. requests' = [requests EXCEPT ![s] = Idle]
    BY <1>1 DEF Finish
  <2> QED
    BY <2>1 DEF IInv, TypeOK
<1> DEFINE q == requests[r]
<1>3. /\ k \in Records /\ k \notin Devices /\ q \in Rotation
      /\ Stored(k) /\ Live(k) /\ rows[k] = q.read[k] /\ k \in Submitted(q.seen)
  BY <1>1, <1>2, RecordsAreDistinct, RotationCoversThePersonal DEF Personal, Stored
<1>4. q.seen[k] \in Row
  <2>1. q.seen[k] \in Row \cup {Fresh, Gone}
    BY <1>3 DEF Rotation, Table
  <2> QED
    BY <1>3, <2>1, StoredRows DEF Submitted, Personal
<1>5. SeenRow(q, k)
  BY <1>3, <1>4, NewKinds DEF IInv, SeenRowsStay, Rotating
<1>6. RequestMatches(q) /\ q.key = account
  BY <1>1, <1>2 DEF IInv, Matched, Rotates
<1>7. CASE k \in Ciphers
  <2>1. k \in Submitted(q.read)
    BY <1>3, <1>6 DEF RequestMatches
  <2>2. q.read[k].rev = q.seen[k].rev
    BY <1>6, <1>7, <2>1 DEF RequestMatches
  <2> QED
    BY <1>3, <1>5, <1>7, <2>2 DEF SeenRow
<1>8. CASE k \in Attachments
  BY <1>3, <1>5, <1>6, <1>8 DEF SeenRow
<1> QED
  BY <1>7, <1>8

\* A rotation replaces ciphers and attachments only as its client has seen them.
THEOREM OnlySeenIsOverwritten == Spec => RotationOverwritesWhatItsClientSaw
<1>1. IInv /\ [Next]_vars =>
        [\A r \in Requests :
           account' # account /\ requests[r] # Idle /\ requests'[r] = Idle
             => \A k \in Personal(rows) \cap (Ciphers \cup Attachments) :
                  rows[k] = requests[r].seen[k]]_vars
  BY NothingUnseenIsOverwritten
<1> QED
  BY <1>1, VaultInvariant, PTL DEF Spec, RotationOverwritesWhatItsClientSaw

=============================================================================
