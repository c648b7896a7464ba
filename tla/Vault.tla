-------------------------------- MODULE Vault --------------------------------
(***************************************************************************)
(* The encrypted records of one account in D1: folders, ciphers, uploaded  *)
(* attachments and trusted-device keys, the requests that change them, and *)
(* the rotation of the user key that they are all encrypted under.  The    *)
(* server never sees a plaintext, so a record is known by the key it is    *)
(* under and by the time of the write that made it.                        *)
(*                                                                         *)
(* A request authenticates, takes the time, and writes in a later step,    *)
(* when others may have written.  Each request takes a time of its own:    *)
(* two requests of one millisecond, whose revision dates would be equal,   *)
(* are not modelled.                                                       *)
(***************************************************************************)
EXTENDS Naturals, FiniteSets

CONSTANTS Requests,     \* concurrent requests
          Folders, Ciphers, Attachments, Devices,   \* ids of records
          Generations,  \* user keys, each with the wrappers made for it
          First,        \* the user key at registration
          OrgKey,       \* stands for the keys of organizations
          NoKey,        \* a device without trusted-device keys
          Null,
          MaxTime       \* bound: requests that take the time

ASSUME KeysAreDistinct ==
  /\ First \in Generations
  /\ {OrgKey, NoKey} \cap Generations = {}
  /\ OrgKey # NoKey
ASSUME RecordsAreDistinct ==
  /\ (Folders \cup Ciphers) \cap (Attachments \cup Devices) = {}
  /\ Folders \cap Ciphers = {} /\ Attachments \cap Devices = {}
  /\ Null \notin Folders \cup Ciphers \cup Attachments \cup Devices
ASSUME BoundIsNatural == MaxTime \in Nat

Tables  == {Folders, Ciphers, Attachments, Devices}
Records == UNION Tables

VARIABLES account,   \* the user key of the account, with its security stamp
          used,      \* user keys whose wrappers are in the history
          rows,      \* the row of each record
          clock,     \* time taken by the latest request
          requests   \* what each request is doing

vars == <<account, used, rows, clock, requests>>

-----------------------------------------------------------------------------
(* A folder or cipher in use is live; a cipher in the trash and a folder that *)
(* was deleted keep their rows.  An attachment is pending until its upload is *)
(* marked.  link: the folder of a cipher, the cipher of an attachment.        *)

Row == [state : {"live", "trashed", "deleted", "pending", "revoked"},
        key : Generations \cup {OrgKey, NoKey},
        rev : 0 .. MaxTime,
        link : Folders \cup Ciphers \cup {Null}]
Fresh == [state |-> "unused"]   \* an id not drawn yet
Gone  == [state |-> "gone"]

Live(k)   == rows[k].state = "live"
Stored(k) == rows[k].state \notin {"unused", "gone"}
Shared(k) == Stored(k) /\ rows[k].key = OrgKey

\* The rows of a version of the tables that are under the user key.
\* (A shared cipher has no attachments, see SharedCiphersAreStripped.)
Personal(table) ==
  {k \in Records : table[k].state \notin {"unused", "gone"}
                    /\ table[k].key \notin {OrgKey, NoKey}}

\* A request that writes one record or a set of them.
Write == [op : {"create_folder", "rename_folder", "delete_folder",
                "create_cipher", "update_cipher", "move", "trash", "restore",
                "purge", "share", "attach", "trust"},
          at : {"check", "write"}, key : Generations, now : 0 .. MaxTime,
          records : SUBSET Records, rev : 0 .. MaxTime,
          link : Folders \cup Ciphers \cup {Null}]
\* A rotation: what its client saw, and what the server has read so far.
Table == [Records -> Row \cup {Fresh, Gone}]
Rotation == [op : {"rotate"},
             at : {"summary", "read", "write"},
             key : Generations, next : Generations, now : 0 .. MaxTime,
             seen : Table, read : Table, left : SUBSET Tables]
Idle == [op |-> "idle"]

Finish(r) == requests' = [requests EXCEPT ![r] = Idle]
Goto(r, step) == requests' = [requests EXCEPT ![r].at = step]
At(r, op, step) == requests[r].op = op /\ requests[r].at = step
Put(changed) ==
  rows' = [k \in Records |-> IF k \in DOMAIN changed THEN changed[k] ELSE rows[k]]

-----------------------------------------------------------------------------
(* Requests.  A client of a live session holds the current user key; a folder *)
(* named in the request is looked up before the write.                        *)

Begin(r, op, step, S, rev, link) ==
  /\ requests[r] = Idle
  /\ clock < MaxTime
  /\ clock' = clock + 1
  /\ requests' = [requests EXCEPT ![r] =
       [op |-> op, at |-> step, key |-> account, now |-> clock + 1,
        records |-> S, rev |-> rev, link |-> link]]
  /\ UNCHANGED <<account, used, rows>>

FolderStep(link) == IF link = Null THEN "write" ELSE "check"

PostFolder(r) == \E f \in Folders :
  rows[f] = Fresh /\ Begin(r, "create_folder", "write", {f}, 0, Null)
PutFolder(r) == \E f \in Folders :
  Live(f) /\ Begin(r, "rename_folder", "write", {f}, rows[f].rev, Null)
DeleteFolder(r) == \E f \in Folders :
  Live(f) /\ Begin(r, "delete_folder", "write", {f}, 0, Null)

PostCipher(r) == \E c \in Ciphers, link \in Folders \cup {Null} :
  rows[c] = Fresh /\ Begin(r, "create_cipher", FolderStep(link), {c}, 0, link)
PutCipher(r) == \E c \in Ciphers, link \in Folders \cup {Null} :
  /\ Stored(c) /\ ~Shared(c)
  /\ Begin(r, "update_cipher", FolderStep(link), {c}, rows[c].rev, link)
PutCiphersMove(r) ==
  \E S \in SUBSET Ciphers \ {{}}, link \in Folders \cup {Null} :
    (\A c \in S : Stored(c)) /\ Begin(r, "move", FolderStep(link), S, 0, link)
PutCiphersDelete(r) == \E S \in SUBSET Ciphers \ {{}} :
  (\A c \in S : Stored(c)) /\ Begin(r, "trash", "write", S, 0, Null)
PutCiphersRestore(r) == \E S \in SUBSET Ciphers \ {{}} :
  (\A c \in S : Stored(c)) /\ Begin(r, "restore", "write", S, 0, Null)
DeleteCiphers(r) == \E S \in SUBSET Ciphers \ {{}} :
  (\A c \in S : Stored(c)) /\ Begin(r, "purge", "write", S, 0, Null)
PutCipherShare(r) == \E c \in Ciphers :
  Stored(c) /\ ~Shared(c) /\ Begin(r, "share", "write", {c}, rows[c].rev, Null)

PostAttachment(r) == \E a \in Attachments, c \in Ciphers :
  rows[a] = Fresh /\ Stored(c) /\ Begin(r, "attach", "write", {a}, 0, c)
PostUpdateTrust(r) == \E d \in Devices :
  Live(d) /\ Begin(r, "trust", "write", {d}, 0, Null)

FolderBelongsToUser(r) ==
  /\ requests[r] # Idle /\ requests[r].at = "check"
  /\ IF Live(requests[r].link) THEN Goto(r, "write") ELSE Finish(r)
  /\ UNCHANGED <<account, used, rows, clock>>

-----------------------------------------------------------------------------
(* The write of a request: which of its records the statement's WHERE clause *)
(* selects, and the row each of them gets                                    *)

OwnCipher(c) == Stored(c) /\ ~Shared(c)

\* Slips: clauses a statement could lack.
MatchesUnshared(q, k) == Stored(k)
MatchesAnyRevision(q, k) == Live(k) /\ ~Shared(k)

\* An edit builds on the revision its client read.
IsCurrent(q, k) == Live(k) /\ ~Shared(k) /\ rows[k].rev = q.rev
IsOwn(q, k) == OwnCipher(k)

NoAttachment(c) == \A a \in Attachments : Stored(a) => rows[a].link # c

SelectsFolder(q, f) ==
  CASE q.op = "create_folder" -> rows[f] = Fresh
    [] q.op = "rename_folder" -> IsCurrent(q, f)
    [] q.op = "delete_folder" -> Live(f)

\* The share leaves a cipher with attachments alone.
SelectsCipher(q, c) ==
  CASE q.op = "create_cipher" -> rows[c] = Fresh
    [] q.op = "update_cipher" -> IsCurrent(q, c)
    [] q.op = "share"         -> IsCurrent(q, c) /\ NoAttachment(c)
    [] q.op \in {"move", "trash"} -> Live(c) /\ IsOwn(q, c)
    [] q.op = "restore"       -> rows[c].state = "trashed" /\ IsOwn(q, c)
    [] q.op = "purge"         -> IsOwn(q, c)

Selects(q, k) ==
  CASE k \in Folders     -> SelectsFolder(q, k)
    [] k \in Ciphers     -> SelectsCipher(q, k)
    [] k \in Attachments -> rows[k] = Fresh /\ Live(q.link) /\ ~Shared(q.link)
    [] k \in Devices     -> Live(k)

\* A personal cipher is encrypted under the user key of the request.
Written(q, k) ==
  LET new == [state |-> "live", key |-> q.key, rev |-> q.now, link |-> q.link] IN
  CASE q.op \in {"create_folder", "rename_folder", "create_cipher",
                 "update_cipher", "trust"} -> new
    [] q.op = "share"  -> [new EXCEPT !.key = OrgKey]
    [] q.op = "attach" -> [new EXCEPT !.state = "pending"]
    [] q.op = "delete_folder" -> [rows[k] EXCEPT !.state = "deleted", !.rev = q.now]
    [] q.op = "move"    -> [rows[k] EXCEPT !.link = q.link, !.rev = q.now]
    [] q.op = "trash"   -> [rows[k] EXCEPT !.state = "trashed", !.rev = q.now]
    [] q.op = "restore" -> [rows[k] EXCEPT !.state = "live", !.rev = q.now]
    [] q.op = "purge"   -> Gone

\* The rows of attachments go with the row of their cipher.
Cascade(S) == {a \in Attachments : Stored(a) /\ rows[a].link \in S}

CommitWrite(r) ==
  LET q == requests[r]
      S == {k \in q.records : Selects(q, k)} IN
  /\ q # Idle /\ q.op # "rotate" /\ q.at = "write"
  /\ Put([k \in S \cup (IF q.op = "purge" THEN Cascade(S) ELSE {}) |->
            IF k \in S THEN Written(q, k) ELSE Gone])
  /\ Finish(r)
  /\ UNCHANGED <<account, used, clock>>

-----------------------------------------------------------------------------
(* Single statements of other parts: the end of an upload, the removal of an *)
(* attachment, the end of a device's sessions and its next login             *)

MarkUploaded(a) ==
  /\ rows[a].state = "pending"
  /\ rows' = [rows EXCEPT ![a].state = "live"]
  /\ UNCHANGED <<account, used, clock, requests>>

DeleteAttachment(a) ==
  /\ Stored(a)
  /\ rows' = [rows EXCEPT ![a] = Gone]
  /\ UNCHANGED <<account, used, clock, requests>>

RevokeDevice(d) ==
  /\ Live(d)
  /\ rows' = [rows EXCEPT ![d].state = "revoked"]
  /\ UNCHANGED <<account, used, clock, requests>>

LoginOnDevice(d) ==
  /\ rows[d].state = "revoked"
  /\ rows' = [rows EXCEPT ![d].state = "live"]
  /\ UNCHANGED <<account, used, clock, requests>>

-----------------------------------------------------------------------------
(* Rotation of the user key.  The client syncs, decrypts every record and    *)
(* encrypts it again; the server reads the vault table by table, compares it *)
(* with the request, and replaces everything in one batch that compares the  *)
(* tables again with what it read.                                           *)

Submitted(table) == {k \in Personal(table) : table[k].state = "live"}

\* The rows in use that a query lists: no attachments of a cipher in the trash.
Listed ==
  {k \in Submitted(rows) : k \in Attachments => rows[rows[k].link].state = "live"}
Only(S) == [k \in Records |-> IF k \in S THEN rows[k] ELSE Fresh]

ClientSubmitsRotation(r, next) ==
  /\ requests[r] = Idle
  /\ \A k \in Submitted(rows) : rows[k].key = account
  /\ requests' = [requests EXCEPT ![r] =
       [op |-> "rotate", at |-> "summary", key |-> account, next |-> next,
        now |-> 0, seen |-> Only(Listed), read |-> Only({}),
        left |-> Tables]]
  /\ UNCHANGED <<account, used, rows, clock>>

\* A vault with deleted folders, a trash or uploads under way is not rotated.
Supported ==
  \A k \in Personal(rows) \ Devices : Live(k)

SameCounts(r) ==
  \A kind \in {Folders, Ciphers, Attachments, Devices} :
    Cardinality(Submitted(rows) \cap kind)
      = Cardinality(Submitted(requests[r].seen) \cap kind)

RotationSummary(r) ==
  /\ At(r, "rotate", "summary")
  /\ clock < MaxTime
  /\ clock' = clock + 1
  /\ IF /\ requests[r].key = account
        /\ requests[r].next \notin used
        /\ Supported
        /\ SameCounts(r)
     THEN requests' = [requests EXCEPT ![r].at = "read", ![r].now = clock + 1]
     ELSE Finish(r)
  /\ UNCHANGED <<account, used, rows>>

\* Slip: the revisions the client saw are not compared.
RequestNamesEverything(q) == Submitted(q.read) = Submitted(q.seen)

\* The request names every record read, on the folder it is in, and for
\* ciphers the revision its client saw; the other tables have no revision in
\* the request.
RequestMatches(q) ==
  /\ Submitted(q.read) = Submitted(q.seen)
  /\ \A c \in Submitted(q.read) \cap Ciphers :
       /\ q.read[c].rev = q.seen[c].rev
       /\ q.read[c].link = q.seen[c].link
       /\ q.read[c].link \in Submitted(q.seen) \cup {Null}
  /\ \A a \in Submitted(q.read) \cap Attachments : q.read[a].link = q.seen[a].link

\* The four tables are read at once: in any order.  Devices that were signed
\* out are read with the keys they still have.
WithTable(q, table) ==
  [q EXCEPT !.read = [k \in Records |->
              IF k \in table
              THEN Only(Listed \cup (Personal(rows) \cap Devices))[k] ELSE @[k]],
            !.left = @ \ {table}]

RotationRead(r, table) ==
  LET q == WithTable(requests[r], table) IN
  /\ At(r, "rotate", "read")
  /\ table \in requests[r].left
  /\ requests' = [requests EXCEPT ![r] =
       IF q.left # {} THEN q
       ELSE IF RequestMatches(q) THEN [q EXCEPT !.at = "write"] ELSE Idle]
  /\ UNCHANGED <<account, used, rows, clock>>

\* Slip: the batch compares the rows it read and not that there are no others.
ReadRowsUnchanged(q) == \A k \in Personal(q.read) : rows[k] = q.read[k]

\* Every row in the tables was read and is as it was read.
Unchanged(q) ==
  /\ Personal(rows) = Personal(q.read)
  /\ \A k \in Personal(rows) : rows[k] = q.read[k]
  /\ \A k \in Personal(rows) \ Devices : Live(k)

\* Every device is signed out; the keys of devices that already were are
\* cleared.
Rotated(q, k) ==
  IF k \in Devices
  THEN IF Stored(k)
       THEN [rows[k] EXCEPT
               !.state = "revoked",
               !.key = IF k \in Submitted(q.seen) /\ Live(k) THEN q.next
                       ELSE IF Live(k) THEN @ ELSE NoKey,
               !.rev = IF k \in Submitted(q.seen) /\ Live(k) THEN q.now ELSE @]
       ELSE rows[k]
  ELSE IF k \in Submitted(q.seen)
       THEN [rows[k] EXCEPT !.key = q.next, !.rev = q.now]
       ELSE rows[k]

RotateUserKeyGeneration(r) ==
  LET q == requests[r] IN
  /\ At(r, "rotate", "write")
  /\ IF q.key = account /\ Unchanged(q) /\ q.next \notin used
     THEN /\ account' = q.next
          /\ used' = used \cup {q.key, q.next}
          /\ rows' = [k \in Records |-> Rotated(q, k)]
     ELSE UNCHANGED <<account, used, rows>>
  /\ Finish(r)
  /\ UNCHANGED clock

-----------------------------------------------------------------------------
Init ==
  /\ account = First
  /\ used = {First}
  /\ rows = [k \in Records |->
       IF k \in Devices
       THEN [state |-> "live", key |-> NoKey, rev |-> 0, link |-> Null]
       ELSE Fresh]
  /\ clock = 0
  /\ requests = [r \in Requests |-> Idle]

Next ==
  \/ \E r \in Requests :
       \/ PostFolder(r) \/ PutFolder(r) \/ DeleteFolder(r)
       \/ PostCipher(r) \/ PutCipher(r) \/ PutCiphersMove(r)
       \/ PutCiphersDelete(r) \/ PutCiphersRestore(r) \/ DeleteCiphers(r)
       \/ PutCipherShare(r)
       \/ PostAttachment(r) \/ PostUpdateTrust(r)
       \/ FolderBelongsToUser(r) \/ CommitWrite(r)
       \/ \E next \in Generations : ClientSubmitsRotation(r, next)
       \/ RotationSummary(r)
       \/ \E table \in Tables : RotationRead(r, table)
       \/ RotateUserKeyGeneration(r)
  \/ \E a \in Attachments : MarkUploaded(a) \/ DeleteAttachment(a)
  \/ \E d \in Devices : RevokeDevice(d) \/ LoginOnDevice(d)

Spec == Init /\ [][Next]_vars

-----------------------------------------------------------------------------
(* Every variable holds a value of its type: rows are unused, gone or whole,  *)
(* and a request is idle, a write or a rotation (what the handlers can be at).*)
TypeOK ==
  /\ account \in Generations
  /\ used \subseteq Generations
  /\ rows \in Table
  /\ clock \in 0 .. MaxTime
  /\ requests \in [Requests -> Write \cup Rotation \cup {Idle}]

(* A cipher that was shared keeps nothing of the user's: no folder of the     *)
(* user and no attachment, whose names and keys are under the user key.       *)
(* Moves, edits and attachment uploads that began while the cipher was still  *)
(* personal land after sharePersonalCipherWithOrganization.                   *)
SharedCiphersAreStripped ==
  \A c \in Ciphers : Shared(c) => rows[c].link = Null /\ NoAttachment(c)

(* rotateUserKeyGeneration leaves one generation: when the user key changes,  *)
(* every personal folder, cipher and attachment and every trusted-device key  *)
(* is under the new key, nothing is in the trash or half uploaded, ciphers    *)
(* are in folders that exist, and every device is signed out, whatever was    *)
(* written while the server read the tables one after another.                *)
RotationLeavesOneGeneration ==
  [][account' # account =>
       /\ \A k \in Personal(rows)' :
            /\ rows'[k].key = account'
            /\ k \notin Devices => rows'[k].state = "live"
            /\ k \in Ciphers => rows'[k].link = Null \/ rows'[rows'[k].link].state = "live"
       /\ \A d \in Devices : rows'[d].state = "revoked"]_vars

(* A ciphertext of an earlier generation never replaces one of the current    *)
(* generation: an update that was encrypted before a rotation and arrives     *)
(* after it finds another revision (updateCipher, updateFolder).              *)
RotatedRecordsStayRotated ==
  [][\A k \in Folders \cup Ciphers \cup Attachments :
       Stored(k) /\ rows[k].key = account
         => rows'[k].state = "gone" \/ rows'[k].key \in {account', OrgKey}]_vars

(* A rotation overwrites no cipher and no attachment that its client had not  *)
(* seen in its latest form: its client encrypted exactly what is replaced.    *)
RotationOverwritesWhatItsClientSaw ==
  [][\A r \in Requests :
       account' # account /\ requests[r] # Idle /\ requests'[r] = Idle
         => \A k \in Personal(rows) \cap (Ciphers \cup Attachments) :
              rows[k] = requests[r].seen[k]]_vars

(* The same of folders: a rotation built on a stale folder fails before it    *)
(* changes anything.                                                          *)
StaleFoldersFailTheRotation ==
  [][\A r \in Requests :
       account' # account /\ requests[r] # Idle /\ requests'[r] = Idle
         => \A f \in Personal(rows) \cap Folders :
              rows[f] = requests[r].seen[f]]_vars
=============================================================================
