----------------------------- MODULE Attachments -----------------------------
(***************************************************************************)
(* The attachments of one account: rows of cipher_attachments in D1 and    *)
(* objects in R2.  No transaction spans the two stores, so an upload first *)
(* reserves a pending row, then writes the object, then marks the row      *)
(* uploaded, and compensates when a step fails; deletions remove objects   *)
(* before rows.  A row that is still pending a day after its last          *)
(* reservation has lapsed: it no longer counts against the quota, and the  *)
(* retention cron removes it.                                              *)
(*                                                                         *)
(* A reservation lasts 24 hours and an invocation is gone long before, so  *)
(* a lease does not lapse under the request that took it (Lapse).  A write *)
(* to D1 whose answer is lost has committed or not by the time of the next *)
(* read.                                                                   *)
(***************************************************************************)
EXTENDS Naturals, FiniteSets

CONSTANTS Workers,      \* concurrent invocations
          Ciphers,      \* ids of ciphers of the account
          Attachments,  \* ids of attachments; an id names its object key too
          Size,         \* the size declared for each attachment
          MaxStorage,   \* quota of the account
          SweepLimit    \* rows removed per run of the cron

ASSUME SizesAreNatural == Size \in [Attachments -> Nat]
ASSUME LimitsAreNatural == MaxStorage \in Nat /\ SweepLimit \in Nat \ {0}

VARIABLES ciphers,   \* state of each cipher
          rows,      \* rows of cipher_attachments by id
          objects,   \* ids whose object is in R2
          erased,    \* history: ids whose object a deletion removed
          serving    \* what each worker is doing

vars == <<ciphers, rows, objects, erased, serving>>

-----------------------------------------------------------------------------
(* known: a client holds the id of the row, which lists show only once it is *)
(* uploaded.  fresh: the reservation has not lapsed.                         *)

Row == [state : {"pending", "uploaded"}, cipher : Ciphers,
        known : BOOLEAN, fresh : BOOLEAN]
NoRow == [state |-> "none"]
Gone  == [state |-> "deleted"]
Stored(a)  == rows[a].state \in {"pending", "uploaded"}
Pending(a) == rows[a].state = "pending"
Uploaded(a) == rows[a].state = "uploaded"

Removed(S) == [a \in Attachments |->
                 IF a \in S THEN Gone ELSE rows[a]]

\* An upload: settles says that the request has to mark the row uploaded.
\* An erasure: the rows or ciphers to delete, with the object keys read.
Upload == [op : {"direct", "upload"}, att : Attachments, settles : BOOLEAN,
           at : {"reserve", "recheck", "put", "mark", "check", "undo", "undo_row"}]
Erasure == [op : {"delete_attachment", "delete_ciphers"},
            keys : SUBSET Attachments, ciphers : SUBSET Ciphers,
            at : {"objects", "rows"}]
Idle == [op |-> "idle"]

Goto(w, step) == serving' = [serving EXCEPT ![w].at = step]
Finish(w) == serving' = [serving EXCEPT ![w] = Idle]
Uploading(w, step) ==
  serving[w].op \in {"direct", "upload"} /\ serving[w].at = step

\* The quota sums the declared sizes of uploaded rows and of reservations that
\* have not lapsed.  A sum is the number of the bytes it stands for.
Counted(others) == {a \in others : Uploaded(a) \/ (Pending(a) /\ rows[a].fresh)}
Bytes(S) == UNION {{a} \X (1..Size[a]) : a \in S}
Used(others) == Cardinality(Bytes(Counted(others)))
Fits(a, others) == Size[a] + Used(others) <= MaxStorage

-----------------------------------------------------------------------------
(* Allocation.  The statement repeats the checks of the reads before it, so *)
(* those reads only refuse earlier.  A direct upload goes on with its own   *)
(* row; an allocation ends, with an answer that may be lost.                *)

\* Slip: the INSERT trusts the read of the cipher.
InsertIntoAnyCipher(c) == ciphers[c] # "deleted"
MayInsert(c) == ciphers[c] = "personal"

CreatePendingCipherAttachment(w, c, a) ==
  /\ serving[w] = Idle
  /\ rows[a] = NoRow
  /\ MayInsert(c)
  /\ Fits(a, Attachments)
  /\ \E direct, answered \in BOOLEAN :
       /\ direct => ~answered
       /\ rows' = [rows EXCEPT ![a] =
            [state |-> "pending", cipher |-> c, known |-> answered, fresh |-> TRUE]]
       /\ serving' = IF direct
                     THEN [serving EXCEPT ![w] =
                            [op |-> "direct", att |-> a, settles |-> TRUE, at |-> "put"]]
                     ELSE serving
  /\ UNCHANGED <<ciphers, objects, erased>>

-----------------------------------------------------------------------------
(* POST .../attachment/{attachmentId}: the upload of an allocated id, which *)
(* clients retry and may run twice at once                                  *)

FindForUpload(w, a) ==
  /\ serving[w] = Idle
  /\ Stored(a) /\ rows[a].known
  /\ ciphers[rows[a].cipher] = "personal"
  /\ Pending(a) => rows[a].fresh
  /\ serving' = [serving EXCEPT ![w] =
       [op |-> "upload", att |-> a, settles |-> Pending(a),
        at |-> IF Pending(a) THEN "reserve" ELSE "put"]]
  /\ UNCHANGED <<ciphers, rows, objects, erased>>

\* Slip: a lapsed reservation is renewed without counting the others.
RenewLapsed(a) == Pending(a)
MayReserve(a) == Pending(a) /\ rows[a].fresh /\ Fits(a, Attachments \ {a})

ReserveCipherAttachmentUpload(w) ==
  LET a == serving[w].att IN
  /\ Uploading(w, "reserve")
  /\ IF MayReserve(a)
     THEN rows' = [rows EXCEPT ![a].fresh = TRUE] /\ Goto(w, "put")
     ELSE UNCHANGED rows /\ Goto(w, "recheck")
  /\ UNCHANGED <<ciphers, objects, erased>>

\* Without a reservation the upload goes on only over an uploaded row.
RecheckReservation(w) ==
  /\ Uploading(w, "recheck")
  /\ IF Uploaded(serving[w].att)
     THEN serving' = [serving EXCEPT ![w].settles = FALSE, ![w].at = "put"]
     ELSE Finish(w)
  /\ UNCHANGED <<ciphers, rows, objects, erased>>

-----------------------------------------------------------------------------
(* Writing the object and marking the row.  Every request for one id writes *)
(* the same object key.                                                     *)

PutObject(w) ==
  LET a == serving[w].att IN
  /\ Uploading(w, "put")
  /\ objects' = objects \cup {a}
  /\ erased' = erased \ {a}
  /\ IF serving[w].settles THEN Goto(w, "mark") ELSE Finish(w)
  /\ UNCHANGED <<ciphers, rows>>

\* A failed write may still have stored the object.  A direct upload undoes
\* it; the other route answers with an error.
PutFails(w) ==
  LET a == serving[w].att IN
  /\ Uploading(w, "put")
  /\ \/ UNCHANGED <<objects, erased>>
     \/ objects' = objects \cup {a} /\ erased' = erased \ {a}
  /\ IF serving[w].op = "direct" THEN Goto(w, "undo") ELSE Finish(w)
  /\ UNCHANGED <<ciphers, rows>>

\* The row turns uploaded if it is still pending; when it was not, or the
\* answer is lost or an error, the request reads the row again.
MarkCipherAttachmentUploaded(w) ==
  LET a == serving[w].att IN
  /\ Uploading(w, "mark")
  /\ \/ /\ Pending(a)
        /\ rows' = [rows EXCEPT ![a].state = "uploaded", ![a].known = TRUE]
        /\ Finish(w) \/ Goto(w, "check")
     \/ UNCHANGED rows /\ Goto(w, "check")
  /\ UNCHANGED <<ciphers, objects, erased>>

\* Slip: the request that did not mark the row takes its object back.
UndoesUnmarked(w, a) == ~Uploaded(a)
\* A direct upload is alone with its id and undoes unless the row is uploaded;
\* the other route only when the row is gone, for a request that shares the
\* key may be about to mark it.
Undoes(w, a) == IF serving[w].op = "direct" THEN ~Uploaded(a) ELSE ~Stored(a)

CheckAfterMark(w) ==
  LET a == serving[w].att IN
  /\ Uploading(w, "check")
  /\ IF Undoes(w, a)
     THEN serving' = [serving EXCEPT ![w].settles = Pending(a), ![w].at = "undo"]
     ELSE Finish(w)
  /\ UNCHANGED <<ciphers, rows, objects, erased>>

UndoObject(w) ==
  /\ Uploading(w, "undo")
  /\ objects' = objects \ {serving[w].att}
  /\ IF serving[w].settles THEN Goto(w, "undo_row") ELSE Finish(w)
  /\ UNCHANGED <<ciphers, rows, erased>>

UndoRow(w) ==
  /\ Uploading(w, "undo_row")
  /\ rows' = Removed({serving[w].att})
  /\ Finish(w)
  /\ UNCHANGED <<ciphers, objects, erased>>

-----------------------------------------------------------------------------
(* Deletions: of one attachment, or of ciphers for good *)

FindForDelete(w, a) ==
  /\ serving[w] = Idle
  /\ Stored(a) /\ rows[a].known
  /\ serving' = [serving EXCEPT ![w] =
       [op |-> "delete_attachment", keys |-> {a}, ciphers |-> {}, at |-> "objects"]]
  /\ UNCHANGED <<ciphers, rows, objects, erased>>

OwnCiphers == {c \in Ciphers : ciphers[c] \in {"personal", "trashed"}}
RowsOf(C) == {a \in Attachments : Stored(a) /\ rows[a].cipher \in C}

ListCipherAttachmentObjectKeys(w, C) ==
  /\ serving[w] = Idle
  /\ serving' = [serving EXCEPT ![w] =
       [op |-> "delete_ciphers", keys |-> RowsOf(C \cap OwnCiphers),
        ciphers |-> C, at |-> "objects"]]
  /\ UNCHANGED <<ciphers, rows, objects, erased>>

\* The keys are deleted in slices, and an error ends the request between two.
DeleteR2Objects(w) ==
  /\ serving[w].op \in {"delete_attachment", "delete_ciphers"}
  /\ serving[w].at = "objects"
  /\ \E part \in SUBSET serving[w].keys :
       /\ objects' = objects \ part
       /\ erased' = erased \cup part
       /\ IF part = serving[w].keys THEN Goto(w, "rows") ELSE Finish(w)
  /\ UNCHANGED <<ciphers, rows>>

DeleteCipherAttachment(w) ==
  /\ serving[w].op = "delete_attachment" /\ serving[w].at = "rows"
  /\ rows' = Removed(serving[w].keys)
  /\ Finish(w)
  /\ UNCHANGED <<ciphers, objects, erased>>

\* Deleting a cipher deletes its rows in cascade; a cipher that was shared
\* meanwhile stays.
PermanentlyDeleteCiphers(w) ==
  LET gone == serving[w].ciphers \cap OwnCiphers IN
  /\ serving[w].op = "delete_ciphers" /\ serving[w].at = "rows"
  /\ ciphers' = [c \in Ciphers |-> IF c \in gone THEN "deleted" ELSE ciphers[c]]
  /\ rows' = Removed(RowsOf(gone))
  /\ Finish(w)
  /\ UNCHANGED <<objects, erased>>

-----------------------------------------------------------------------------
(* Single statements on ciphers, time, and the cron *)

SoftDeleteCipher(c) ==
  /\ ciphers[c] = "personal"
  /\ ciphers' = [ciphers EXCEPT ![c] = "trashed"]
  /\ UNCHANGED <<rows, objects, erased, serving>>

RestoreCipher(c) ==
  /\ ciphers[c] = "trashed"
  /\ ciphers' = [ciphers EXCEPT ![c] = "personal"]
  /\ UNCHANGED <<rows, objects, erased, serving>>

MayShare(c) == ciphers[c] = "personal" /\ RowsOf({c}) = {}

SharePersonalCipherWithOrganization(c) ==
  /\ MayShare(c)
  /\ ciphers' = [ciphers EXCEPT ![c] = "shared"]
  /\ UNCHANGED <<rows, objects, erased, serving>>

\* The lease of a request past its reservation outlives the request.
Leased(a) ==
  \E w \in Workers : /\ serving[w].op \in {"direct", "upload"}
                     /\ serving[w].att = a
                     /\ serving[w].settles
                     /\ serving[w].at # "reserve" /\ serving[w].at # "recheck"

Lapse(a) ==
  /\ Pending(a) /\ rows[a].fresh
  /\ ~Leased(a)
  /\ rows' = [rows EXCEPT ![a].fresh = FALSE]
  /\ UNCHANGED <<ciphers, objects, erased, serving>>

Lapsed == {a \in Attachments : Pending(a) /\ ~rows[a].fresh}

\* The cron, and the cleanup on the login path, remove rows and leave the
\* bucket alone.
DeleteExpiredPendingCipherAttachments ==
  /\ \E S \in SUBSET Lapsed :
       /\ Cardinality(S) = (IF Cardinality(Lapsed) < SweepLimit
                            THEN Cardinality(Lapsed) ELSE SweepLimit)
       /\ S # {}
       /\ rows' = Removed(S)
  /\ UNCHANGED <<ciphers, objects, erased, serving>>

\* An invocation can end between any two of its steps: an error, or the
\* platform stopping it.
Abandon(w) ==
  /\ serving[w] # Idle
  /\ Finish(w)
  /\ UNCHANGED <<ciphers, rows, objects, erased>>

-----------------------------------------------------------------------------
Init ==
  /\ ciphers = [c \in Ciphers |-> "personal"]
  /\ rows = [a \in Attachments |-> NoRow]
  /\ objects = {}
  /\ erased = {}
  /\ serving = [w \in Workers |-> Idle]

Uploads(w) ==
  \/ \E a \in Attachments : \/ FindForUpload(w, a)
                            \/ \E c \in Ciphers : CreatePendingCipherAttachment(w, c, a)
  \/ ReserveCipherAttachmentUpload(w)
  \/ RecheckReservation(w)
  \/ PutObject(w)
  \/ PutFails(w)
  \/ MarkCipherAttachmentUploaded(w)
  \/ CheckAfterMark(w)
  \/ UndoObject(w)
  \/ UndoRow(w)

Deletions(w) ==
  \/ \E a \in Attachments : FindForDelete(w, a)
  \/ \E C \in SUBSET Ciphers \ {{}} : ListCipherAttachmentObjectKeys(w, C)
  \/ DeleteR2Objects(w)
  \/ DeleteCipherAttachment(w)
  \/ PermanentlyDeleteCiphers(w)

Next ==
  \/ \E w \in Workers : Uploads(w) \/ Deletions(w) \/ Abandon(w)
  \/ \E c \in Ciphers : \/ SoftDeleteCipher(c)
                        \/ RestoreCipher(c)
                        \/ SharePersonalCipherWithOrganization(c)
  \/ \E a \in Attachments : Lapse(a)
  \/ DeleteExpiredPendingCipherAttachments

Spec == Init /\ [][Next]_vars

-----------------------------------------------------------------------------
(* Properties *)

\* Rows and requests have their shapes, and only an id that was allocated has
\* anything behind it: an object, a request, or an id a client knows.
TypeOK ==
  /\ ciphers \in [Ciphers -> {"personal", "trashed", "shared", "deleted"}]
  /\ rows \in [Attachments -> Row \cup {NoRow, Gone}]
  /\ objects \subseteq {a \in Attachments : rows[a] # NoRow}
  /\ erased \subseteq {a \in Attachments : rows[a] # NoRow}
  /\ serving \in [Workers -> Upload \cup Erasure \cup {Idle}]

\* An attachment that clients are shown has its object: neither a retry that
\* shares the key, nor a compensation, nor the cron takes the bytes of an
\* uploaded row.  Only a deletion by the user that stopped half-way does.
UploadedHasBytes ==
  \A a \in Attachments : Uploaded(a) => a \in objects \cup erased

\* Uploaded rows and reservations in force never add up to more than the quota,
\* although each statement only looks at the others.
StorageWithinQuota == Used(Attachments) <= MaxStorage

\* A shared cipher has no attachments, and a deleted one no rows: whatever is
\* in flight when a cipher is shared or deleted adds none afterwards.
AttachmentsOfOwnCiphers ==
  \A a \in Attachments : Stored(a) => ciphers[rows[a].cipher] \in {"personal", "trashed"}

\* The bytes that a failed upload preserves under its pending row can still be
\* reconciled by a retry or a rollback: when nothing is in flight, every object
\* has a row that refers to it.
NoObjectIsStranded ==
  (\A w \in Workers : serving[w] = Idle) => \A a \in objects : Stored(a)
=============================================================================
