------------------------- MODULE AttachmentsProofs -------------------------
(* Proofs about Attachments for every set of workers, ciphers and ids, and   *)
(* every size and quota.                                                     *)
EXTENDS Attachments, FiniteSetTheorems, TLAPS

-----------------------------------------------------------------------------
(* The inductive invariant.  An id is drawn once and its row never comes     *)
(* back, a direct upload is alone with its id until its row is shown, and    *)
(* whoever is about to mark a row has stored its object.  A request that     *)
(* will settle its row holds a lease on it, so what it marks was counted.    *)

\* A request works on ids that were allocated.
IdsInUse ==
  \A w \in Workers :
    /\ serving[w].op \in {"direct", "upload"} => rows[serving[w].att] # NoRow
    /\ serving[w].op \in {"delete_attachment", "delete_ciphers"}
         => \A a \in serving[w].keys : rows[a] # NoRow

\* The upload of an allocated id was told the id.
KnownIds ==
  \A w \in Workers :
    serving[w].op = "upload" /\ Stored(serving[w].att) => rows[serving[w].att].known

\* Nobody else knows the id of a direct upload while its row is pending, and a
\* direct upload has its reservation from the start.
OwnIds ==
  \A w \in Workers : serving[w].op = "direct" =>
    /\ serving[w].at \notin {"reserve", "recheck"}
    /\ Pending(serving[w].att) => ~rows[serving[w].att].known
    /\ \A v \in Workers :
         serving[v].op = "direct" /\ serving[v].att = serving[w].att => v = w

\* A row that is about to be marked has its object.
MarksStored ==
  \A w \in Workers : Uploading(w, "mark") /\ Pending(serving[w].att)
    => serving[w].att \in objects \cup erased

\* Only what is not shown is undone, and never what others may still mark.
UndoesUnshown ==
  \A w \in Workers :
    /\ serving[w].op = "direct" /\ serving[w].at \in {"put", "undo"}
         => ~Uploaded(serving[w].att)
    /\ serving[w].op = "upload" /\ serving[w].at = "undo"
         => ~Stored(serving[w].att)

\* A request marks only rows it has to settle, and until it does their
\* reservation is in force.
Settling(r) ==
  r.op \in {"direct", "upload"} /\ r.settles /\ r.at \notin {"reserve", "recheck"}
LeasesHold ==
  \A w \in Workers :
    /\ serving[w].op \in {"direct", "upload"} /\ serving[w].at \in {"mark", "check"}
         => serving[w].settles
    /\ Settling(serving[w]) /\ Pending(serving[w].att) => rows[serving[w].att].fresh

\* The bytes that count are finitely many, and within the quota.
InForce == Bytes(Counted(Attachments))
QuotaHolds == IsFiniteSet(InForce) /\ StorageWithinQuota

AttachmentsInv ==
  /\ TypeOK
  /\ AttachmentsOfOwnCiphers
  /\ UploadedHasBytes
  /\ IdsInUse
  /\ KnownIds
  /\ OwnIds
  /\ MarksStored
  /\ UndoesUnshown
  /\ LeasesHold
  /\ QuotaHolds
-----------------------------------------------------------------------------
(* Shapes *)

LEMMA RequestShape ==
  ASSUME TypeOK, NEW w \in Workers
  PROVE  /\ serving[w].op \in {"direct", "upload"} <=> serving[w] \in Upload
         /\ serving[w].op \in {"delete_attachment", "delete_ciphers"}
              <=> serving[w] \in Erasure
         /\ serving[w].op \in {"direct", "upload", "delete_attachment",
                               "delete_ciphers"}
              <=> serving[w] # Idle
<1>1. serving[w] \in Upload \cup Erasure \cup {Idle}
  BY DEF TypeOK
<1>2. \A r \in Upload : r.op = "direct" \/ r.op = "upload"
  BY DEF Upload
<1>3. \A r \in Erasure : r.op = "delete_attachment" \/ r.op = "delete_ciphers"
  BY DEF Erasure
<1>4. Idle.op = "idle"
  BY DEF Idle
<1> QED
  BY <1>1, <1>2, <1>3, <1>4

LEMMA RowShape ==
  ASSUME TypeOK, NEW a \in Attachments
  PROVE  /\ Stored(a) <=> rows[a] \in Row
         /\ Stored(a) <=> rows[a] # NoRow /\ rows[a] # Gone
BY DEF TypeOK, Stored, Row, NoRow, Gone

LEMMA FinishShape ==
  ASSUME TypeOK, NEW w \in Workers, Finish(w)
  PROVE  serving' \in [Workers -> Upload \cup Erasure \cup {Idle}]
BY DEF TypeOK, Finish

LEMMA GotoUpload ==
  ASSUME TypeOK, NEW w \in Workers, serving[w].op \in {"direct", "upload"},
         NEW step \in {"reserve", "recheck", "put", "mark", "check", "undo", "undo_row"},
         Goto(w, step)
  PROVE  serving' \in [Workers -> Upload \cup Erasure \cup {Idle}]
<1>1. serving[w] \in Upload
  BY RequestShape
<1>2. [serving[w] EXCEPT !.at = step] \in Upload
  BY <1>1 DEF Upload
<1> QED
  BY <1>2 DEF TypeOK, Goto

LEMMA RemovedShape ==
  ASSUME TypeOK, NEW S, rows' = Removed(S)
  PROVE  /\ rows' \in [Attachments -> Row \cup {NoRow, Gone}]
         /\ \A a \in Attachments : rows[a] # NoRow => rows'[a] # NoRow
         /\ \A a \in Attachments : rows'[a] = rows[a] \/ rows'[a] = Gone
BY DEF TypeOK, Removed, Gone, NoRow
-----------------------------------------------------------------------------
(* Type correctness.  A step writes objects only of ids in use. *)

LEMMA TypeInit == Init => TypeOK
BY DEF Init, TypeOK

\* A step that leaves rows where they are and adds objects of used ids only.
LEMMA SameRowsType ==
  ASSUME TypeOK, UNCHANGED <<ciphers, rows>>,
         \A a \in (objects' \cup erased') \ (objects \cup erased) :
           a \in Attachments /\ rows[a] # NoRow,
         serving' \in [Workers -> Upload \cup Erasure \cup {Idle}]
  PROVE  TypeOK'
BY DEF TypeOK

\* A step that leaves objects where they are and draws or changes rows.
LEMMA SameObjectsType ==
  ASSUME TypeOK, UNCHANGED <<objects, erased>>,
         ciphers' \in [Ciphers -> {"personal", "trashed", "shared", "deleted"}],
         rows' \in [Attachments -> Row \cup {NoRow, Gone}],
         \A a \in Attachments : rows[a] # NoRow => rows'[a] # NoRow,
         serving' \in [Workers -> Upload \cup Erasure \cup {Idle}]
  PROVE  TypeOK'
BY DEF TypeOK

LEMMA TypeCreate ==
  ASSUME TypeOK, NEW w \in Workers, NEW c \in Ciphers, NEW a \in Attachments,
         CreatePendingCipherAttachment(w, c, a)
  PROVE  TypeOK'
<1>1. PICK direct \in BOOLEAN, answered \in BOOLEAN :
        /\ rows' = [rows EXCEPT ![a] =
             [state |-> "pending", cipher |-> c, known |-> answered, fresh |-> TRUE]]
        /\ serving' = IF direct
                      THEN [serving EXCEPT ![w] =
                             [op |-> "direct", att |-> a, settles |-> TRUE,
                              at |-> "put"]]
                      ELSE serving
  BY DEF CreatePendingCipherAttachment
<1>2. [state |-> "pending", cipher |-> c, known |-> answered, fresh |-> TRUE] \in Row
  BY DEF Row
<1>3. [op |-> "direct", att |-> a, settles |-> TRUE, at |-> "put"] \in Upload
  BY DEF Upload
<1>4. [state |-> "pending", cipher |-> c, known |-> answered, fresh |-> TRUE] # NoRow
  BY DEF NoRow
<1>5. /\ rows' \in [Attachments -> Row \cup {NoRow, Gone}]
      /\ \A b \in Attachments : rows[b] # NoRow => rows'[b] # NoRow
  BY <1>1, <1>2, <1>4 DEF TypeOK
<1>6. serving' \in [Workers -> Upload \cup Erasure \cup {Idle}]
  BY <1>1, <1>3 DEF TypeOK
<1>7. ciphers' \in [Ciphers -> {"personal", "trashed", "shared", "deleted"}]
  BY DEF TypeOK, CreatePendingCipherAttachment
<1> QED
  BY <1>5, <1>6, <1>7, SameObjectsType DEF CreatePendingCipherAttachment

\* The columns of a row can be set one by one.
LEMMA RowColumns ==
  ASSUME TypeOK, NEW a \in Attachments, Stored(a)
  PROVE  /\ [rows[a] EXCEPT !.fresh = TRUE] \in Row
         /\ [rows[a] EXCEPT !.fresh = FALSE] \in Row
         /\ [rows[a] EXCEPT !.state = "uploaded", !.known = TRUE] \in Row
<1>1. rows[a] \in Row
  BY RowShape
<1> QED
  BY <1>1 DEF Row

LEMMA RowsAreRows == NoRow \notin Row /\ Gone \notin Row /\ Gone # NoRow
BY DEF NoRow, Gone, Row

LEMMA OneRowType ==
  ASSUME TypeOK, NEW a \in Attachments, NEW r \in Row, rows' = [rows EXCEPT ![a] = r]
  PROVE  /\ rows' \in [Attachments -> Row \cup {NoRow, Gone}]
         /\ \A b \in Attachments : rows[b] # NoRow => rows'[b] # NoRow
BY RowsAreRows DEF TypeOK

LEMMA FindForUploadType ==
  ASSUME TypeOK, NEW w \in Workers, NEW a \in Attachments, FindForUpload(w, a)
  PROVE  serving' \in [Workers -> Upload \cup Erasure \cup {Idle}]
<1> DEFINE r == [op |-> "upload", att |-> a, settles |-> Pending(a),
                 at |-> IF Pending(a) THEN "reserve" ELSE "put"]
<1>1. r \in Upload
  BY DEF Upload, Pending
<1>2. serving' = [serving EXCEPT ![w] = r]
  BY DEF FindForUpload
<1> QED
  BY <1>1, <1>2 DEF TypeOK

LEMMA TypeReserve ==
  ASSUME TypeOK, NEW w \in Workers, ReserveCipherAttachmentUpload(w)
  PROVE  TypeOK'
<1> DEFINE a == serving[w].att
<1>1. a \in Attachments
  BY RequestShape DEF ReserveCipherAttachmentUpload, Uploading, Upload
<1>2. serving' \in [Workers -> Upload \cup Erasure \cup {Idle}]
  BY GotoUpload DEF ReserveCipherAttachmentUpload, Uploading
<1>3. CASE MayReserve(a)
  <2>1. [rows[a] EXCEPT !.fresh = TRUE] \in Row
    BY <1>1, <1>3, RowColumns DEF MayReserve, Pending, Stored
  <2>2. rows' = [rows EXCEPT ![a] = [rows[a] EXCEPT !.fresh = TRUE]]
    BY <1>3 DEF ReserveCipherAttachmentUpload
  <2> QED
    BY <1>1, <1>2, <2>1, <2>2, OneRowType, SameObjectsType
    DEF ReserveCipherAttachmentUpload, TypeOK
<1>4. CASE ~MayReserve(a)
  BY <1>2, <1>4, SameObjectsType DEF ReserveCipherAttachmentUpload, TypeOK
<1> QED
  BY <1>3, <1>4

LEMMA TypeRecheck ==
  ASSUME TypeOK, NEW w \in Workers, RecheckReservation(w)
  PROVE  TypeOK'
<1>1. serving[w] \in Upload
  BY RequestShape DEF RecheckReservation, Uploading
<1>2. [serving[w] EXCEPT !.settles = FALSE, !.at = "put"] \in Upload
  BY <1>1 DEF Upload
<1>3. CASE Uploaded(serving[w].att)
  <2>1. serving' = [serving EXCEPT
                      ![w] = [serving[w] EXCEPT !.settles = FALSE, !.at = "put"]]
    BY <1>3 DEF RecheckReservation
  <2> QED
    BY <1>2, <2>1, SameRowsType DEF RecheckReservation, TypeOK
<1>4. CASE ~Uploaded(serving[w].att)
  BY <1>4, FinishShape, SameRowsType DEF RecheckReservation
<1> QED
  BY <1>3, <1>4

LEMMA TypePut ==
  ASSUME TypeOK, IdsInUse, NEW w \in Workers, PutObject(w) \/ PutFails(w)
  PROVE  TypeOK'
<1> DEFINE a == serving[w].att
<1>1. serving[w].op \in {"direct", "upload"} /\ serving[w] \in Upload
  BY RequestShape DEF PutObject, PutFails, Uploading
<1>2. a \in Attachments /\ rows[a] # NoRow
  BY <1>1 DEF Upload, IdsInUse
<1>3. serving' \in [Workers -> Upload \cup Erasure \cup {Idle}]
  BY <1>1, FinishShape, GotoUpload DEF PutObject, PutFails
<1>4. objects' \subseteq objects \cup {a} /\ erased' \subseteq erased
  BY DEF PutObject, PutFails
<1> QED
  BY <1>2, <1>3, <1>4, SameRowsType DEF PutObject, PutFails

LEMMA TypeMark ==
  ASSUME TypeOK, NEW w \in Workers, MarkCipherAttachmentUploaded(w)
  PROVE  TypeOK'
<1> DEFINE a == serving[w].att
<1>1. serving[w].op \in {"direct", "upload"} /\ a \in Attachments
  BY RequestShape DEF MarkCipherAttachmentUploaded, Uploading, Upload
<1>2. serving' \in [Workers -> Upload \cup Erasure \cup {Idle}]
  BY <1>1, FinishShape, GotoUpload DEF MarkCipherAttachmentUploaded
<1>3. CASE UNCHANGED rows
  BY <1>2, <1>3, SameObjectsType DEF MarkCipherAttachmentUploaded, TypeOK
<1>4. CASE /\ Pending(a)
           /\ rows' = [rows EXCEPT ![a].state = "uploaded", ![a].known = TRUE]
  <2>1. [rows[a] EXCEPT !.state = "uploaded", !.known = TRUE] \in Row
    BY <1>1, <1>4, RowColumns DEF Pending, Stored
  <2>2. rows' = [rows EXCEPT ![a] = [rows[a] EXCEPT !.state = "uploaded", !.known = TRUE]]
    BY <1>1, <1>4 DEF TypeOK
  <2> QED
    BY <1>1, <1>2, <2>1, <2>2, OneRowType, SameObjectsType
    DEF MarkCipherAttachmentUploaded, TypeOK
<1> QED
  BY <1>3, <1>4 DEF MarkCipherAttachmentUploaded

LEMMA TypeCheck ==
  ASSUME TypeOK, NEW w \in Workers, CheckAfterMark(w)
  PROVE  TypeOK'
<1> DEFINE a == serving[w].att
<1>1. serving[w] \in Upload
  BY RequestShape DEF CheckAfterMark, Uploading
<1>2. [serving[w] EXCEPT !.settles = Pending(a), !.at = "undo"] \in Upload
  BY <1>1 DEF Upload, Pending
<1>3. CASE Undoes(w, a)
  <2>1. serving' = [serving EXCEPT ![w] =
                      [serving[w] EXCEPT !.settles = Pending(a), !.at = "undo"]]
    BY <1>3 DEF CheckAfterMark
  <2> QED
    BY <1>2, <2>1, SameRowsType DEF CheckAfterMark, TypeOK
<1>4. CASE ~Undoes(w, a)
  BY <1>4, FinishShape, SameRowsType DEF CheckAfterMark
<1> QED
  BY <1>3, <1>4

LEMMA TypeUndo ==
  ASSUME TypeOK, NEW w \in Workers, UndoObject(w) \/ UndoRow(w)
  PROVE  TypeOK'
<1>1. CASE UndoObject(w)
  <2>1. serving' \in [Workers -> Upload \cup Erasure \cup {Idle}]
    BY <1>1, FinishShape, GotoUpload DEF UndoObject, Uploading
  <2> QED
    BY <1>1, <2>1, SameRowsType DEF UndoObject
<1>2. CASE UndoRow(w)
  BY <1>2, FinishShape, RemovedShape, SameObjectsType DEF UndoRow, TypeOK
<1> QED
  BY <1>1, <1>2

LEMMA TypeUploads ==
  ASSUME TypeOK, IdsInUse, NEW w \in Workers, Uploads(w)
  PROVE  TypeOK'
<1>1. CASE \E a \in Attachments : FindForUpload(w, a)
  BY <1>1, FindForUploadType, SameRowsType DEF FindForUpload
<1>2. CASE \E a \in Attachments, c \in Ciphers : CreatePendingCipherAttachment(w, c, a)
  BY <1>2, TypeCreate
<1> QED
  BY <1>1, <1>2, TypeReserve, TypeRecheck, TypePut, TypeMark, TypeCheck, TypeUndo
  DEF Uploads

LEMMA TypeDeletions ==
  ASSUME TypeOK, IdsInUse, NEW w \in Workers, Deletions(w)
  PROVE  TypeOK'
<1>1. ASSUME NEW a \in Attachments, FindForDelete(w, a)
      PROVE  TypeOK'
  <2>1. [op |-> "delete_attachment", keys |-> {a}, ciphers |-> {}, at |-> "objects"]
          \in Erasure
    BY DEF Erasure
  <2> QED
    BY <1>1, <2>1, SameRowsType DEF FindForDelete, TypeOK
<1>2. ASSUME NEW C \in SUBSET Ciphers, ListCipherAttachmentObjectKeys(w, C)
      PROVE  TypeOK'
  <2>1. [op |-> "delete_ciphers", keys |-> RowsOf(C \cap OwnCiphers),
         ciphers |-> C, at |-> "objects"] \in Erasure
    BY DEF Erasure, RowsOf
  <2> QED
    BY <1>2, <2>1, SameRowsType DEF ListCipherAttachmentObjectKeys, TypeOK
<1>3. CASE DeleteR2Objects(w)
  <2>1. /\ serving[w].op \in {"delete_attachment", "delete_ciphers"}
        /\ serving[w] \in Erasure
    BY <1>3, RequestShape DEF DeleteR2Objects
  <2>2. PICK part \in SUBSET serving[w].keys :
          /\ objects' = objects \ part
          /\ erased' = erased \cup part
          /\ IF part = serving[w].keys THEN Goto(w, "rows") ELSE Finish(w)
    BY <1>3 DEF DeleteR2Objects
  <2>3. [serving[w] EXCEPT !.at = "rows"] \in Erasure
    BY <2>1 DEF Erasure
  <2>4. serving' \in [Workers -> Upload \cup Erasure \cup {Idle}]
    BY <2>2, <2>3, FinishShape DEF Goto, TypeOK
  <2>5. \A a \in part : a \in Attachments /\ rows[a] # NoRow
    BY <2>1, <2>2 DEF Erasure, IdsInUse
  <2> QED
    BY <1>3, <2>2, <2>4, <2>5, SameRowsType DEF DeleteR2Objects
<1>4. CASE DeleteCipherAttachment(w)
  BY <1>4, FinishShape, RemovedShape, SameObjectsType
  DEF DeleteCipherAttachment, TypeOK
<1>5. CASE PermanentlyDeleteCiphers(w)
  <2>1. ciphers' \in [Ciphers -> {"personal", "trashed", "shared", "deleted"}]
    BY <1>5 DEF PermanentlyDeleteCiphers, TypeOK
  <2> QED
    BY <1>5, <2>1, FinishShape, RemovedShape, SameObjectsType
    DEF PermanentlyDeleteCiphers
<1> QED
  BY <1>1, <1>2, <1>3, <1>4, <1>5 DEF Deletions

LEMMA TypeStep ==
  ASSUME TypeOK, IdsInUse, [Next]_vars
  PROVE  TypeOK'
<1>1. ASSUME NEW w \in Workers, Abandon(w)
      PROVE  TypeOK'
  BY <1>1, FinishShape, SameRowsType DEF Abandon
<1>2. ASSUME NEW c \in Ciphers,
             \/ SoftDeleteCipher(c) \/ RestoreCipher(c)
             \/ SharePersonalCipherWithOrganization(c)
      PROVE  TypeOK'
  BY <1>2 DEF SoftDeleteCipher, RestoreCipher, SharePersonalCipherWithOrganization,
              TypeOK
<1>3. ASSUME NEW a \in Attachments, Lapse(a)
      PROVE  TypeOK'
  <2>1. [rows[a] EXCEPT !.fresh = FALSE] \in Row
    BY <1>3, RowColumns DEF Lapse, Pending, Stored
  <2>2. rows' = [rows EXCEPT ![a] = [rows[a] EXCEPT !.fresh = FALSE]]
    BY <1>3 DEF Lapse
  <2> QED
    BY <1>3, <2>1, <2>2, OneRowType, SameObjectsType DEF Lapse, TypeOK
<1>4. CASE DeleteExpiredPendingCipherAttachments
  BY <1>4, RemovedShape, SameObjectsType
  DEF DeleteExpiredPendingCipherAttachments, TypeOK
<1>5. CASE UNCHANGED vars
  BY <1>5 DEF vars, TypeOK
<1> QED
  BY <1>1, <1>2, <1>3, <1>4, <1>5, TypeUploads, TypeDeletions DEF Next
-----------------------------------------------------------------------------
(* What a step does to the row of an id *)

RowStays(a)   == rows'[a] = rows[a]
RowGoes(a)    == rows[a] # NoRow /\ rows'[a] = Gone
RowLapses(a)  == /\ Pending(a) /\ ~Leased(a)
                 /\ rows'[a] = [rows[a] EXCEPT !.fresh = FALSE]
RowIsDrawn(a) == \E w \in Workers, c \in Ciphers : CreatePendingCipherAttachment(w, c, a)
RowIsMarked(a) ==
  /\ Pending(a)
  /\ rows'[a] = [rows[a] EXCEPT !.state = "uploaded", !.known = TRUE]
  /\ UNCHANGED <<objects, erased>>
  /\ \E w \in Workers : Uploading(w, "mark") /\ serving[w].att = a

RowEffect(a) ==
  RowStays(a) \/ RowGoes(a) \/ RowLapses(a) \/ RowIsDrawn(a) \/ RowIsMarked(a)

LEMMA RemovedEffect ==
  ASSUME TypeOK, NEW S, \A a \in S : a \in Attachments => rows[a] # NoRow,
         rows' = Removed(S), NEW a \in Attachments
  PROVE  RowStays(a) \/ RowGoes(a)
BY DEF Removed, RowStays, RowGoes

LEMMA UploadsEffect ==
  ASSUME TypeOK, IdsInUse, NEW w \in Workers, Uploads(w), NEW a \in Attachments
  PROVE  RowEffect(a)
<1>1. ASSUME NEW b \in Attachments, NEW c \in Ciphers,
             CreatePendingCipherAttachment(w, c, b)
      PROVE  RowEffect(a)
  <2>1. a # b => rows'[a] = rows[a]
    BY <1>1 DEF CreatePendingCipherAttachment, TypeOK
  <2> QED
    BY <1>1, <2>1 DEF RowEffect, RowIsDrawn, RowStays
<1>2. CASE ReserveCipherAttachmentUpload(w)
  <2>1. serving[w].att \in Attachments
    BY <1>2, RequestShape DEF ReserveCipherAttachmentUpload, Uploading, Upload
  <2>2. CASE MayReserve(serving[w].att)
    <3>1. rows[serving[w].att] \in Row /\ rows[serving[w].att].fresh
      BY <2>1, <2>2, RowShape DEF MayReserve, Pending, Stored
    <3>2. [rows[serving[w].att] EXCEPT !.fresh = TRUE] = rows[serving[w].att]
      BY <3>1 DEF Row
    <3> QED
      BY <1>2, <2>1, <2>2, <3>2
      DEF ReserveCipherAttachmentUpload, RowEffect, RowStays, TypeOK
  <2> QED
    BY <1>2, <2>2 DEF ReserveCipherAttachmentUpload, RowEffect, RowStays
<1>3. CASE MarkCipherAttachmentUploaded(w)
  <2>1. serving[w].att \in Attachments
    BY <1>3, RequestShape DEF MarkCipherAttachmentUploaded, Uploading, Upload
  <2>2. CASE UNCHANGED rows
    BY <2>2 DEF RowEffect, RowStays
  <2>3. CASE /\ Pending(serving[w].att)
             /\ rows' = [rows EXCEPT ![serving[w].att].state = "uploaded",
                                     ![serving[w].att].known = TRUE]
    <3>1. rows' = [rows EXCEPT ![serving[w].att] =
                     [rows[serving[w].att] EXCEPT !.state = "uploaded", !.known = TRUE]]
      BY <2>1, <2>3 DEF TypeOK
    <3>2. CASE a = serving[w].att
      BY <1>3, <2>3, <3>1, <3>2
      DEF MarkCipherAttachmentUploaded, RowEffect, RowIsMarked, TypeOK
    <3>3. CASE a # serving[w].att
      BY <3>1, <3>3 DEF RowEffect, RowStays, TypeOK
    <3> QED
      BY <3>2, <3>3
  <2> QED
    BY <1>3, <2>2, <2>3 DEF MarkCipherAttachmentUploaded
<1>4. CASE UndoRow(w)
  <2>1. rows[serving[w].att] # NoRow
    BY <1>4 DEF UndoRow, Uploading, IdsInUse
  <2>2. rows' = Removed({serving[w].att})
    BY <1>4 DEF UndoRow
  <2>3. \A b \in {serving[w].att} : b \in Attachments => rows[b] # NoRow
    BY <2>1
  <2> QED
    BY <2>2, <2>3, RemovedEffect DEF RowEffect
<1>5. CASE UNCHANGED rows
  BY <1>5 DEF RowEffect, RowStays
<1> QED
  BY <1>1, <1>2, <1>3, <1>4, <1>5
  DEF Uploads, FindForUpload, RecheckReservation, PutObject, PutFails,
      CheckAfterMark, UndoObject

LEMMA StepEffect ==
  ASSUME TypeOK, IdsInUse, [Next]_vars, NEW a \in Attachments
  PROVE  RowEffect(a)
<1>1. ASSUME NEW w \in Workers, Deletions(w)
      PROVE  RowEffect(a)
  <2>1. CASE DeleteCipherAttachment(w)
    <3>1. \A b \in serving[w].keys : rows[b] # NoRow
      BY <2>1 DEF DeleteCipherAttachment, IdsInUse
    <3> QED
      BY <2>1, <3>1, RemovedEffect DEF DeleteCipherAttachment, RowEffect
  <2>2. CASE PermanentlyDeleteCiphers(w)
    <3>1. \A C : \A b \in RowsOf(C) : rows[b] # NoRow
      BY RowShape DEF RowsOf
    <3> QED
      BY <2>2, <3>1, RemovedEffect DEF PermanentlyDeleteCiphers, RowEffect
  <2>3. CASE UNCHANGED rows
    BY <2>3 DEF RowEffect, RowStays
  <2> QED
    BY <1>1, <2>1, <2>2, <2>3
    DEF Deletions, FindForDelete, ListCipherAttachmentObjectKeys, DeleteR2Objects
<1>2. ASSUME NEW b \in Attachments, Lapse(b)
      PROVE  RowEffect(a)
  BY <1>2 DEF Lapse, RowEffect, RowLapses, RowStays, TypeOK
<1>3. CASE DeleteExpiredPendingCipherAttachments
  <2>1. PICK S \in SUBSET Lapsed : rows' = Removed(S)
    BY <1>3 DEF DeleteExpiredPendingCipherAttachments
  <2>2. \A b \in S : rows[b] # NoRow
    BY <2>1 DEF Lapsed, Pending, NoRow
  <2> QED
    BY <2>1, <2>2, RemovedEffect DEF RowEffect
<1>4. CASE UNCHANGED rows
  BY <1>4 DEF RowEffect, RowStays
<1> QED
  BY <1>1, <1>2, <1>3, <1>4, UploadsEffect
  DEF Next, Abandon, SoftDeleteCipher, RestoreCipher,
      SharePersonalCipherWithOrganization, vars
-----------------------------------------------------------------------------
(* What a step does to the request of a worker *)

Same(v)  == serving'[v] = serving[v]
Ends(v)  == serving'[v] = Idle
Moves(v) ==
  /\ serving[v].op \in {"direct", "upload"}
  /\ serving'[v].op = serving[v].op /\ serving'[v].att = serving[v].att
  /\ serving'[v].at \in {"reserve", "recheck", "put"} => serving[v].op = "upload"
  /\ serving'[v].at = "mark" => serving[v].att \in objects'
  /\ serving'[v].at = "undo" =>
       /\ UNCHANGED rows
       /\ \/ serving[v].op = "direct" /\ serving[v].at = "put"
          \/ Undoes(v, serving[v].att)
\* The request erases ids in use.
Erases(v) ==
  /\ serving'[v].op \in {"delete_attachment", "delete_ciphers"}
  /\ \A a \in serving'[v].keys : rows[a] # NoRow
Draws(v) ==
  \E a \in Attachments, c \in Ciphers :
    /\ CreatePendingCipherAttachment(v, c, a)
    /\ ~rows'[a].known
    /\ serving' = [serving EXCEPT ![v] =
         [op |-> "direct", att |-> a, settles |-> TRUE, at |-> "put"]]
Finds(v) == \E a \in Attachments : FindForUpload(v, a)

RequestEffect(v) == Same(v) \/ Ends(v) \/ Moves(v) \/ Erases(v) \/ Draws(v) \/ Finds(v)

LEMMA OneWorker ==
  ASSUME TypeOK, NEW w \in Workers, NEW v \in Workers, v # w,
         Uploads(w) \/ Deletions(w) \/ Abandon(w)
  PROVE  Same(v)
<1>1. CASE Uploads(w)
  BY <1>1
  DEF TypeOK, Same, Finish, Goto, Uploads, FindForUpload,
      CreatePendingCipherAttachment, ReserveCipherAttachmentUpload,
      RecheckReservation, PutObject, PutFails, MarkCipherAttachmentUploaded,
      CheckAfterMark, UndoObject, UndoRow
<1>2. CASE Deletions(w)
  BY <1>2
  DEF TypeOK, Same, Finish, Goto, Deletions, FindForDelete,
      ListCipherAttachmentObjectKeys, DeleteR2Objects, DeleteCipherAttachment,
      PermanentlyDeleteCiphers
<1>3. CASE Abandon(w)
  BY <1>3 DEF TypeOK, Same, Finish, Abandon
<1> QED
  BY <1>1, <1>2, <1>3

LEMMA FinishEnds ==
  ASSUME TypeOK, NEW w \in Workers, Finish(w)
  PROVE  Ends(w)
BY DEF TypeOK, Finish, Ends

LEMMA GotoMoves ==
  ASSUME TypeOK, NEW w \in Workers, serving[w].op \in {"direct", "upload"},
         NEW step, Goto(w, step)
  PROVE  /\ serving'[w].op = serving[w].op
         /\ serving'[w].att = serving[w].att
         /\ serving'[w].at = step
<1>1. serving[w] \in Upload
  BY RequestShape
<1>2. serving'[w] = [serving[w] EXCEPT !.at = step]
  BY DEF TypeOK, Goto
<1> QED
  BY <1>1, <1>2 DEF Upload

LEMMA UploadsRequest ==
  ASSUME TypeOK, OwnIds, NEW w \in Workers, Uploads(w)
  PROVE  RequestEffect(w)
<1>1. ASSUME NEW a \in Attachments, NEW c \in Ciphers,
             CreatePendingCipherAttachment(w, c, a)
      PROVE  RequestEffect(w)
  <2>1. PICK direct \in BOOLEAN, answered \in BOOLEAN :
          /\ direct => ~answered
          /\ rows' = [rows EXCEPT ![a] =
               [state |-> "pending", cipher |-> c, known |-> answered, fresh |-> TRUE]]
          /\ serving' = IF direct
                        THEN [serving EXCEPT ![w] =
                               [op |-> "direct", att |-> a, settles |-> TRUE,
                                at |-> "put"]]
                        ELSE serving
    BY <1>1 DEF CreatePendingCipherAttachment
  <2>2. CASE direct
    BY <1>1, <2>1, <2>2 DEF RequestEffect, Draws, TypeOK
  <2>3. CASE ~direct
    BY <2>1, <2>3 DEF RequestEffect, Same
  <2> QED
    BY <2>2, <2>3
<1>2. CASE ReserveCipherAttachmentUpload(w)
  <2>1. /\ serving[w].op = "upload"
        /\ Goto(w, "put") \/ Goto(w, "recheck")
    BY <1>2 DEF ReserveCipherAttachmentUpload, Uploading, OwnIds
  <2> QED
    BY <2>1, GotoMoves DEF RequestEffect, Moves
<1>3. CASE RecheckReservation(w)
  <2>1. serving[w].op = "upload" /\ serving[w] \in Upload
    BY <1>3, RequestShape DEF RecheckReservation, Uploading, OwnIds
  <2>2. CASE Uploaded(serving[w].att)
    <3>1. serving'[w] = [serving[w] EXCEPT !.settles = FALSE, !.at = "put"]
      BY <1>3, <2>2 DEF RecheckReservation, TypeOK
    <3> QED
      BY <2>1, <3>1 DEF RequestEffect, Moves, Upload
  <2> QED
    BY <1>3, <2>2, FinishEnds DEF RecheckReservation, RequestEffect
<1>4. CASE PutObject(w)
  <2>1. serving[w].op \in {"direct", "upload"}
    BY <1>4 DEF PutObject, Uploading
  <2> QED
    BY <1>4, <2>1, GotoMoves, FinishEnds DEF PutObject, RequestEffect, Moves
<1>5. CASE PutFails(w)
  <2>1. serving[w].op \in {"direct", "upload"} /\ serving[w].at = "put"
    BY <1>5 DEF PutFails, Uploading
  <2> QED
    BY <1>5, <2>1, GotoMoves, FinishEnds DEF PutFails, RequestEffect, Moves
<1>6. CASE MarkCipherAttachmentUploaded(w)
  <2>1. serving[w].op \in {"direct", "upload"}
    BY <1>6 DEF MarkCipherAttachmentUploaded, Uploading
  <2> QED
    BY <1>6, <2>1, GotoMoves, FinishEnds
    DEF MarkCipherAttachmentUploaded, RequestEffect, Moves
<1>7. CASE CheckAfterMark(w)
  <2>1. serving[w].op \in {"direct", "upload"} /\ serving[w] \in Upload
    BY <1>7, RequestShape DEF CheckAfterMark, Uploading
  <2>2. CASE Undoes(w, serving[w].att)
    <3>1. serving'[w] =
            [serving[w] EXCEPT !.settles = Pending(serving[w].att), !.at = "undo"]
      BY <1>7, <2>2 DEF CheckAfterMark, TypeOK
    <3> QED
      BY <1>7, <2>1, <2>2, <3>1 DEF CheckAfterMark, RequestEffect, Moves, Upload
  <2> QED
    BY <1>7, <2>2, FinishEnds DEF CheckAfterMark, RequestEffect
<1>8. CASE UndoObject(w)
  <2>1. serving[w].op \in {"direct", "upload"}
    BY <1>8 DEF UndoObject, Uploading
  <2>2. CASE Goto(w, "undo_row")
    <3>1. /\ serving'[w].op = serving[w].op
          /\ serving'[w].att = serving[w].att
          /\ serving'[w].at = "undo_row"
      BY <2>1, <2>2, GotoMoves
    <3> QED
      BY <2>1, <3>1 DEF RequestEffect, Moves
  <2>3. CASE Finish(w)
    BY <2>3, FinishEnds DEF RequestEffect
  <2> QED
    BY <1>8, <2>2, <2>3 DEF UndoObject
<1>9. CASE UndoRow(w)
  BY <1>9, FinishEnds DEF UndoRow, RequestEffect
<1> QED
  BY <1>1, <1>2, <1>3, <1>4, <1>5, <1>6, <1>7, <1>8, <1>9
  DEF Uploads, RequestEffect, Finds

LEMMA DeletionsRequest ==
  ASSUME TypeOK, IdsInUse, NEW w \in Workers, Deletions(w)
  PROVE  Ends(w) \/ Erases(w)
<1>1. ASSUME NEW a \in Attachments, FindForDelete(w, a)
      PROVE  Erases(w)
  <2>1. serving'[w] = [op |-> "delete_attachment", keys |-> {a}, ciphers |-> {},
                       at |-> "objects"]
    BY <1>1 DEF FindForDelete, TypeOK
  <2>2. rows[a] # NoRow
    BY <1>1, RowShape DEF FindForDelete
  <2>3. serving'[w].op = "delete_attachment" /\ serving'[w].keys = {a}
    BY <2>1
  <2> QED
    BY <2>2, <2>3 DEF Erases
<1>2. ASSUME NEW C, ListCipherAttachmentObjectKeys(w, C)
      PROVE  Erases(w)
  <2>1. serving'[w] = [op |-> "delete_ciphers", keys |-> RowsOf(C \cap OwnCiphers),
                       ciphers |-> C, at |-> "objects"]
    BY <1>2 DEF ListCipherAttachmentObjectKeys, TypeOK
  <2>2. \A a \in RowsOf(C \cap OwnCiphers) : rows[a] # NoRow
    BY RowShape DEF RowsOf
  <2>3. /\ serving'[w].op = "delete_ciphers"
        /\ serving'[w].keys = RowsOf(C \cap OwnCiphers)
    BY <2>1
  <2> QED
    BY <2>2, <2>3 DEF Erases
<1>3. CASE DeleteR2Objects(w)
  <2>1. /\ serving[w].op \in {"delete_attachment", "delete_ciphers"}
        /\ serving[w] \in Erasure
    BY <1>3, RequestShape DEF DeleteR2Objects
  <2>2. CASE Finish(w)
    BY <2>2, FinishEnds
  <2>3. CASE Goto(w, "rows")
    <3>1. serving'[w] = [serving[w] EXCEPT !.at = "rows"]
      BY <2>3 DEF Goto, TypeOK
    <3>2. serving'[w].op = serving[w].op /\ serving'[w].keys = serving[w].keys
      BY <2>1, <3>1 DEF Erasure
    <3> QED
      BY <2>1, <3>2 DEF Erases, IdsInUse
  <2> QED
    BY <1>3, <2>2, <2>3 DEF DeleteR2Objects
<1> QED
  BY <1>1, <1>2, <1>3, FinishEnds
  DEF Deletions, DeleteCipherAttachment, PermanentlyDeleteCiphers

LEMMA StepRequest ==
  ASSUME TypeOK, IdsInUse, OwnIds, [Next]_vars, NEW v \in Workers
  PROVE  RequestEffect(v)
<1>1. ASSUME NEW w \in Workers, Uploads(w) \/ Deletions(w) \/ Abandon(w)
      PROVE  RequestEffect(v)
  <2>1. CASE v = w
    BY <1>1, <2>1, UploadsRequest, DeletionsRequest, FinishEnds DEF RequestEffect, Abandon
  <2>2. CASE v # w
    BY <1>1, <2>2, OneWorker DEF RequestEffect
  <2> QED
    BY <2>1, <2>2
<1>2. CASE UNCHANGED serving
  BY <1>2 DEF RequestEffect, Same
<1> QED
  BY <1>1, <1>2
  DEF Next, SoftDeleteCipher, RestoreCipher, SharePersonalCipherWithOrganization,
      Lapse, DeleteExpiredPendingCipherAttachments, vars

-----------------------------------------------------------------------------
(* What the effects on a row preserve *)

LEMMA RowsProgress ==
  ASSUME TypeOK, NEW a \in Attachments, RowEffect(a), rows[a] # NoRow
  PROVE  /\ rows'[a] # NoRow
         /\ ~Stored(a) => rows'[a] = rows[a]
         /\ rows'[a].state = "pending" =>
              Pending(a) /\ rows'[a].known = rows[a].known
         /\ rows'[a].state = "uploaded" /\ ~Uploaded(a) => RowIsMarked(a)
         /\ rows'[a].state \in {"pending", "uploaded"} =>
              /\ Stored(a) /\ rows'[a].cipher = rows[a].cipher
              /\ rows[a].known => rows'[a].known
<1>1. CASE RowStays(a)
  BY <1>1 DEF RowStays, Stored, Pending, Uploaded
<1>2. CASE RowGoes(a)
  BY <1>2, RowShape, RowsAreRows DEF RowGoes, Gone, NoRow
<1>3. CASE RowLapses(a)
  <2>1. rows[a] \in Row
    BY <1>3, RowShape DEF RowLapses, Pending, Stored
  <2>2. rows'[a] = [rows[a] EXCEPT !.fresh = FALSE]
    BY <1>3 DEF RowLapses
  <2>3. /\ rows'[a].state = rows[a].state /\ rows'[a].known = rows[a].known
        /\ rows'[a].cipher = rows[a].cipher
    BY <2>1, <2>2 DEF Row
  <2> QED
    BY <1>3, <2>3 DEF RowLapses, Pending, Stored, Uploaded, NoRow
<1>4. CASE RowIsDrawn(a)
  BY <1>4 DEF RowIsDrawn, CreatePendingCipherAttachment
<1>5. CASE RowIsMarked(a)
  <2>1. rows[a] \in Row
    BY <1>5, RowShape DEF RowIsMarked, Pending, Stored
  <2>2. /\ rows'[a].state = "uploaded" /\ rows'[a].known = TRUE
        /\ rows'[a].cipher = rows[a].cipher
    BY <1>5, <2>1 DEF RowIsMarked, Row
  <2>3. Pending(a)
    BY <1>5 DEF RowIsMarked
  <2>4. rows'[a] # NoRow
    BY <2>2 DEF NoRow
  <2> QED
    BY <1>5, <2>2, <2>3, <2>4 DEF Pending, Stored, Uploaded
<1> QED
  BY <1>1, <1>2, <1>3, <1>4, <1>5 DEF RowEffect

\* A row appears only as a reservation on a cipher of the account.
LEMMA NewRowIsDrawn ==
  ASSUME TypeOK, NEW a \in Attachments, RowEffect(a), rows[a] = NoRow
  PROVE  /\ rows'[a].state \in {"none", "pending"}
         /\ rows'[a].state = "pending" =>
              ciphers[rows'[a].cipher] = "personal" /\ UNCHANGED ciphers
<1>1. CASE RowStays(a)
  BY <1>1 DEF RowStays, NoRow
<1>2. CASE RowIsDrawn(a)
  <2>1. PICK w \in Workers, c \in Ciphers : CreatePendingCipherAttachment(w, c, a)
    BY <1>2 DEF RowIsDrawn
  <2>2. PICK answered \in BOOLEAN : rows'[a] =
          [state |-> "pending", cipher |-> c, known |-> answered, fresh |-> TRUE]
    BY <2>1 DEF CreatePendingCipherAttachment, TypeOK
  <2>3. rows'[a].state = "pending" /\ rows'[a].cipher = c
    BY <2>2
  <2> QED
    BY <2>1, <2>3 DEF CreatePendingCipherAttachment, MayInsert
<1>3. ~Pending(a)
  BY DEF Pending, NoRow
<1> QED
  BY <1>1, <1>2, <1>3 DEF RowEffect, RowGoes, RowLapses, RowIsMarked

\* A request that was uploading before is on the same id.
LEMMA StillUploading ==
  ASSUME TypeOK, NEW v \in Workers, RequestEffect(v),
         serving'[v].op \in {"direct", "upload"},
         ~Draws(v), ~Finds(v)
  PROVE  /\ Same(v) \/ Moves(v)
         /\ serving[v].op = serving'[v].op /\ serving[v].att = serving'[v].att
         /\ serving[v].att \in Attachments
<1>1. ~Ends(v) /\ ~Erases(v)
  BY DEF Ends, Erases, Idle
<1>2. Same(v) \/ Moves(v)
  BY <1>1 DEF RequestEffect
<1>3. serving[v].op = serving'[v].op /\ serving[v].att = serving'[v].att
  BY <1>2 DEF Same, Moves
<1>4. serving[v] \in Upload
  BY <1>3, RequestShape
<1> QED
  BY <1>2, <1>3, <1>4 DEF Upload

LEMMA DrawnRequest ==
  ASSUME TypeOK, NEW v \in Workers, Draws(v)
  PROVE  /\ serving'[v].op = "direct" /\ serving'[v].at = "put"
         /\ serving'[v].att \in Attachments
         /\ rows[serving'[v].att] = NoRow
         /\ rows'[serving'[v].att].state = "pending"
         /\ rows'[serving'[v].att] # NoRow
         /\ ~rows'[serving'[v].att].known
         /\ \A w \in Workers : w # v => Same(w)
<1>1. PICK a \in Attachments, c \in Ciphers :
        /\ CreatePendingCipherAttachment(v, c, a)
        /\ ~rows'[a].known
        /\ serving' = [serving EXCEPT ![v] =
             [op |-> "direct", att |-> a, settles |-> TRUE, at |-> "put"]]
  BY DEF Draws
<1>2. PICK answered \in BOOLEAN :
        rows' = [rows EXCEPT ![a] =
          [state |-> "pending", cipher |-> c, known |-> answered, fresh |-> TRUE]]
  BY <1>1 DEF CreatePendingCipherAttachment
<1>3. rows'[a].state = "pending" /\ rows'[a] # NoRow /\ rows[a] = NoRow
  BY <1>1, <1>2 DEF TypeOK, NoRow, CreatePendingCipherAttachment
<1>4. /\ serving'[v].op = "direct" /\ serving'[v].at = "put"
      /\ serving'[v].att = a
  BY <1>1 DEF TypeOK
<1>5. \A w \in Workers : w # v => Same(w)
  BY <1>1 DEF TypeOK, Same
<1> QED
  BY <1>1, <1>3, <1>4, <1>5

LEMMA FoundRequest ==
  ASSUME TypeOK, NEW v \in Workers, Finds(v)
  PROVE  /\ serving'[v].op = "upload" /\ serving'[v].at \in {"reserve", "put"}
         /\ serving'[v].att \in Attachments
         /\ Stored(serving'[v].att) /\ rows[serving'[v].att].known
         /\ rows[serving'[v].att] # NoRow
         /\ UNCHANGED rows
<1>1. PICK a \in Attachments : FindForUpload(v, a)
  BY DEF Finds
<1>2. serving'[v] = [op |-> "upload", att |-> a, settles |-> Pending(a),
                     at |-> IF Pending(a) THEN "reserve" ELSE "put"]
  BY <1>1 DEF FindForUpload, TypeOK
<1>3. /\ serving'[v].op = "upload" /\ serving'[v].att = a
      /\ serving'[v].at \in {"reserve", "put"}
  BY <1>2
<1> QED
  BY <1>1, <1>3, RowShape DEF FindForUpload

-----------------------------------------------------------------------------
(* Every conjunct of the invariant is preserved *)

LEMMA IdsInUseStep ==
  ASSUME TypeOK, IdsInUse, OwnIds, [Next]_vars
  PROVE  IdsInUse'
<1> SUFFICES ASSUME NEW v \in Workers
             PROVE  /\ serving'[v].op \in {"direct", "upload"}
                         => rows'[serving'[v].att] # NoRow
                    /\ serving'[v].op \in {"delete_attachment", "delete_ciphers"}
                         => \A a \in serving'[v].keys : rows'[a] # NoRow
  BY DEF IdsInUse
<1>1. RequestEffect(v)
  BY StepRequest
<1>2. \A a \in Attachments : rows[a] # NoRow => rows'[a] # NoRow
  BY StepEffect, RowsProgress
<1>3. ASSUME serving'[v].op \in {"direct", "upload"}
      PROVE  rows'[serving'[v].att] # NoRow
  <2>1. CASE Draws(v)
    BY <2>1, DrawnRequest
  <2>2. CASE Finds(v)
    BY <1>2, <2>2, FoundRequest
  <2>3. CASE ~Draws(v) /\ ~Finds(v)
    BY <1>1, <1>2, <1>3, <2>3, StillUploading DEF IdsInUse
  <2> QED
    BY <2>1, <2>2, <2>3
<1>4. ASSUME serving'[v].op \in {"delete_attachment", "delete_ciphers"}
      PROVE  /\ \A a \in serving'[v].keys : rows[a] # NoRow
             /\ serving'[v].keys \subseteq Attachments
  <2>1. TypeOK'
    BY TypeStep
  <2>2. serving'[v].keys \subseteq Attachments
    BY <1>4, <2>1, RequestShape DEF TypeOK, Upload, Erasure, Idle
  <2>3. Same(v) \/ Erases(v)
    BY <1>1, <1>4, DrawnRequest, FoundRequest
    DEF RequestEffect, Ends, Moves, Idle
  <2> QED
    BY <1>4, <2>2, <2>3 DEF Same, Erases, IdsInUse
<1> QED
  BY <1>2, <1>3, <1>4

\* While a direct upload writes or undoes, nobody else is about to mark its row.
LEMMA MarkersAreAlone ==
  ASSUME TypeOK, KnownIds, OwnIds, NEW w \in Workers, NEW v \in Workers,
         Uploading(w, "mark"), Pending(serving[w].att),
         serving[v].op = "direct", serving[v].att = serving[w].att
  PROVE  v = w
<1>1. Stored(serving[w].att)
  BY DEF Pending, Stored
<1>2. CASE serving[w].op = "direct"
  BY <1>2 DEF OwnIds
<1>3. CASE serving[w].op = "upload"
  BY <1>1, <1>3 DEF KnownIds, OwnIds
<1> QED
  BY <1>2, <1>3 DEF Uploading

LEMMA KnownIdsStep ==
  ASSUME TypeOK, IdsInUse, KnownIds, OwnIds, [Next]_vars
  PROVE  KnownIds'
<1> SUFFICES ASSUME NEW v \in Workers, serving'[v].op = "upload",
                    rows'[serving'[v].att].state \in {"pending", "uploaded"}
             PROVE  rows'[serving'[v].att].known
  BY DEF KnownIds, Stored
<1> DEFINE a == serving'[v].att
<1>1. RequestEffect(v)
  BY StepRequest
<1>2. ~Draws(v)
  BY DrawnRequest
<1>3. CASE Finds(v)
  BY <1>3, FoundRequest
<1>4. CASE ~Finds(v)
  <2>1. serving[v].op = "upload" /\ serving[v].att = a /\ a \in Attachments
    BY <1>1, <1>2, <1>4, StillUploading
  <2>2. RowEffect(a) /\ rows[a] # NoRow
    BY <2>1, StepEffect DEF IdsInUse
  <2>3. Stored(a) /\ (rows[a].known => rows'[a].known)
    BY <2>1, <2>2, RowsProgress
  <2> QED
    BY <2>1, <2>3 DEF KnownIds
<1> QED
  BY <1>3, <1>4

LEMMA OwnIdsStep ==
  ASSUME TypeOK, IdsInUse, KnownIds, OwnIds, [Next]_vars
  PROVE  OwnIds'
<1> SUFFICES ASSUME NEW w \in Workers, serving'[w].op = "direct"
             PROVE  /\ serving'[w].at \notin {"reserve", "recheck"}
                    /\ rows'[serving'[w].att].state = "pending"
                         => ~rows'[serving'[w].att].known
                    /\ \A v \in Workers :
                         serving'[v].op = "direct" /\ serving'[v].att = serving'[w].att
                           => v = w
  BY DEF OwnIds, Pending
<1>1. \A v \in Workers : RequestEffect(v)
  BY StepRequest
<1>2. ASSUME NEW v \in Workers, serving'[v].op = "direct", ~Draws(v)
      PROVE  /\ serving[v].op = "direct" /\ serving[v].att = serving'[v].att
             /\ serving[v].att \in Attachments
             /\ rows[serving[v].att] # NoRow
             /\ Same(v) \/ Moves(v)
  <2>1. ~Finds(v)
    BY <1>2, FoundRequest
  <2> QED
    BY <1>1, <1>2, <2>1, StillUploading DEF IdsInUse
<1>3. CASE Draws(w)
  <2>1. \A v \in Workers : v # w => Same(v)
    BY <1>3, DrawnRequest
  <2>2. ASSUME NEW v \in Workers, v # w, serving'[v].op = "direct",
               serving'[v].att = serving'[w].att
        PROVE  FALSE
    <3>1. serving[v].op = "direct" /\ serving[v].att = serving'[w].att
      BY <2>1, <2>2 DEF Same
    <3> QED
      BY <1>3, <3>1, DrawnRequest DEF IdsInUse
  <2> QED
    BY <1>3, <2>2, DrawnRequest
<1>4. CASE ~Draws(w)
  <2>1. /\ serving[w].op = "direct" /\ serving[w].att = serving'[w].att
        /\ serving[w].att \in Attachments /\ rows[serving[w].att] # NoRow
        /\ Same(w) \/ Moves(w)
    BY <1>2, <1>4
  <2>2. serving'[w].at \notin {"reserve", "recheck"}
    BY <2>1 DEF Same, Moves, OwnIds
  <2>3. rows'[serving'[w].att].state = "pending" => ~rows'[serving'[w].att].known
    BY <2>1, StepEffect, RowsProgress DEF OwnIds
  <2>4. ASSUME NEW v \in Workers, serving'[v].op = "direct",
               serving'[v].att = serving'[w].att
        PROVE  v = w
    <3>1. ~Draws(v)
      BY <2>1, <2>4, DrawnRequest
    <3> QED
      BY <1>2, <2>1, <2>4, <3>1 DEF OwnIds
  <2> QED
    BY <2>2, <2>3, <2>4
<1> QED
  BY <1>3, <1>4

\* Only an undoing takes an object without recording it.
LEMMA ObjectEffect ==
  ASSUME TypeOK, [Next]_vars, NEW a \in objects \cup erased, a \notin objects' \cup erased'
  PROVE  \E w \in Workers : Uploading(w, "undo") /\ serving[w].att = a
<1>1. ASSUME NEW w \in Workers, Uploads(w) PROVE UndoObject(w)
  BY <1>1
  DEF Uploads, FindForUpload, CreatePendingCipherAttachment,
      ReserveCipherAttachmentUpload, RecheckReservation, PutObject, PutFails,
      MarkCipherAttachmentUploaded, CheckAfterMark, UndoRow
<1>2. ASSUME NEW w \in Workers, Deletions(w) PROVE FALSE
  BY <1>2
  DEF Deletions, FindForDelete, ListCipherAttachmentObjectKeys, DeleteR2Objects,
      DeleteCipherAttachment, PermanentlyDeleteCiphers
<1>3. ~UNCHANGED <<objects, erased>>
  OBVIOUS
<1>4. \E w \in Workers : Uploads(w) \/ Deletions(w)
  BY <1>3
  DEF Next, Abandon, SoftDeleteCipher, RestoreCipher,
      SharePersonalCipherWithOrganization, Lapse,
      DeleteExpiredPendingCipherAttachments, vars
<1> QED
  BY <1>1, <1>2, <1>4 DEF UndoObject

\* The object behind a pending row that is about to be marked stays.
LEMMA MarkedKeepsBytes ==
  ASSUME TypeOK, KnownIds, OwnIds, MarksStored, UndoesUnshown, [Next]_vars,
         NEW w \in Workers, Uploading(w, "mark"), Pending(serving[w].att)
  PROVE  serving[w].att \in objects' \cup erased'
<1> DEFINE a == serving[w].att
<1> SUFFICES ASSUME a \notin objects' \cup erased'
             PROVE  FALSE
  OBVIOUS
<1>1. a \in objects \cup erased
  BY DEF MarksStored
<1>2. PICK v \in Workers : Uploading(v, "undo") /\ serving[v].att = a
  BY <1>1, ObjectEffect
<1>3. CASE serving[v].op = "direct"
  <2>1. v = w
    BY <1>2, <1>3, MarkersAreAlone
  <2> QED
    BY <1>2, <2>1 DEF Uploading
<1>4. CASE serving[v].op = "upload"
  BY <1>2, <1>4 DEF UndoesUnshown, Uploading, Pending, Stored
<1> QED
  BY <1>2, <1>3, <1>4 DEF Uploading

LEMMA MarksStoredStep ==
  ASSUME TypeOK, IdsInUse, KnownIds, OwnIds, MarksStored, UndoesUnshown, [Next]_vars
  PROVE  MarksStored'
<1> SUFFICES ASSUME NEW v \in Workers, serving'[v].op \in {"direct", "upload"},
                    serving'[v].at = "mark",
                    rows'[serving'[v].att].state = "pending"
             PROVE  serving'[v].att \in objects' \cup erased'
  BY DEF MarksStored, Uploading, Pending
<1>1. RequestEffect(v) /\ ~Draws(v) /\ ~Finds(v)
  BY StepRequest, DrawnRequest, FoundRequest
<1>2. /\ Same(v) \/ Moves(v)
      /\ serving[v].op = serving'[v].op /\ serving[v].att = serving'[v].att
      /\ serving[v].att \in Attachments
  BY <1>1, StillUploading
<1>3. CASE Moves(v)
  BY <1>2, <1>3 DEF Moves
<1>4. CASE Same(v)
  <2>1. Uploading(v, "mark")
    BY <1>2, <1>4 DEF Same, Uploading
  <2>2. RowEffect(serving[v].att) /\ rows[serving[v].att] # NoRow
    BY <1>2, StepEffect DEF IdsInUse
  <2>3. Pending(serving[v].att)
    BY <1>2, <2>2, RowsProgress
  <2> QED
    BY <1>2, <2>1, <2>3, MarkedKeepsBytes
<1> QED
  BY <1>2, <1>3, <1>4

LEMMA UndoesUnshownStep ==
  ASSUME TypeOK, IdsInUse, KnownIds, OwnIds, UndoesUnshown, [Next]_vars
  PROVE  UndoesUnshown'
<1>1. \A v \in Workers : RequestEffect(v)
  BY StepRequest
<1>2. ASSUME NEW v \in Workers, serving'[v].op = "direct",
             serving'[v].at \in {"put", "undo"}
      PROVE  rows'[serving'[v].att].state # "uploaded"
  <2>1. CASE Draws(v)
    BY <2>1, DrawnRequest
  <2>2. CASE ~Draws(v)
    <3>1. /\ Same(v) \/ Moves(v)
          /\ serving[v].op = "direct" /\ serving[v].att = serving'[v].att
          /\ serving[v].att \in Attachments
      BY <1>1, <1>2, <2>2, StillUploading, FoundRequest
    <3>2. CASE Moves(v)
      <4>1. ~Uploaded(serving[v].att) /\ UNCHANGED rows
        BY <1>2, <3>1, <3>2 DEF Moves, Undoes, UndoesUnshown
      <4> QED
        BY <3>1, <4>1 DEF Uploaded
    <3>3. CASE Same(v)
      <4>1. serving[v].at \in {"put", "undo"}
        BY <1>2, <3>3 DEF Same
      <4>2. ~Uploaded(serving[v].att)
        BY <3>1, <4>1 DEF UndoesUnshown
      <4>3. ~RowIsMarked(serving[v].att)
        <5>1. SUFFICES ASSUME RowIsMarked(serving[v].att)
                       PROVE  FALSE
          OBVIOUS
        <5>2. PICK w \in Workers :
                Uploading(w, "mark") /\ serving[w].att = serving[v].att
          BY <5>1 DEF RowIsMarked
        <5>3. Pending(serving[w].att)
          BY <5>1, <5>2 DEF RowIsMarked
        <5>4. v = w
          BY <3>1, <5>2, <5>3, MarkersAreAlone
        <5> QED
          BY <4>1, <5>2, <5>4 DEF Uploading
      <4>4. RowEffect(serving[v].att) /\ rows[serving[v].att] # NoRow
        BY <3>1, StepEffect DEF IdsInUse
      <4> QED
        BY <3>1, <4>2, <4>3, <4>4, RowsProgress
    <3> QED
      BY <3>1, <3>2, <3>3
  <2> QED
    BY <2>1, <2>2
<1>3. ASSUME NEW v \in Workers, serving'[v].op = "upload", serving'[v].at = "undo"
      PROVE  rows'[serving'[v].att].state \notin {"pending", "uploaded"}
  <2>1. /\ Same(v) \/ Moves(v)
        /\ serving[v].op = "upload" /\ serving[v].att = serving'[v].att
        /\ serving[v].att \in Attachments
    BY <1>1, <1>3, StillUploading, DrawnRequest, FoundRequest
  <2>2. CASE Moves(v)
    BY <1>3, <2>1, <2>2 DEF Moves, Undoes, Stored
  <2>3. CASE Same(v)
    <3>1. ~Stored(serving[v].att)
      BY <1>3, <2>1, <2>3 DEF Same, UndoesUnshown
    <3>2. RowEffect(serving[v].att) /\ rows[serving[v].att] # NoRow
      BY <2>1, StepEffect DEF IdsInUse
    <3> QED
      BY <2>1, <3>1, <3>2, RowsProgress DEF Stored
  <2> QED
    BY <2>1, <2>2, <2>3
<1> QED
  BY <1>2, <1>3 DEF UndoesUnshown, Uploaded, Stored

LEMMA UploadedHasBytesStep ==
  ASSUME TypeOK, UploadedHasBytes, IdsInUse, KnownIds, OwnIds, MarksStored,
         UndoesUnshown, [Next]_vars
  PROVE  UploadedHasBytes'
<1> SUFFICES ASSUME NEW a \in Attachments, rows'[a].state = "uploaded"
             PROVE  a \in objects' \cup erased'
  BY DEF UploadedHasBytes, Uploaded
<1>1. RowEffect(a)
  BY StepEffect
<1>2. rows[a] # NoRow
  BY <1>1, NewRowIsDrawn
<1>3. CASE Uploaded(a)
  <2>1. a \in objects \cup erased
    BY <1>3 DEF UploadedHasBytes
  <2>2. ASSUME NEW w \in Workers, Uploading(w, "undo"), serving[w].att = a
        PROVE  FALSE
    BY <1>3, <2>2 DEF UndoesUnshown, Uploading, Uploaded, Stored
  <2> QED
    BY <2>1, <2>2, ObjectEffect
<1>4. CASE ~Uploaded(a)
  <2>1. RowIsMarked(a)
    BY <1>1, <1>2, <1>4, RowsProgress
  <2>2. PICK w \in Workers : Uploading(w, "mark") /\ serving[w].att = a
    BY <2>1 DEF RowIsMarked
  <2> QED
    BY <2>1, <2>2, MarkedKeepsBytes DEF RowIsMarked
<1> QED
  BY <1>3, <1>4

\* Where no cipher changes state, rows stay on the ciphers of the account.
LEMMA SameCiphersOwn ==
  ASSUME TypeOK, AttachmentsOfOwnCiphers, IdsInUse, [Next]_vars, UNCHANGED ciphers
  PROVE  AttachmentsOfOwnCiphers'
<1> SUFFICES ASSUME NEW a \in Attachments, rows'[a].state \in {"pending", "uploaded"}
             PROVE  ciphers[rows'[a].cipher] \in {"personal", "trashed"}
  BY DEF AttachmentsOfOwnCiphers, Stored
<1>1. RowEffect(a)
  BY StepEffect
<1>2. CASE rows[a] = NoRow
  BY <1>1, <1>2, NewRowIsDrawn
<1>3. CASE rows[a] # NoRow
  BY <1>1, <1>3, RowsProgress DEF AttachmentsOfOwnCiphers
<1> QED
  BY <1>2, <1>3

\* A cipher that is shared or deleted for good has no row left.
LEMMA OneCipherOwn ==
  ASSUME TypeOK, AttachmentsOfOwnCiphers, UNCHANGED rows, NEW c \in Ciphers,
         NEW state, ciphers' = [ciphers EXCEPT ![c] = state],
         state \in {"personal", "trashed"} \/ RowsOf({c}) = {}
  PROVE  AttachmentsOfOwnCiphers'
<1> SUFFICES ASSUME NEW a \in Attachments, Stored(a)
             PROVE  ciphers'[rows[a].cipher] \in {"personal", "trashed"}
  BY DEF AttachmentsOfOwnCiphers, Stored
<1>1. rows[a].cipher \in Ciphers
  BY RowShape DEF Row
<1>2. CASE rows[a].cipher = c
  <2>1. a \in RowsOf({c})
    BY <1>2 DEF RowsOf
  <2>2. ciphers'[c] = state
    BY DEF TypeOK
  <2> QED
    BY <1>2, <2>1, <2>2
<1>3. CASE rows[a].cipher # c
  BY <1>1, <1>3 DEF TypeOK, AttachmentsOfOwnCiphers
<1> QED
  BY <1>2, <1>3

LEMMA AttachmentsOfOwnCiphersStep ==
  ASSUME TypeOK, AttachmentsOfOwnCiphers, IdsInUse, [Next]_vars
  PROVE  AttachmentsOfOwnCiphers'
<1>1. ASSUME NEW w \in Workers, PermanentlyDeleteCiphers(w)
      PROVE  AttachmentsOfOwnCiphers'
  <2> DEFINE gone == serving[w].ciphers \cap OwnCiphers
  <2> SUFFICES ASSUME NEW a \in Attachments,
                      rows'[a].state \in {"pending", "uploaded"}
               PROVE  ciphers'[rows'[a].cipher] \in {"personal", "trashed"}
    BY DEF AttachmentsOfOwnCiphers, Stored
  <2>1. rows' = Removed(RowsOf(gone))
    BY <1>1 DEF PermanentlyDeleteCiphers
  <2>2. rows'[a] = rows[a] /\ a \notin RowsOf(gone)
    BY <2>1 DEF Removed, Gone
  <2>3. Stored(a)
    BY <2>2 DEF Stored
  <2>4. rows[a].cipher \in Ciphers /\ rows[a].cipher \notin gone
    BY <2>2, <2>3, RowShape DEF RowsOf, Row
  <2>5. ciphers'[rows[a].cipher] = ciphers[rows[a].cipher]
    BY <1>1, <2>4 DEF PermanentlyDeleteCiphers
  <2> QED
    BY <2>2, <2>3, <2>5 DEF AttachmentsOfOwnCiphers
<1>2. ASSUME NEW c \in Ciphers, SoftDeleteCipher(c)
      PROVE  AttachmentsOfOwnCiphers'
  BY <1>2, OneCipherOwn DEF SoftDeleteCipher
<1>3. ASSUME NEW c \in Ciphers, RestoreCipher(c)
      PROVE  AttachmentsOfOwnCiphers'
  BY <1>3, OneCipherOwn DEF RestoreCipher
<1>4. ASSUME NEW c \in Ciphers, SharePersonalCipherWithOrganization(c)
      PROVE  AttachmentsOfOwnCiphers'
  BY <1>4, OneCipherOwn DEF SharePersonalCipherWithOrganization, MayShare
<1>5. ASSUME NEW w \in Workers, Uploads(w) \/ Deletions(w) \/ Abandon(w),
             ~PermanentlyDeleteCiphers(w)
      PROVE  UNCHANGED ciphers
  BY <1>5
  DEF Uploads, FindForUpload, CreatePendingCipherAttachment,
      ReserveCipherAttachmentUpload, RecheckReservation, PutObject, PutFails,
      MarkCipherAttachmentUploaded, CheckAfterMark, UndoObject, UndoRow,
      Deletions, FindForDelete, ListCipherAttachmentObjectKeys, DeleteR2Objects,
      DeleteCipherAttachment, Abandon
<1> QED
  BY <1>1, <1>2, <1>3, <1>4, <1>5, SameCiphersOwn
  DEF Next, Lapse, DeleteExpiredPendingCipherAttachments, vars

-----------------------------------------------------------------------------
(* The quota *)

\* A reservation that is not in force was not in force before, or nobody held a
\* lease on it.
LEMMA FreshStep ==
  ASSUME TypeOK, NEW a \in Attachments, RowEffect(a),
         rows'[a].state = "pending", ~rows'[a].fresh
  PROVE  Pending(a) /\ (rows[a].fresh => ~Leased(a))
<1>1. CASE RowStays(a)
  BY <1>1 DEF RowStays, Pending
<1>2. CASE RowGoes(a)
  BY <1>2 DEF RowGoes, Gone
<1>3. CASE RowLapses(a)
  BY <1>3 DEF RowLapses
<1>4. CASE RowIsDrawn(a)
  BY <1>4 DEF RowIsDrawn, CreatePendingCipherAttachment, TypeOK
<1>5. CASE RowIsMarked(a)
  <2>1. rows[a] \in Row
    BY <1>5, RowShape DEF RowIsMarked, Pending, Stored
  <2>2. rows'[a].state = "uploaded"
    BY <1>5, <2>1 DEF RowIsMarked, Row
  <2> QED
    BY <2>2
<1> QED
  BY <1>1, <1>2, <1>3, <1>4, <1>5 DEF RowEffect

\* What a step makes of the lease of a worker.
LeaseEffect(v) ==
  /\ serving'[v].op \in {"direct", "upload"} /\ serving'[v].at \in {"mark", "check"}
       => serving'[v].settles
  /\ Settling(serving'[v]) =>
       \/ Settling(serving[v]) /\ serving[v].att = serving'[v].att
       \/ rows'[serving'[v].att].fresh
       \/ rows'[serving'[v].att].state # "pending"

LEMMA UploadsLease ==
  ASSUME TypeOK, LeasesHold, NEW v \in Workers, Uploads(v)
  PROVE  LeaseEffect(v)
<1> DEFINE r == serving[v]
<1>0. ASSUME Finish(v)
      PROVE  LeaseEffect(v)
  BY <1>0 DEF Finish, TypeOK, Idle, LeaseEffect, Settling
<1>a. ASSUME r.op \in {"direct", "upload"}
      PROVE  /\ r.att \in Attachments
             /\ r.at \in {"mark", "check"} => r.settles
             /\ \A step : [r EXCEPT !.at = step].op = r.op
                          /\ [r EXCEPT !.at = step].att = r.att
                          /\ [r EXCEPT !.at = step].settles = r.settles
                          /\ [r EXCEPT !.at = step].at = step
             /\ \A settles, step :
                  LET next == [r EXCEPT !.settles = settles, !.at = step] IN
                  next.op = r.op /\ next.att = r.att
                  /\ next.settles = settles /\ next.at = step
  <2>1. r \in Upload
    BY <1>a, RequestShape
  <2> QED
    BY <1>a, <2>1 DEF Upload, LeasesHold
<1>b. ASSUME r.op \in {"direct", "upload"}, NEW step, Goto(v, step)
      PROVE  /\ serving'[v].op = r.op /\ serving'[v].att = r.att
             /\ serving'[v].settles = r.settles /\ serving'[v].at = step
  <2>1. serving'[v] = [r EXCEPT !.at = step]
    BY <1>b DEF Goto, TypeOK
  <2> QED
    BY <1>b, <1>a, <2>1
<1>1. ASSUME NEW a \in Attachments, FindForUpload(v, a)
      PROVE  LeaseEffect(v)
  BY <1>1 DEF FindForUpload, TypeOK, LeaseEffect, Settling, Pending
<1>2. ASSUME NEW a \in Attachments, NEW c \in Ciphers,
             CreatePendingCipherAttachment(v, c, a)
      PROVE  LeaseEffect(v)
  <2>1. rows'[a].fresh
    BY <1>2 DEF CreatePendingCipherAttachment, TypeOK
  <2>2. \/ serving' = serving /\ serving[v] = Idle
        \/ serving'[v] = [op |-> "direct", att |-> a, settles |-> TRUE, at |-> "put"]
    BY <1>2 DEF CreatePendingCipherAttachment, TypeOK
  <2> QED
    BY <2>1, <2>2 DEF LeaseEffect, Settling, Idle
<1>3. CASE ReserveCipherAttachmentUpload(v)
  <2>1. r.op \in {"direct", "upload"} /\ r.att \in Attachments
    BY <1>3, <1>a DEF ReserveCipherAttachmentUpload, Uploading
  <2>2. CASE MayReserve(r.att)
    <3>1. rows[r.att] \in Row
      BY <2>1, <2>2, RowShape DEF MayReserve, Pending, Stored
    <3>2. rows'[r.att].fresh
      BY <1>3, <2>1, <2>2, <3>1 DEF ReserveCipherAttachmentUpload, TypeOK, Row
    <3>3. Goto(v, "put")
      BY <1>3, <2>2 DEF ReserveCipherAttachmentUpload
    <3> QED
      BY <1>b, <2>1, <3>2, <3>3 DEF LeaseEffect
  <2>3. CASE ~MayReserve(r.att)
    <3>1. Goto(v, "recheck")
      BY <1>3, <2>3 DEF ReserveCipherAttachmentUpload
    <3> QED
      BY <1>b, <2>1, <3>1 DEF LeaseEffect, Settling
  <2> QED
    BY <2>2, <2>3
<1>4. CASE RecheckReservation(v)
  <2>1. r.op \in {"direct", "upload"}
    BY <1>4 DEF RecheckReservation, Uploading
  <2>2. Finish(v) \/ serving'[v] = [r EXCEPT !.settles = FALSE, !.at = "put"]
    BY <1>4 DEF RecheckReservation, TypeOK
  <2>3. CASE serving'[v] = [r EXCEPT !.settles = FALSE, !.at = "put"]
    BY <1>a, <2>1, <2>3 DEF LeaseEffect, Settling
  <2> QED
    BY <1>0, <2>2, <2>3
<1>5. CASE PutObject(v) \/ PutFails(v) \/ MarkCipherAttachmentUploaded(v) \/ UndoObject(v)
  <2>1. /\ r.op \in {"direct", "upload"}
        /\ r.at \notin {"reserve", "recheck"}
        /\ \/ Finish(v)
           \/ Goto(v, "mark") /\ r.settles
           \/ Goto(v, "check") /\ r.settles
           \/ Goto(v, "undo")
           \/ Goto(v, "undo_row")
    BY <1>5, <1>a
    DEF PutObject, PutFails, MarkCipherAttachmentUploaded, UndoObject, Uploading
  <2>2. ASSUME NEW step \in {"mark", "check", "undo", "undo_row"}, Goto(v, step),
               step \in {"mark", "check"} => r.settles
        PROVE  LeaseEffect(v)
    BY <1>b, <2>1, <2>2 DEF LeaseEffect, Settling
  <2> QED
    BY <1>0, <2>1, <2>2
<1>6. CASE CheckAfterMark(v)
  <2>1. r.op \in {"direct", "upload"} /\ r.at = "check" /\ r.settles
    BY <1>6, <1>a DEF CheckAfterMark, Uploading
  <2>2. \/ Finish(v)
        \/ serving'[v] = [r EXCEPT !.settles = Pending(r.att), !.at = "undo"]
    BY <1>6 DEF CheckAfterMark, TypeOK
  <2>3. CASE serving'[v] = [r EXCEPT !.settles = Pending(r.att), !.at = "undo"]
    BY <1>a, <2>1, <2>3 DEF LeaseEffect, Settling
  <2> QED
    BY <1>0, <2>2, <2>3
<1>7. CASE UndoRow(v)
  BY <1>0, <1>7 DEF UndoRow
<1> QED
  BY <1>1, <1>2, <1>3, <1>4, <1>5, <1>6, <1>7 DEF Uploads

LEMMA StepLease ==
  ASSUME TypeOK, LeasesHold, [Next]_vars, NEW v \in Workers
  PROVE  LeaseEffect(v)
<1>1. CASE Same(v)
  BY <1>1 DEF Same, LeaseEffect, LeasesHold
<1>2. ASSUME Deletions(v) \/ Abandon(v)
      PROVE  LeaseEffect(v)
  <2>1. CASE Finish(v)
    BY <2>1 DEF Finish, TypeOK, LeaseEffect, Settling, Idle
  <2>2. CASE serving'[v].op \in {"delete_attachment", "delete_ciphers"}
    BY <2>2 DEF LeaseEffect, Settling
  <2>3. ASSUME DeleteR2Objects(v), Goto(v, "rows")
        PROVE  serving'[v].op \in {"delete_attachment", "delete_ciphers"}
    <3>1. serving[v] \in Erasure
      BY <2>3, RequestShape DEF DeleteR2Objects
    <3>2. serving'[v] = [serving[v] EXCEPT !.at = "rows"]
      BY <2>3 DEF Goto, TypeOK
    <3> QED
      BY <3>1, <3>2 DEF Erasure
  <2>4. ASSUME NEW a \in Attachments, FindForDelete(v, a)
        PROVE  serving'[v].op = "delete_attachment"
    BY <2>4 DEF FindForDelete, TypeOK
  <2>5. ASSUME NEW C, ListCipherAttachmentObjectKeys(v, C)
        PROVE  serving'[v].op = "delete_ciphers"
    BY <2>5 DEF ListCipherAttachmentObjectKeys, TypeOK
  <2> QED
    BY <1>2, <2>1, <2>2, <2>3, <2>4, <2>5
    DEF Deletions, DeleteR2Objects, DeleteCipherAttachment, PermanentlyDeleteCiphers,
        Abandon
<1> QED
  BY <1>1, <1>2, UploadsLease, OneWorker
  DEF Next, SoftDeleteCipher, RestoreCipher, SharePersonalCipherWithOrganization,
      Lapse, DeleteExpiredPendingCipherAttachments, vars, Same

LEMMA LeasesHoldStep ==
  ASSUME TypeOK, IdsInUse, LeasesHold, [Next]_vars
  PROVE  LeasesHold'
<1> SUFFICES ASSUME NEW w \in Workers
             PROVE  /\ serving'[w].op \in {"direct", "upload"}
                       /\ serving'[w].at \in {"mark", "check"} => serving'[w].settles
                    /\ Settling(serving'[w]) /\ rows'[serving'[w].att].state = "pending"
                         => rows'[serving'[w].att].fresh
  BY DEF LeasesHold, Settling, Pending
<1>1. LeaseEffect(w)
  BY StepLease
<1>2. ASSUME Settling(serving[w]), rows'[serving[w].att].state = "pending",
             ~rows'[serving[w].att].fresh
      PROVE  FALSE
  <2>1. serving[w].att \in Attachments
    BY <1>2, RequestShape DEF Settling, Upload
  <2>2. Pending(serving[w].att) /\ (rows[serving[w].att].fresh => ~Leased(serving[w].att))
    BY <1>2, <2>1, StepEffect, FreshStep
  <2>3. Leased(serving[w].att)
    BY <1>2 DEF Settling, Leased
  <2> QED
    BY <1>2, <2>2, <2>3 DEF LeasesHold
<1> QED
  BY <1>1, <1>2 DEF LeaseEffect

\* A row that counts after a step counted before it, unless it was drawn.
LEMMA CountedStep ==
  ASSUME TypeOK, IdsInUse, LeasesHold, [Next]_vars, NEW a \in Attachments,
         ~RowIsDrawn(a), a \in Counted(Attachments)'
  PROVE  a \in Counted(Attachments)
<1>1. RowEffect(a)
  BY StepEffect
<1>2. \/ rows'[a].state = "uploaded"
      \/ rows'[a].state = "pending" /\ rows'[a].fresh
  BY DEF Counted, Uploaded, Pending
<1>3. CASE RowStays(a)
  BY <1>2, <1>3 DEF RowStays, Counted, Uploaded, Pending
<1>4. CASE RowGoes(a)
  BY <1>2, <1>4 DEF RowGoes, Gone
<1>5. CASE RowLapses(a)
  <2>1. rows[a] \in Row
    BY <1>5, RowShape DEF RowLapses, Pending, Stored
  <2>2. rows'[a].state = rows[a].state /\ ~rows'[a].fresh
    BY <1>5, <2>1 DEF RowLapses, Row
  <2> QED
    BY <1>2, <1>5, <2>2 DEF RowLapses, Pending
<1>6. CASE RowIsMarked(a)
  <2>1. PICK w \in Workers : Uploading(w, "mark") /\ serving[w].att = a
    BY <1>6 DEF RowIsMarked
  <2>2. rows[a].fresh
    BY <1>6, <2>1 DEF LeasesHold, Uploading, Settling, RowIsMarked
  <2> QED
    BY <1>6, <2>2 DEF RowIsMarked, Counted
<1> QED
  BY <1>1, <1>3, <1>4, <1>5, <1>6 DEF RowEffect

\* The bytes of a set with one more row are its bytes and those of the row.
LEMMA BytesOfOneMore ==
  ASSUME NEW S, NEW a \in Attachments, NEW T, T \subseteq S \cup {a}
  PROVE  Bytes(T) \subseteq Bytes(S) \cup ({a} \X (1..Size[a]))
BY DEF Bytes

LEMMA SizeInBytes ==
  ASSUME NEW a \in Attachments
  PROVE  /\ IsFiniteSet({a} \X (1..Size[a]))
         /\ Cardinality({a} \X (1..Size[a])) = Size[a]
<1>1. Size[a] \in Nat
  BY SizesAreNatural
<1>2. IsFiniteSet(1..Size[a]) /\ Cardinality(1..Size[a]) = Size[a]
  BY <1>1, FS_Interval
<1>3. IsFiniteSet({a}) /\ Cardinality({a}) = 1
  BY FS_Singleton
<1>4. /\ IsFiniteSet({a} \X (1..Size[a]))
      /\ Cardinality({a} \X (1..Size[a])) = Cardinality({a}) * Cardinality(1..Size[a])
  BY <1>2, <1>3, FS_Product
<1> QED
  BY <1>1, <1>2, <1>3, <1>4

LEMMA QuotaHoldsStep ==
  ASSUME TypeOK, IdsInUse, LeasesHold, QuotaHolds, [Next]_vars
  PROVE  QuotaHolds'
<1> DEFINE Before == Bytes(Counted(Attachments))
           After  == Bytes(Counted(Attachments)')
<1>1. IsFiniteSet(Before) /\ Cardinality(Before) <= MaxStorage
  BY DEF QuotaHolds, InForce, StorageWithinQuota, Used
<1>2. Cardinality(Before) \in Nat /\ MaxStorage \in Nat
  BY <1>1, FS_CardinalityType, LimitsAreNatural
<1>3. CASE \A a \in Attachments : ~RowIsDrawn(a)
  <2>1. Counted(Attachments)' \subseteq Counted(Attachments)
    BY <1>3, CountedStep DEF Counted
  <2>2. After \subseteq Before
    BY <2>1 DEF Bytes
  <2>3. IsFiniteSet(After) /\ Cardinality(After) <= Cardinality(Before)
    BY <1>1, <2>2, FS_Subset
  <2>4. Cardinality(After) \in Nat
    BY <2>3, FS_CardinalityType
  <2> QED
    BY <1>1, <1>2, <2>3, <2>4 DEF QuotaHolds, InForce, StorageWithinQuota, Used, Bytes
<1>4. ASSUME NEW a \in Attachments, RowIsDrawn(a)
      PROVE  QuotaHolds'
  <2>1. PICK w \in Workers, c \in Ciphers : CreatePendingCipherAttachment(w, c, a)
    BY <1>4 DEF RowIsDrawn
  <2>2. \A b \in Attachments \ {a} : rows'[b] = rows[b]
    BY <2>1 DEF CreatePendingCipherAttachment, TypeOK
  <2>3. Counted(Attachments)' \subseteq Counted(Attachments) \cup {a}
    BY <2>2 DEF Counted, Uploaded, Pending
  <2> DEFINE Own == {a} \X (1..Size[a])
  <2>4. After \subseteq Before \cup Own
    BY <2>3, BytesOfOneMore
  <2>5. IsFiniteSet(Own) /\ Cardinality(Own) = Size[a]
    BY SizeInBytes
  <2>6. /\ IsFiniteSet(Before \cup Own)
        /\ Cardinality(Before \cup Own)
             = Cardinality(Before) + Size[a] - Cardinality(Before \cap Own)
    BY <1>1, <2>5, FS_Union
  <2>7. Cardinality(Before \cap Own) \in Nat
    BY <1>1, FS_Subset, FS_CardinalityType
  <2>8. Cardinality(Before \cup Own) <= Cardinality(Before) + Size[a]
    BY <1>2, <2>6, <2>7, SizesAreNatural
  <2>9. IsFiniteSet(After) /\ Cardinality(After) <= Cardinality(Before \cup Own)
    BY <2>4, <2>6, FS_Subset
  <2>10. Cardinality(After) \in Nat /\ Cardinality(Before \cup Own) \in Nat
    BY <2>6, <2>9, FS_CardinalityType
  <2>11. Size[a] + Cardinality(Before) <= MaxStorage
    BY <2>1 DEF CreatePendingCipherAttachment, Fits, Used
  <2>12. Cardinality(After) <= MaxStorage
    BY <1>2, <2>8, <2>9, <2>10, <2>11, SizesAreNatural
  <2> QED
    BY <2>9, <2>12 DEF QuotaHolds, InForce, StorageWithinQuota, Used, Bytes
<1> QED
  BY <1>3, <1>4

-----------------------------------------------------------------------------
(* Theorems *)

LEMMA AttachmentsInvInit == Init => AttachmentsInv
<1> SUFFICES ASSUME Init PROVE AttachmentsInv
  OBVIOUS
<1>1. TypeOK
  BY TypeInit
<1>2. \A a \in Attachments : ~Stored(a) /\ ~Uploaded(a)
  BY DEF Init, Stored, Uploaded, NoRow
<1>3. \A w \in Workers : serving[w].op = "idle"
  BY DEF Init, Idle
<1>4. Bytes(Counted(Attachments)) = {}
  BY <1>2 DEF Bytes, Counted, Stored, Pending
<1>5. QuotaHolds
  BY <1>4, FS_EmptySet, LimitsAreNatural
  DEF QuotaHolds, InForce, StorageWithinQuota, Used
<1> QED
  BY <1>1, <1>2, <1>3, <1>5
  DEF AttachmentsInv, AttachmentsOfOwnCiphers, UploadedHasBytes, IdsInUse,
      KnownIds, OwnIds, MarksStored, UndoesUnshown, Uploading, LeasesHold, Settling

LEMMA AttachmentsInvStep == AttachmentsInv /\ [Next]_vars => AttachmentsInv'
<1> SUFFICES ASSUME AttachmentsInv, [Next]_vars PROVE AttachmentsInv'
  OBVIOUS
<1>1. /\ TypeOK /\ AttachmentsOfOwnCiphers /\ UploadedHasBytes
      /\ IdsInUse /\ KnownIds /\ OwnIds /\ MarksStored /\ UndoesUnshown
      /\ LeasesHold /\ QuotaHolds
  BY DEF AttachmentsInv
<1>2. TypeOK' /\ IdsInUse' /\ AttachmentsOfOwnCiphers'
  BY <1>1, TypeStep, IdsInUseStep, AttachmentsOfOwnCiphersStep
<1>3. KnownIds' /\ OwnIds'
  BY <1>1, KnownIdsStep, OwnIdsStep
<1>4. MarksStored' /\ UndoesUnshown' /\ UploadedHasBytes'
  BY <1>1, MarksStoredStep, UndoesUnshownStep, UploadedHasBytesStep
<1>5. LeasesHold' /\ QuotaHolds'
  BY <1>1, LeasesHoldStep, QuotaHoldsStep
<1> QED
  BY <1>2, <1>3, <1>4, <1>5 DEF AttachmentsInv

\* The invariant of the argument: what is shown has its object, because an id
\* is drawn once and every request that marks or undoes knows which.
THEOREM AttachmentsInvariant == Spec => []AttachmentsInv
BY AttachmentsInvInit, AttachmentsInvStep, PTL DEF Spec

\* Rows, requests and objects have their shapes, and only an id that
\* createPendingCipherAttachment drew has an object.
THEOREM AttachmentsTypeCorrect == Spec => []TypeOK
<1>1. AttachmentsInv => TypeOK
  BY DEF AttachmentsInv
<1> QED
  BY <1>1, AttachmentsInvariant, PTL

\* However many uploads of one id, retries, compensations, deletions and runs
\* of the cron interleave, a row that clients are shown has its object unless a
\* deletion by the user took it.
THEOREM ShownAttachmentsHaveBytes == Spec => []UploadedHasBytes
<1>1. AttachmentsInv => UploadedHasBytes
  BY DEF AttachmentsInv
<1> QED
  BY <1>1, AttachmentsInvariant, PTL

\* A cipher that was shared or deleted for good while uploads were in flight
\* never has a row again: the statements recheck the cipher.
THEOREM AttachmentsStayOnOwnCiphers == Spec => []AttachmentsOfOwnCiphers
<1>1. AttachmentsInv => AttachmentsOfOwnCiphers
  BY DEF AttachmentsInv
<1> QED
  BY <1>1, AttachmentsInvariant, PTL

\* Declared sizes never add up to more than the quota, although no lock spans
\* the statements: each counts the other rows, and a reservation stays counted
\* under every request that can still turn it into an upload.
THEOREM StorageStaysWithinQuota == Spec => []StorageWithinQuota
<1>1. AttachmentsInv => StorageWithinQuota
  BY DEF AttachmentsInv, QuotaHolds
<1> QED
  BY <1>1, AttachmentsInvariant, PTL
=============================================================================
