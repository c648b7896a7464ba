---------------------------- MODULE AccountPurge ----------------------------
(***************************************************************************)
(* The deletion of an account: recoverable until a cutoff, then prepared   *)
(* and purged by an operator.  The R2 objects of the personal attachments  *)
(* go first, a page per call, with the progress kept in D1 as a count of   *)
(* the inventory in key order; the last call replaces the account by a     *)
(* tombstone.  Calls are retried and may overlap, each names the           *)
(* generation of the deletion it was approved for, and each may fail       *)
(* between two of its steps.                                               *)
(*                                                                         *)
(* A call takes the time once and writes it to updated_at with every write *)
(* to the deletion.  The last call enters its batch with a seal; the       *)
(* statement that makes the tombstone does not ask for the seal but for    *)
(* the call's time in updated_at, where the call's own progress put it.    *)
(*                                                                         *)
(* The rows of the inventory do not change while the account is disabled:  *)
(* a cutoff lies 30 days after the last request that could write one, and  *)
(* reservations that lapsed are swept within a day of it.                  *)
(***************************************************************************)
EXTENDS Naturals, FiniteSets

CONSTANTS Workers,      \* concurrent invocations of the operator's methods
          Keys,         \* object keys, in their order
          PageSize,     \* keys deleted per call
          Times,        \* what the clocks show, told apart by equality only
          LastGeneration   \* bound on the deletions begun

ASSUME KeysAreNatural == Keys \subseteq Nat /\ IsFiniteSet(Keys)
ASSUME PagesAreNonempty == PageSize \in Nat \ {0}
ASSUME GenerationsAreBounded == LastGeneration \in Nat

\* Lifecycle generations, in the order they are drawn.
Generations == 1..LastGeneration

VARIABLES deletion,   \* the row of account_deletions
          disabled,   \* users.disabled_at is set
          lastOwner,  \* the user is the last confirmed owner of an organization
          rows,       \* keys of the personal rows of cipher_attachments
          objects,    \* keys whose object is in R2, with a row or stranded
          calls       \* what each worker is doing

vars == <<deletion, disabled, lastOwner, rows, objects, calls>>

-----------------------------------------------------------------------------
\* updated_at before a purge overwrites it: nothing compares it.
Unread == 0
Deletion ==
  [state : {"none", "recoverable", "recovered", "purge_ready", "purging_r2",
            "tombstoned"},
   generation : Generations \cup {0}, due : BOOLEAN,
   expected : Nat, deleted : Nat, updated : Times \cup {Unread}]

\* base is the progress the call started from, page the keys it deletes.
Call ==
  [op : {"recover"}, generation : Generations] \cup
  [op : {"prepare"}, generation : Generations, expected : Nat] \cup
  [op : {"purge"}, generation : Generations, page : SUBSET Keys,
   base : Nat, expected : Nat, now : Times,
   at : {"delete", "record", "failed", "finalize"}]
Idle == [op |-> "idle"]

Finish(w) == calls' = [calls EXCEPT ![w] = Idle]
Goto(w, step) == calls' = [calls EXCEPT ![w].at = step]
Purging(w, step) == calls[w].op = "purge" /\ calls[w].at = step
Reached(w) == calls[w].base + Cardinality(calls[w].page)

Inventory == Cardinality(rows)
Rank(k) == Cardinality({j \in rows : j <= k})
\* ORDER BY object_key LIMIT PageSize OFFSET done
Page(done) == {k \in rows : done < Rank(k) /\ Rank(k) <= done + PageSize}

InState(g, states) == deletion.generation = g /\ deletion.state \in states

-----------------------------------------------------------------------------
(* The user's side: the account is used, deleted and used again *)

\* A pending row may have no object yet, an object may have lost its row.
EditAttachments(S, T) ==
  /\ ~disabled
  /\ rows' = S
  /\ objects' = T
  /\ UNCHANGED <<deletion, disabled, lastOwner, calls>>

BeginRecoverableAccountDeletion ==
  /\ ~disabled
  /\ ~lastOwner
  /\ deletion.state \in {"none", "recovered"}
  /\ deletion.generation + 1 \in Generations
  /\ deletion' = [state |-> "recoverable", generation |-> deletion.generation + 1,
                  due |-> FALSE, expected |-> 0, deleted |-> 0,
                  updated |-> Unread]
  /\ disabled' = TRUE
  /\ UNCHANGED <<lastOwner, rows, objects, calls>>

\* Time passes recover_until.
PassCutoff ==
  /\ deletion.state = "recoverable"
  /\ ~deletion.due
  /\ deletion' = [deletion EXCEPT !.due = TRUE]
  /\ UNCHANGED <<disabled, lastOwner, rows, objects, calls>>

\* Memberships are edited by others.
ChangeOwnership ==
  /\ lastOwner' = ~lastOwner
  /\ UNCHANGED <<deletion, disabled, rows, objects, calls>>

-----------------------------------------------------------------------------
(* The operator's methods.  Each takes the time once, reads, and writes under *)
(* the time it took.                                                          *)

ReadForRecover(w, g) ==
  /\ calls[w] = Idle
  /\ disabled
  /\ InState(g, {"recoverable"})
  /\ ~deletion.due
  /\ calls' = [calls EXCEPT ![w] = [op |-> "recover", generation |-> g]]
  /\ UNCHANGED <<deletion, disabled, lastOwner, rows, objects>>

\* Slip: the write trusts the state that was read.
RecoverWhenRead(g) == disabled /\ deletion.generation = g
MayRecover(g) == disabled /\ InState(g, {"recoverable"})

\* Slip: the statement on users does not ask for the state of the deletion.
EnableAnyway(w) ==
  LET g == calls[w].generation IN
  /\ calls[w].op = "recover"
  /\ disabled' = FALSE
  /\ deletion' = IF MayRecover(g) THEN [deletion EXCEPT !.state = "recovered"]
                 ELSE deletion
  /\ Finish(w)
  /\ UNCHANGED <<lastOwner, rows, objects>>
RecoverAccountDeletion(w) ==
  /\ calls[w].op = "recover"
  /\ IF MayRecover(calls[w].generation)
     THEN /\ deletion' = [deletion EXCEPT !.state = "recovered"]
          /\ disabled' = FALSE
     ELSE UNCHANGED <<deletion, disabled>>
  /\ Finish(w)
  /\ UNCHANGED <<lastOwner, rows, objects>>

PlanAccountDeletion(w, g) ==
  /\ calls[w] = Idle
  /\ InState(g, {"recoverable", "purge_ready", "purging_r2"})
  /\ deletion.due
  /\ ~lastOwner
  /\ calls' = [calls EXCEPT ![w] =
       [op |-> "prepare", generation |-> g, expected |-> Inventory]]
  /\ UNCHANGED <<deletion, disabled, lastOwner, rows, objects>>

MayPrepare(call) ==
  /\ disabled
  /\ ~lastOwner
  /\ InState(call.generation, {"recoverable"}) /\ deletion.due
  /\ call.expected = Inventory

MarkAccountPurgeReady(w) ==
  /\ calls[w].op = "prepare"
  /\ deletion' = IF MayPrepare(calls[w])
                 THEN [deletion EXCEPT !.state = "purge_ready", !.deleted = 0,
                                       !.expected = calls[w].expected]
                 ELSE deletion
  /\ Finish(w)
  /\ UNCHANGED <<disabled, lastOwner, rows, objects>>

-----------------------------------------------------------------------------
(* purge: one batch reads the page and enters purging_r2, R2 deletes the     *)
(* page, the progress is recorded, and the call that reached the end of the  *)
(* inventory replaces the account by a tombstone.                            *)

\* Slip: every call begins at the front of the inventory.
FromTheFront == 0
Offset == IF deletion.state = "purging_r2" THEN deletion.deleted ELSE 0

StartAccountPurge(w, g, now) ==
  /\ calls[w] = Idle
  /\ disabled
  /\ ~lastOwner
  /\ InState(g, {"purge_ready", "purging_r2"})
  /\ deletion.expected = Inventory
  /\ deletion' = [deletion EXCEPT
       !.state = "purging_r2", !.updated = now,
       !.deleted = IF deletion.state = "purge_ready" THEN 0 ELSE @]
  /\ calls' = [calls EXCEPT ![w] =
       [op |-> "purge", generation |-> g, page |-> Page(Offset),
        base |-> deletion'.deleted, expected |-> deletion.expected,
        now |-> now, at |-> "delete"]]
  /\ UNCHANGED <<disabled, lastOwner, rows, objects>>

DeletePage(w) ==
  /\ Purging(w, "delete")
  /\ objects' = objects \ calls[w].page
  /\ Goto(w, "record")
  /\ UNCHANGED <<deletion, disabled, lastOwner, rows>>

\* Slip: the error is swallowed, and the page is recorded as deleted.
SwallowR2Error(w) ==
  /\ Purging(w, "delete")
  /\ \E part \in SUBSET calls[w].page : objects' = objects \ part
  /\ Goto(w, "record")
  /\ UNCHANGED <<deletion, disabled, lastOwner, rows>>
\* R2 answers with an error and may have deleted some keys of the page.
DeletePageFails(w) ==
  /\ Purging(w, "delete")
  /\ calls[w].page # {}
  /\ \E part \in SUBSET calls[w].page : objects' = objects \ part
  /\ Goto(w, "failed")
  /\ UNCHANGED <<deletion, disabled, lastOwner, rows>>

\* Slip: the last call to record wins.
RecordsAny(g, count) == InState(g, {"purging_r2"})
MayRecord(g, count) ==
  /\ InState(g, {"purging_r2"})
  /\ deletion.deleted <= count
  /\ count <= deletion.expected

Recorded(w, count) ==
  IF MayRecord(calls[w].generation, count)
  THEN [deletion EXCEPT !.deleted = count, !.updated = calls[w].now]
  ELSE deletion

\* The call ends unless it recorded the end of the inventory.
RecordAccountPurgeProgress(w) ==
  /\ Purging(w, "record")
  /\ deletion' = Recorded(w, Reached(w))
  /\ IF /\ MayRecord(calls[w].generation, Reached(w))
        /\ Reached(w) = calls[w].expected
     THEN Goto(w, "finalize")
     ELSE Finish(w)
  /\ UNCHANGED <<disabled, lastOwner, rows, objects>>

\* The error code is recorded with the progress the call started from.
RecordFailure(w) ==
  /\ Purging(w, "failed")
  /\ deletion' = Recorded(w, calls[w].base)
  /\ Finish(w)
  /\ UNCHANGED <<disabled, lastOwner, rows, objects>>

Sealed(g) ==
  /\ ~lastOwner
  /\ InState(g, {"purging_r2"})
  /\ deletion.deleted = deletion.expected
  /\ deletion.expected = Inventory

\* The time of the call is still that of the deletion: what the statement that
\* makes the tombstone asks, and what the seal makes true.
Stamped(w) ==
  /\ InState(calls[w].generation, {"purging_r2"})
  /\ Sealed(calls[w].generation) \/ deletion.updated = calls[w].now

\* One batch.  Only the seal deletes the rows; the call that finds the
\* tombstone made without it throws, after the batch.
FinalizeAccountPurge(w) ==
  /\ Purging(w, "finalize")
  /\ Stamped(w)
  /\ deletion' = [deletion EXCEPT !.state = "tombstoned",
                                  !.updated = calls[w].now]
  /\ rows' = IF Sealed(calls[w].generation) THEN {} ELSE rows
  /\ Finish(w)
  /\ UNCHANGED <<disabled, lastOwner, objects>>

\* The batch changed nothing: the conflict is recorded with the progress.
FinalizeConflicts(w) ==
  /\ Purging(w, "finalize")
  /\ ~Stamped(w)
  /\ calls' = [calls EXCEPT ![w].at = "failed", ![w].base = Reached(w)]
  /\ UNCHANGED <<deletion, disabled, lastOwner, rows, objects>>

\* An invocation can end between any two of its steps.
Abandon(w) ==
  /\ calls[w] # Idle
  /\ Finish(w)
  /\ UNCHANGED <<deletion, disabled, lastOwner, rows, objects>>

-----------------------------------------------------------------------------
Init ==
  /\ deletion = [state |-> "none", generation |-> 0, due |-> FALSE,
                 expected |-> 0, deleted |-> 0, updated |-> Unread]
  /\ disabled = FALSE
  /\ lastOwner = FALSE
  /\ rows \in SUBSET Keys
  /\ objects \in SUBSET Keys
  /\ calls = [w \in Workers |-> Idle]

User ==
  \/ \E S, T \in SUBSET Keys : EditAttachments(S, T)
  \/ BeginRecoverableAccountDeletion
  \/ PassCutoff
  \/ ChangeOwnership

Operator(w) ==
  \/ \E g \in Generations : \/ ReadForRecover(w, g)
                            \/ PlanAccountDeletion(w, g)
                            \/ \E now \in Times : StartAccountPurge(w, g, now)
  \/ RecoverAccountDeletion(w)
  \/ MarkAccountPurgeReady(w)
  \/ DeletePage(w)
  \/ DeletePageFails(w)
  \/ RecordAccountPurgeProgress(w)
  \/ RecordFailure(w)
  \/ FinalizeAccountPurge(w)
  \/ FinalizeConflicts(w)
  \/ Abandon(w)

Next == User \/ \E w \in Workers : Operator(w)

Spec == Init /\ [][Next]_vars

\* The operator repeats the call while the result is purging_r2, a step that is
\* reached again and again does not fail every time, and a call that has only
\* the outcome left to write ends.
Perseverance ==
  /\ SF_vars(\E w \in Workers, g \in Generations, now \in Times :
                StartAccountPurge(w, g, now))
  /\ SF_vars(\E w \in Workers : DeletePage(w))
  /\ SF_vars(\E w \in Workers : RecordAccountPurgeProgress(w))
  /\ SF_vars(\E w \in Workers : FinalizeAccountPurge(w) \/ FinalizeConflicts(w))
  /\ WF_vars(\E w \in Workers : \/ MarkAccountPurgeReady(w) \/ RecordFailure(w)
                                \/ RecoverAccountDeletion(w))

PersistentSpec == Spec /\ Perseverance

-----------------------------------------------------------------------------
(* Properties *)

\* The deletion and the calls have their shapes, and only a disabled account
\* is being purged or gone.
TypeOK ==
  /\ deletion \in Deletion
  /\ disabled \in BOOLEAN /\ lastOwner \in BOOLEAN
  /\ rows \subseteq Keys /\ objects \subseteq Keys
  /\ calls \in [Workers -> Call \cup {Idle}]
  /\ disabled <=> deletion.state \notin {"none", "recovered"}

\* What the progress counts is gone: whatever calls overlapped or failed, the
\* first keys of the inventory, as many as were counted, have no object.
CountedObjectsAreGone ==
  deletion.state = "purging_r2" =>
    \A k \in rows \cap objects : deletion.deleted < Rank(k)

\* A row that names an object is never given up: the rows of a disabled account
\* go only at once, for a tombstone whose user is the last owner of nothing, and
\* an account becomes a tombstone only when no object is left that a row names,
\* with its rows unless the user has become a last owner in the meantime.
RowsGoLast ==
  [][disabled =>
      /\ rows' # rows =>
           deletion'.state = "tombstoned" /\ rows' = {} /\ ~lastOwner
      /\ deletion.state # "tombstoned" /\ deletion'.state = "tombstoned" =>
           rows \cap objects = {} /\ (rows' = {} \/ lastOwner)]_vars

\* What docs/operations/account-lifecycle.md says of tombstoned: the personal
\* rows are removed, and a change of ownership before the last batch fails
\* closed.  It does not hold.
TombstoneIsEmpty == deletion.state = "tombstoned" => rows = {}

\* The progress of a purge never moves back, whatever calls overlap.
ProgressNeverMovesBack ==
  [][deletion.state = "purging_r2" /\ deletion'.state = "purging_r2"
       => deletion'.deleted >= deletion.deleted]_vars

\* Recovery and purge exclude each other: an object of a disabled account goes
\* only in the purge of its deletion, and once one may have gone the account
\* does not come back.
NothingGoesBeforeThePurge ==
  [][/\ disabled /\ objects' # objects
          => deletion.state \in {"purging_r2", "tombstoned"}
     /\ deletion.state \in {"purge_ready", "purging_r2", "tombstoned"}
          => disabled']_vars

\* A purge that was started ends when the operator perseveres and the user at
\* last stops being the last owner of an organization, and it ends with every
\* row deleted when the user never is one during the purge: no failure, overlap
\* or lost progress leaves it stuck half-way.
PurgesEnd ==
  /\ <>[](~lastOwner) =>
       (deletion.state = "purging_r2" ~> deletion.state = "tombstoned")
  /\ [](deletion.state = "purging_r2" => ~lastOwner) =>
       (deletion.state = "purging_r2" ~>
          deletion.state = "tombstoned" /\ rows = {})
=============================================================================
