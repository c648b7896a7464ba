------------------------- MODULE AccountPurgeProofs -------------------------
(* Proofs about AccountPurge for every set of workers and keys, every page    *)
(* size and any number of deletions.                                          *)
EXTENDS AccountPurge, FiniteSetTheorems, TLAPS

-----------------------------------------------------------------------------
(* The inductive invariant.  A call never loses the deletion it works for,    *)
(* and the progress has passed the place where the call started, so the page  *)
(* it deletes and the pages counted before it leave no gap.                   *)

\* The inventory is the one the purge was prepared for: no row comes or goes
\* before the tombstone.
CountsAgree ==
  /\ deletion.state \in {"purge_ready", "purging_r2"} =>
       deletion.expected = Inventory
  /\ deletion.state = "purging_r2" => deletion.deleted <= deletion.expected

\* A purge in flight belongs to the present deletion, which cannot be undone,
\* and deletes the page at its base.
InStep(w) == calls[w].op = "purge" =>
  /\ calls[w].generation = deletion.generation
  /\ deletion.state \in {"purging_r2", "tombstoned"}
  /\ deletion.state = "purging_r2" =>
       /\ calls[w].base <= deletion.deleted
       /\ calls[w].expected = deletion.expected
       /\ calls[w].at \in {"delete", "record"} => calls[w].page = Page(calls[w].base)
       /\ calls[w].at = "record" => calls[w].page \cap objects = {}
       /\ calls[w].at = "finalize" =>
            Reached(w) <= deletion.deleted /\ Reached(w) = calls[w].expected

CallsInStep == \A w \in Workers : InStep(w)

PurgeInv ==
  /\ TypeOK
  /\ CountsAgree
  /\ CountedObjectsAreGone
  /\ CallsInStep
-----------------------------------------------------------------------------
(* Ranks and pages *)

LEMMA InventoryType ==
  ASSUME TypeOK
  PROVE  IsFiniteSet(rows) /\ Inventory \in Nat
BY KeysAreNatural, FS_Subset, FS_CardinalityType DEF TypeOK, Inventory

LEMMA PartCounts ==
  ASSUME NEW S \in SUBSET Keys
  PROVE  IsFiniteSet(S) /\ Cardinality(S) \in Nat
BY KeysAreNatural, FS_Subset, FS_CardinalityType

LEMMA RankType ==
  ASSUME TypeOK, NEW k \in rows
  PROVE  Rank(k) \in Nat /\ 0 < Rank(k) /\ Rank(k) <= Inventory
<1> DEFINE S == {j \in rows : j <= k}
<1>1. IsFiniteSet(rows)
  BY InventoryType
<1>2. S \in SUBSET rows
  OBVIOUS
<1>3. IsFiniteSet(S) /\ Cardinality(S) <= Cardinality(rows)
  BY <1>1, <1>2, FS_Subset
<1>4. Cardinality(S) \in Nat
  BY <1>3, FS_CardinalityType
<1>5. k \in S
  BY KeysAreNatural DEF TypeOK
<1>6. Cardinality(S) # 0
  BY <1>3, <1>5, FS_EmptySet
<1> QED
  BY <1>3, <1>4, <1>6 DEF Rank, Inventory

LEMMA RankGrows ==
  ASSUME TypeOK, NEW j \in rows, NEW k \in rows, j < k
  PROVE  Rank(j) < Rank(k)
<1> DEFINE S == {i \in rows : i <= j}
           T == {i \in rows : i <= k}
<1>1. rows \subseteq Nat /\ T \in SUBSET Keys
  BY KeysAreNatural DEF TypeOK
<1>2. S \in SUBSET T
  <2>1. \A i \in rows : i <= j => i <= k
    BY <1>1
  <2> QED
    BY <2>1
<1>3. k \in T /\ k \notin S
  BY <1>1
<1>4. IsFiniteSet(T) /\ Cardinality(T) \in Nat
  BY <1>1, PartCounts
<1>5. Cardinality(S) <= Cardinality(T) /\ (Cardinality(T) = Cardinality(S) => T = S)
  BY <1>2, <1>4, FS_Subset
<1>6. Cardinality(S) \in Nat
  BY <1>1, <1>2, PartCounts
<1> QED
  BY <1>3, <1>4, <1>5, <1>6 DEF Rank

\* A page holds at most PageSize keys, for no two keys have one rank.
LEMMA PageType ==
  ASSUME TypeOK, NEW n \in Nat
  PROVE  /\ Page(n) \in SUBSET Keys
         /\ Cardinality(Page(n)) \in Nat
         /\ Cardinality(Page(n)) <= PageSize
<1> DEFINE f == [k \in Page(n) |-> Rank(k)]
           Ranks == (n + 1)..(n + PageSize)
<1>1. Page(n) \in SUBSET Keys /\ Page(n) \subseteq rows
  BY DEF Page, TypeOK
<1>2. f \in [Page(n) -> Ranks]
  BY <1>1, RankType, PagesAreNonempty DEF Page
<1>3. \A j, k \in Page(n) : f[j] = f[k] => j = k
  <2>1. \A j, k \in rows : Rank(j) = Rank(k) => j = k
    <3>1. ASSUME NEW j \in rows, NEW k \in rows, Rank(j) = Rank(k), j # k
          PROVE  FALSE
      <4>1. j < k \/ k < j
        BY <3>1, KeysAreNatural DEF TypeOK
      <4>2. Rank(j) < Rank(k) \/ Rank(k) < Rank(j)
        BY <4>1, RankGrows
      <4> QED
        BY <3>1, <4>2, RankType
    <3> QED
      BY <3>1
  <2> QED
    BY <1>1, <2>1
<1>4. f \in Injection(Page(n), Ranks)
  BY <1>2, <1>3 DEF Injection, IsInjective
<1>5. n + 1 \in Int /\ n + PageSize \in Int
  BY PagesAreNonempty
<1>6. IsFiniteSet(Ranks) /\ Cardinality(Ranks) = PageSize
  BY <1>5, FS_Interval, PagesAreNonempty
<1>7. Cardinality(Page(n)) <= PageSize
  BY <1>4, <1>6, FS_Injection
<1> QED
  BY <1>1, <1>7, PartCounts

\* Past its page, and not before, a call has reached the next key.
LEMMA PageReaches ==
  ASSUME TypeOK, NEW n \in Nat, NEW k \in rows, n < Rank(k), k \notin Page(n)
  PROVE  n + Cardinality(Page(n)) < Rank(k)
<1>1. n + PageSize < Rank(k)
  BY RankType, PagesAreNonempty DEF Page
<1> QED
  BY <1>1, PageType, RankType, PagesAreNonempty
-----------------------------------------------------------------------------
(* Type correctness *)

PurgeCall ==
  [op : {"purge"}, generation : Generations, page : SUBSET Keys,
   base : Nat, expected : Nat, now : Times,
   at : {"delete", "record", "failed", "finalize"}]

LEMMA CallShape ==
  ASSUME TypeOK, NEW w \in Workers
  PROVE  calls[w].op = "purge" <=> calls[w] \in PurgeCall
BY DEF TypeOK, Call, PurgeCall, Idle

LEMMA ReachedType ==
  ASSUME TypeOK, NEW w \in Workers, calls[w].op = "purge"
  PROVE  Reached(w) \in Nat
<1>1. calls[w].page \in SUBSET Keys /\ calls[w].base \in Nat
  BY CallShape DEF PurgeCall
<1>2. Cardinality(calls[w].page) \in Nat
  BY <1>1, PartCounts
<1> QED
  BY <1>1, <1>2 DEF Reached

LEMMA FinishType ==
  ASSUME TypeOK, NEW w \in Workers, Finish(w)
  PROVE  calls' \in [Workers -> Call \cup {Idle}]
BY DEF TypeOK, Finish

LEMMA PurgeCallType ==
  ASSUME TypeOK, NEW w \in Workers, NEW call \in PurgeCall,
         calls' = [calls EXCEPT ![w] = call]
  PROVE  calls' \in [Workers -> Call \cup {Idle}]
BY DEF TypeOK, Call, PurgeCall

LEMMA GotoType ==
  ASSUME TypeOK, NEW w \in Workers, calls[w].op = "purge",
         NEW step \in {"delete", "record", "failed", "finalize"}, Goto(w, step)
  PROVE  calls' \in [Workers -> Call \cup {Idle}]
<1>1. [calls[w] EXCEPT !.at = step] \in PurgeCall
  BY CallShape DEF PurgeCall
<1>2. calls' = [calls EXCEPT ![w] = [calls[w] EXCEPT !.at = step]]
  BY DEF Goto
<1> QED
  BY <1>1, <1>2, PurgeCallType

LEMMA RecordedType ==
  ASSUME TypeOK, NEW w \in Workers, calls[w].op = "purge", NEW count \in Nat
  PROVE  /\ Recorded(w, count) \in Deletion
         /\ Recorded(w, count).state = deletion.state
<1>1. calls[w].now \in Times /\ deletion \in Deletion
  BY CallShape DEF PurgeCall, TypeOK
<1> QED
  BY <1>1 DEF Recorded, Deletion

LEMMA TypeUser ==
  ASSUME TypeOK, User
  PROVE  TypeOK'
<1>1. CASE BeginRecoverableAccountDeletion
  <2>1. deletion' \in Deletion /\ deletion'.state = "recoverable"
    BY <1>1 DEF BeginRecoverableAccountDeletion, Deletion
  <2> QED
    BY <1>1, <2>1 DEF BeginRecoverableAccountDeletion, TypeOK
<1>2. CASE PassCutoff
  <2>1. deletion' \in Deletion /\ deletion'.state = deletion.state
    BY <1>2 DEF PassCutoff, Deletion, TypeOK
  <2> QED
    BY <1>2, <2>1 DEF PassCutoff, TypeOK
<1>3. CASE ChangeOwnership
  BY <1>3 DEF ChangeOwnership, TypeOK
<1>4. ASSUME NEW S \in SUBSET Keys, NEW T \in SUBSET Keys, EditAttachments(S, T)
      PROVE  TypeOK'
  BY <1>4 DEF EditAttachments, TypeOK
<1> QED
  BY <1>1, <1>2, <1>3, <1>4 DEF User

LEMMA TypeRecover ==
  ASSUME TypeOK, NEW w \in Workers, RecoverAccountDeletion(w)
  PROVE  TypeOK'
<1>1. calls' \in [Workers -> Call \cup {Idle}]
  BY FinishType DEF RecoverAccountDeletion
<1>2. CASE MayRecover(calls[w].generation)
  <2>1. deletion' \in Deletion /\ deletion'.state = "recovered"
    BY <1>2 DEF RecoverAccountDeletion, Deletion, TypeOK
  <2> QED
    BY <1>1, <1>2, <2>1 DEF RecoverAccountDeletion, TypeOK
<1> QED
  BY <1>1, <1>2 DEF RecoverAccountDeletion, TypeOK

LEMMA TypePrepare ==
  ASSUME TypeOK, NEW w \in Workers, MarkAccountPurgeReady(w)
  PROVE  TypeOK'
<1>1. calls' \in [Workers -> Call \cup {Idle}]
  BY FinishType DEF MarkAccountPurgeReady
<1>2. CASE MayPrepare(calls[w])
  <2>1. calls[w].expected \in Nat
    BY <1>2, InventoryType DEF MayPrepare
  <2>2. deletion' \in Deletion /\ deletion'.state = "purge_ready"
    BY <1>2, <2>1 DEF MarkAccountPurgeReady, Deletion, TypeOK
  <2>3. disabled
    BY <1>2 DEF MayPrepare
  <2> QED
    BY <1>1, <2>2, <2>3 DEF MarkAccountPurgeReady, TypeOK
<1> QED
  BY <1>1, <1>2 DEF MarkAccountPurgeReady, TypeOK

LEMMA TypeReads ==
  ASSUME TypeOK, NEW w \in Workers, NEW g \in Generations,
         ReadForRecover(w, g) \/ PlanAccountDeletion(w, g)
  PROVE  TypeOK'
<1>1. CASE ReadForRecover(w, g)
  <2>1. [op |-> "recover", generation |-> g] \in Call
    BY DEF Call
  <2> QED
    BY <1>1, <2>1 DEF ReadForRecover, TypeOK
<1>2. CASE PlanAccountDeletion(w, g)
  <2>1. [op |-> "prepare", generation |-> g, expected |-> Inventory] \in Call
    BY InventoryType DEF Call
  <2> QED
    BY <1>2, <2>1 DEF PlanAccountDeletion, TypeOK
<1> QED
  BY <1>1, <1>2

\* The call that starts goes on from the progress, and the progress stays.
LEMMA StartShape ==
  ASSUME TypeOK, NEW w \in Workers, NEW g \in Generations, NEW now \in Times,
         StartAccountPurge(w, g, now)
  PROVE  /\ deletion' \in Deletion /\ deletion'.state = "purging_r2"
         /\ deletion'.generation = deletion.generation
         /\ deletion'.deleted = Offset
         /\ deletion'.expected = deletion.expected
         /\ calls' = [calls EXCEPT ![w] =
              [op |-> "purge", generation |-> g, page |-> Page(Offset),
               base |-> Offset, expected |-> deletion.expected, now |-> now,
               at |-> "delete"]]
         /\ [op |-> "purge", generation |-> g, page |-> Page(Offset),
             base |-> Offset, expected |-> deletion.expected, now |-> now,
             at |-> "delete"] \in PurgeCall
<1>1. /\ deletion \in Deletion
      /\ g = deletion.generation
      /\ deletion.state \in {"purge_ready", "purging_r2"}
  BY DEF StartAccountPurge, InState, TypeOK
<1>2. Offset \in Nat
  BY <1>1 DEF Offset, Deletion
<1>3. deletion' = [deletion EXCEPT !.state = "purging_r2", !.updated = now,
                                   !.deleted = Offset]
  BY <1>1 DEF StartAccountPurge, Offset, Deletion
<1>4. /\ deletion' \in Deletion /\ deletion'.state = "purging_r2"
      /\ deletion'.generation = deletion.generation
      /\ deletion'.deleted = Offset
      /\ deletion'.expected = deletion.expected
  BY <1>1, <1>2, <1>3 DEF Deletion
<1>5. Page(Offset) \in SUBSET Keys /\ deletion.expected \in Nat
  BY <1>1, <1>2, PageType DEF Deletion
<1> QED
  BY <1>2, <1>4, <1>5 DEF StartAccountPurge, PurgeCall

LEMMA TypeStart ==
  ASSUME TypeOK, NEW w \in Workers, NEW g \in Generations, NEW now \in Times,
         StartAccountPurge(w, g, now)
  PROVE  TypeOK'
<1>1. calls' \in [Workers -> Call \cup {Idle}]
  BY StartShape, PurgeCallType
<1>2. deletion' \in Deletion /\ deletion'.state = "purging_r2"
  BY StartShape
<1> QED
  BY <1>1, <1>2 DEF StartAccountPurge, TypeOK

LEMMA TypePurge ==
  ASSUME TypeOK, NEW w \in Workers,
         \/ DeletePage(w) \/ DeletePageFails(w)
         \/ RecordAccountPurgeProgress(w) \/ RecordFailure(w)
         \/ FinalizeAccountPurge(w) \/ FinalizeConflicts(w)
  PROVE  TypeOK'
<1>1. /\ calls[w].op = "purge" /\ calls[w] \in PurgeCall
      /\ calls[w].base \in Nat /\ Reached(w) \in Nat
  BY CallShape, ReachedType
  DEF DeletePage, DeletePageFails, RecordAccountPurgeProgress, RecordFailure,
      FinalizeAccountPurge, FinalizeConflicts, Purging, PurgeCall
<1>2. CASE DeletePage(w) \/ DeletePageFails(w)
  <2>1. calls' \in [Workers -> Call \cup {Idle}]
    BY <1>1, <1>2, GotoType DEF DeletePage, DeletePageFails
  <2>2. objects' \subseteq objects
    BY <1>2 DEF DeletePage, DeletePageFails
  <2> QED
    BY <1>2, <2>1, <2>2 DEF DeletePage, DeletePageFails, TypeOK
<1>3. CASE RecordAccountPurgeProgress(w) \/ RecordFailure(w)
  <2>1. calls' \in [Workers -> Call \cup {Idle}]
    BY <1>1, <1>3, GotoType, FinishType DEF RecordAccountPurgeProgress, RecordFailure
  <2>2. deletion' \in Deletion /\ deletion'.state = deletion.state
    BY <1>1, <1>3, RecordedType DEF RecordAccountPurgeProgress, RecordFailure
  <2> QED
    BY <1>3, <2>1, <2>2 DEF RecordAccountPurgeProgress, RecordFailure, TypeOK
<1>4. CASE FinalizeAccountPurge(w)
  <2>1. calls[w].now \in Times /\ deletion \in Deletion
    BY <1>1 DEF PurgeCall, TypeOK
  <2>2. deletion' \in Deletion /\ deletion'.state = "tombstoned"
    BY <1>4, <2>1 DEF FinalizeAccountPurge, Deletion
  <2>3. deletion.state = "purging_r2"
    BY <1>4 DEF FinalizeAccountPurge, Stamped, InState
  <2>4. rows' \subseteq rows /\ calls' \in [Workers -> Call \cup {Idle}]
    BY <1>4, FinishType DEF FinalizeAccountPurge
  <2> QED
    BY <1>4, <2>2, <2>3, <2>4 DEF FinalizeAccountPurge, TypeOK
<1>5. CASE FinalizeConflicts(w)
  <2>1. [calls[w] EXCEPT !.at = "failed", !.base = Reached(w)] \in PurgeCall
    BY <1>1 DEF PurgeCall
  <2>2. calls' =
          [calls EXCEPT ![w] =
             [calls[w] EXCEPT !.at = "failed", !.base = Reached(w)]]
    BY <1>5 DEF FinalizeConflicts, TypeOK
  <2> QED
    BY <1>5, <2>1, <2>2, PurgeCallType DEF FinalizeConflicts, TypeOK
<1> QED
  BY <1>2, <1>3, <1>4, <1>5

LEMMA TypeStep ==
  ASSUME TypeOK, [Next]_vars
  PROVE  TypeOK'
<1>1. ASSUME NEW w \in Workers, Abandon(w)
      PROVE  TypeOK'
  BY <1>1, FinishType DEF Abandon, TypeOK
<1>2. CASE UNCHANGED vars
  BY <1>2 DEF vars, TypeOK
<1> QED
  BY <1>1, <1>2, TypeUser, TypeRecover, TypePrepare, TypeReads, TypeStart, TypePurge
  DEF Next, Operator

-----------------------------------------------------------------------------
(* A purge that started goes on or ends in a tombstone. *)

Purged(state) == state \in {"purging_r2", "tombstoned"}

Progresses ==
  Purged(deletion.state) =>
    /\ disabled'
    /\ deletion'.generation = deletion.generation
    /\ Purged(deletion'.state)
    /\ deletion.state = "tombstoned" => deletion'.state = "tombstoned"
    /\ objects' \subseteq objects /\ rows' \subseteq rows
    /\ deletion'.state = "purging_r2" =>
         /\ deletion.deleted <= deletion'.deleted /\ rows' = rows
         /\ deletion'.expected = deletion.expected

LEMMA RecordedGrows ==
  ASSUME TypeOK, NEW w, NEW count \in Nat
  PROVE  /\ Recorded(w, count).generation = deletion.generation
         /\ Recorded(w, count).state = deletion.state
         /\ Recorded(w, count).expected = deletion.expected
         /\ deletion.deleted <= Recorded(w, count).deleted
         /\ Recorded(w, count).deleted =
              IF MayRecord(calls[w].generation, count)
              THEN count ELSE deletion.deleted
<1>1. deletion \in Deletion
  BY DEF TypeOK
<1>2. CASE MayRecord(calls[w].generation, count)
  <2>1. Recorded(w, count) =
          [deletion EXCEPT !.deleted = count, !.updated = calls[w].now]
    BY <1>2 DEF Recorded
  <2> QED
    BY <1>1, <1>2, <2>1 DEF Deletion, MayRecord
<1>3. CASE ~MayRecord(calls[w].generation, count)
  BY <1>1, <1>3 DEF Recorded, Deletion
<1> QED
  BY <1>2, <1>3

LEMMA ProgressesOthers ==
  ASSUME TypeOK,
         \/ User
         \/ \E w \in Workers :
              \/ \E g \in Generations :
                   ReadForRecover(w, g) \/ PlanAccountDeletion(w, g)
              \/ RecoverAccountDeletion(w) \/ MarkAccountPurgeReady(w)
              \/ DeletePage(w) \/ DeletePageFails(w)
              \/ FinalizeConflicts(w) \/ Abandon(w)
         \/ UNCHANGED vars
  PROVE  Progresses
<1> SUFFICES ASSUME Purged(deletion.state)
             PROVE  Progresses
  BY DEF Progresses
<1>1. /\ deletion.state # "recoverable" /\ disabled
      /\ deletion.state \notin {"none", "recovered"}
      /\ deletion.deleted \in Nat
  BY DEF Purged, TypeOK, Deletion
<1>2. /\ UNCHANGED <<deletion, disabled, rows>>
      /\ objects' \subseteq objects
  BY <1>1
  DEF User, EditAttachments, BeginRecoverableAccountDeletion, PassCutoff,
      ChangeOwnership, ReadForRecover, PlanAccountDeletion,
      RecoverAccountDeletion, MayRecover, InState, MarkAccountPurgeReady,
      MayPrepare, DeletePage, DeletePageFails, FinalizeConflicts, Abandon, vars
<1> QED
  BY <1>1, <1>2 DEF Progresses

LEMMA StepProgresses ==
  ASSUME TypeOK, [Next]_vars
  PROVE  Progresses
<1>1. ASSUME NEW w \in Workers, NEW g \in Generations, NEW now \in Times,
         StartAccountPurge(w, g, now)
      PROVE  Progresses
  <2>1. /\ deletion'.state = "purging_r2"
        /\ deletion'.generation = deletion.generation
        /\ deletion'.deleted = Offset
        /\ deletion'.expected = deletion.expected
    BY <1>1, StartShape
  <2>2. UNCHANGED <<disabled, rows, objects>> /\ disabled
    BY <1>1 DEF StartAccountPurge
  <2>3. deletion.state = "purging_r2" \/ deletion.state = "purge_ready"
    BY <1>1 DEF StartAccountPurge, InState
  <2>4. deletion.deleted \in Nat
    BY DEF TypeOK, Deletion
  <2> QED
    BY <2>1, <2>2, <2>3, <2>4 DEF Progresses, Purged, Offset
<1>2. ASSUME NEW w \in Workers, RecordAccountPurgeProgress(w) \/ RecordFailure(w)
      PROVE  Progresses
  <2>1. calls[w].base \in Nat /\ Reached(w) \in Nat
    BY <1>2, CallShape, ReachedType
    DEF RecordAccountPurgeProgress, RecordFailure, Purging, PurgeCall
  <2>2. UNCHANGED <<disabled, rows, objects>>
    BY <1>2 DEF RecordAccountPurgeProgress, RecordFailure
  <2>3. /\ deletion'.generation = deletion.generation
        /\ deletion'.state = deletion.state
        /\ deletion'.expected = deletion.expected
        /\ deletion.deleted <= deletion'.deleted
    BY <1>2, <2>1, RecordedGrows DEF RecordAccountPurgeProgress, RecordFailure
  <2>4. Purged(deletion.state) => disabled
    BY DEF Purged, TypeOK
  <2> QED
    BY <2>2, <2>3, <2>4 DEF Progresses
<1>3. ASSUME NEW w \in Workers, FinalizeAccountPurge(w)
      PROVE  Progresses
  <2>1. /\ deletion'.state = "tombstoned"
        /\ deletion'.generation = deletion.generation
    BY <1>3 DEF FinalizeAccountPurge, TypeOK, Deletion
  <2>2. rows' \subseteq rows
    BY <1>3 DEF FinalizeAccountPurge
  <2>3. Purged(deletion.state) => disabled
    BY DEF Purged, TypeOK
  <2> QED
    BY <1>3, <2>1, <2>2, <2>3 DEF FinalizeAccountPurge, Progresses, Purged
<1> QED
  BY <1>1, <1>2, <1>3, ProgressesOthers DEF Next, Operator

-----------------------------------------------------------------------------
(* Calls stay in step *)

LEMMA KeptInStep ==
  ASSUME PurgeInv, TypeOK', Progresses, NEW v \in Workers, calls'[v] = calls[v]
  PROVE  InStep(v)'
<1> SUFFICES ASSUME calls[v].op = "purge"
             PROVE  InStep(v)'
  BY DEF InStep
<1>1. /\ calls[v].generation = deletion.generation
      /\ Purged(deletion.state)
      /\ InStep(v) /\ TypeOK
  BY DEF PurgeInv, CallsInStep, InStep, Purged
<1>2. /\ deletion'.generation = deletion.generation
      /\ Purged(deletion'.state)
      /\ deletion.state = "tombstoned" => deletion'.state = "tombstoned"
      /\ objects' \subseteq objects
      /\ deletion'.state = "purging_r2" =>
           /\ deletion.deleted <= deletion'.deleted /\ rows' = rows
           /\ deletion'.expected = deletion.expected
  BY <1>1 DEF Progresses
<1> SUFFICES ASSUME deletion'.state = "purging_r2"
             PROVE  /\ calls[v].base <= deletion'.deleted
                    /\ calls[v].expected = deletion'.expected
                    /\ calls[v].at \in {"delete", "record"} =>
                         calls[v].page = Page(calls[v].base)'
                    /\ calls[v].at = "record" => calls[v].page \cap objects' = {}
                    /\ calls[v].at = "finalize" =>
                         /\ Reached(v)' <= deletion'.deleted
                         /\ Reached(v)' = calls[v].expected
  BY <1>1, <1>2 DEF InStep, Purged
<1>3. deletion.state = "purging_r2" /\ rows' = rows
  BY <1>1, <1>2 DEF Purged
<1>4. Page(calls[v].base)' = Page(calls[v].base)
  BY <1>3 DEF Page, Rank
<1>5. Reached(v)' = Reached(v)
  BY DEF Reached
<1>6. calls[v].base \in Nat /\ Reached(v) \in Nat /\ deletion.deleted \in Nat
  BY <1>1, CallShape, ReachedType DEF PurgeCall, TypeOK, Deletion
<1>7. deletion'.deleted \in Nat
  BY DEF TypeOK, Deletion
<1> QED
  BY <1>1, <1>2, <1>3, <1>4, <1>5, <1>6, <1>7 DEF InStep

LEMMA OtherCalls ==
  ASSUME TypeOK, NEW w \in Workers, NEW v \in Workers, v # w, Operator(w)
  PROVE  calls'[v] = calls[v]
<1>1. \A g \in Generations, now \in Times :
        StartAccountPurge(w, g, now) => calls'[v] = calls[v]
  BY DEF StartAccountPurge, TypeOK
<1>2. FinalizeAccountPurge(w) \/ FinalizeConflicts(w) => calls'[v] = calls[v]
  BY DEF FinalizeAccountPurge, FinalizeConflicts, Finish, TypeOK
<1> QED
  BY <1>1, <1>2
  DEF TypeOK, Finish, Goto, Operator, ReadForRecover, PlanAccountDeletion,
      RecoverAccountDeletion, MarkAccountPurgeReady, DeletePage,
      DeletePageFails, RecordAccountPurgeProgress, RecordFailure, Abandon

LEMMA FinishInStep ==
  ASSUME TypeOK, NEW w \in Workers, Finish(w)
  PROVE  InStep(w)'
BY DEF InStep, Finish, TypeOK, Idle

LEMMA GotoFields ==
  ASSUME TypeOK, NEW w \in Workers, calls[w].op = "purge", NEW step, Goto(w, step)
  PROVE  /\ calls'[w].op = "purge" /\ calls'[w].at = step
         /\ calls'[w].generation = calls[w].generation
         /\ calls'[w].base = calls[w].base
         /\ calls'[w].page = calls[w].page
         /\ calls'[w].expected = calls[w].expected
<1>1. calls'[w] = [calls[w] EXCEPT !.at = step] /\ calls[w] \in PurgeCall
  BY CallShape DEF Goto, TypeOK
<1> QED
  BY <1>1 DEF PurgeCall

\* A call that goes on in the same page is in step.
LEMMA GotoInStep ==
  ASSUME PurgeInv, TypeOK', Progresses, NEW w \in Workers,
         calls[w].op = "purge", calls[w].at \in {"delete", "record"},
         NEW step \in {"record", "failed", "finalize"}, Goto(w, step),
         step = "record" => calls[w].page \cap objects' = {},
         step = "finalize" => /\ Reached(w) <= deletion'.deleted
                              /\ Reached(w) = calls[w].expected
  PROVE  InStep(w)'
<1>1. /\ calls'[w].op = "purge" /\ calls'[w].at = step
      /\ calls'[w].generation = calls[w].generation
      /\ calls'[w].base = calls[w].base
      /\ calls'[w].page = calls[w].page
      /\ calls'[w].expected = calls[w].expected
  BY GotoFields DEF PurgeInv
<1>2. /\ calls[w].generation = deletion.generation
      /\ Purged(deletion.state)
      /\ InStep(w) /\ TypeOK
  BY DEF PurgeInv, CallsInStep, InStep, Purged
<1>3. /\ deletion'.generation = deletion.generation
      /\ Purged(deletion'.state)
      /\ deletion.state = "tombstoned" => deletion'.state = "tombstoned"
      /\ deletion'.state = "purging_r2" =>
           /\ deletion.deleted <= deletion'.deleted /\ rows' = rows
           /\ deletion'.expected = deletion.expected
  BY <1>2 DEF Progresses
<1> SUFFICES ASSUME deletion'.state = "purging_r2"
             PROVE  /\ calls'[w].base <= deletion'.deleted
                    /\ calls'[w].expected = deletion'.expected
                    /\ step \in {"delete", "record"} =>
                         calls'[w].page = Page(calls[w].base)'
                    /\ step = "record" => calls'[w].page \cap objects' = {}
                    /\ step = "finalize" =>
                         /\ Reached(w)' <= deletion'.deleted
                         /\ Reached(w)' = calls'[w].expected
  BY <1>1, <1>2, <1>3 DEF InStep, Purged
<1>4. deletion.state = "purging_r2" /\ rows' = rows
  BY <1>2, <1>3 DEF Purged
<1>5. Page(calls[w].base)' = Page(calls[w].base)
  BY <1>1, <1>4 DEF Page, Rank
<1>6. Reached(w)' = Reached(w)
  BY <1>1 DEF Reached
<1>7. /\ calls[w].base \in Nat /\ deletion.deleted \in Nat
      /\ deletion'.deleted \in Nat
  BY <1>2, CallShape DEF PurgeCall, TypeOK, Deletion
<1> QED
  BY <1>1, <1>2, <1>3, <1>4, <1>5, <1>6, <1>7 DEF InStep

LEMMA StartInStep ==
  ASSUME PurgeInv, NEW w \in Workers, NEW g \in Generations, NEW now \in Times,
         StartAccountPurge(w, g, now)
  PROVE  InStep(w)'
<1>1. TypeOK
  BY DEF PurgeInv
<1>2. /\ deletion' \in Deletion /\ deletion'.state = "purging_r2"
      /\ deletion'.generation = deletion.generation
      /\ deletion'.deleted = Offset
      /\ deletion'.expected = deletion.expected
  BY <1>1, StartShape
<1>3. calls'[w] =
        [op |-> "purge", generation |-> g, page |-> Page(Offset),
         base |-> Offset, expected |-> deletion.expected, now |-> now,
               at |-> "delete"]
  BY <1>1, StartShape DEF TypeOK
<1>4. /\ calls'[w].generation = g /\ calls'[w].page = Page(Offset)
      /\ calls'[w].base = Offset /\ calls'[w].at = "delete"
      /\ calls'[w].expected = deletion.expected
  BY <1>3
<1>5. g = deletion.generation /\ rows' = rows
  BY DEF StartAccountPurge, InState
<1>6. Page(calls[w].base)' = Page(Offset)
  BY <1>4, <1>5 DEF Page, Rank
<1>7. deletion'.deleted \in Nat
  BY <1>2 DEF Deletion
<1> QED
  BY <1>2, <1>4, <1>5, <1>6, <1>7 DEF InStep

LEMMA PurgeInStep ==
  ASSUME PurgeInv, TypeOK', Progresses, NEW w \in Workers,
         \/ DeletePage(w) \/ DeletePageFails(w)
         \/ RecordAccountPurgeProgress(w) \/ RecordFailure(w)
  PROVE  InStep(w)'
<1>1. TypeOK
  BY DEF PurgeInv
<1>2. CASE DeletePage(w)
  <2>1. /\ calls[w].op = "purge" /\ calls[w].at = "delete" /\ Goto(w, "record")
        /\ calls[w].page \cap objects' = {}
    BY <1>2 DEF DeletePage, Purging
  <2> QED
    BY <2>1, GotoInStep
<1>3. CASE DeletePageFails(w)
  <2>1. calls[w].op = "purge" /\ calls[w].at = "delete" /\ Goto(w, "failed")
    BY <1>3 DEF DeletePageFails, Purging
  <2> QED
    BY <2>1, GotoInStep
<1>4. CASE RecordAccountPurgeProgress(w)
  <2>1. calls[w].op = "purge" /\ calls[w].at = "record" /\ Reached(w) \in Nat
    BY <1>1, <1>4, ReachedType DEF RecordAccountPurgeProgress, Purging
  <2>2. CASE /\ MayRecord(calls[w].generation, Reached(w))
             /\ Reached(w) = calls[w].expected
             /\ Goto(w, "finalize")
    <3>1. deletion'.deleted = Reached(w)
      BY <1>1, <1>4, <2>1, <2>2, RecordedGrows DEF RecordAccountPurgeProgress
    <3> QED
      BY <2>1, <2>2, <3>1, GotoInStep
  <2> QED
    BY <1>1, <1>4, <2>2, FinishInStep DEF RecordAccountPurgeProgress
<1>5. CASE RecordFailure(w)
  BY <1>1, <1>5, FinishInStep DEF RecordFailure
<1> QED
  BY <1>2, <1>3, <1>4, <1>5

\* The conflict of the last step is recorded with the progress reached.
LEMMA FinalizeInStep ==
  ASSUME PurgeInv, NEW w \in Workers, FinalizeAccountPurge(w) \/ FinalizeConflicts(w)
  PROVE  InStep(w)'
<1>1. TypeOK /\ InStep(w) /\ calls[w].op = "purge" /\ calls[w].at = "finalize"
  BY DEF PurgeInv, CallsInStep, FinalizeAccountPurge, FinalizeConflicts, Purging
<1>2. CASE FinalizeAccountPurge(w)
  BY <1>1, <1>2, FinishInStep DEF FinalizeAccountPurge
<1>3. CASE FinalizeConflicts(w)
  <2>1. /\ calls'[w] = [calls[w] EXCEPT !.at = "failed", !.base = Reached(w)]
        /\ UNCHANGED deletion
    BY <1>1, <1>3 DEF FinalizeConflicts, TypeOK
  <2>2. calls[w] \in PurgeCall
    BY <1>1, CallShape
  <2>3. /\ calls'[w].base = Reached(w) /\ calls'[w].at = "failed"
        /\ calls'[w].generation = calls[w].generation
        /\ calls'[w].expected = calls[w].expected
    BY <2>1, <2>2 DEF PurgeCall
  <2> QED
    BY <1>1, <2>1, <2>3 DEF InStep
<1> QED
  BY <1>2, <1>3

LEMMA CallsInStepStep ==
  ASSUME PurgeInv, TypeOK', Progresses, [Next]_vars
  PROVE  CallsInStep'
<1> SUFFICES ASSUME NEW v \in Workers
             PROVE  InStep(v)'
  BY DEF CallsInStep
<1>1. TypeOK
  BY DEF PurgeInv
<1>2. CASE calls'[v] = calls[v]
  BY <1>2, KeptInStep
<1>3. CASE calls'[v] # calls[v]
  <2>1. Operator(v)
    BY <1>1, <1>3, OtherCalls
    DEF Next, User, EditAttachments, BeginRecoverableAccountDeletion,
        PassCutoff, ChangeOwnership, vars
  <2>2. ASSUME NEW g \in Generations,
               ReadForRecover(v, g) \/ PlanAccountDeletion(v, g)
        PROVE  InStep(v)'
    <3>1. calls'[v].op # "purge"
      BY <1>1, <2>2 DEF ReadForRecover, PlanAccountDeletion, TypeOK
    <3> QED
      BY <3>1 DEF InStep
  <2>3. CASE RecoverAccountDeletion(v) \/ MarkAccountPurgeReady(v) \/ Abandon(v)
    BY <1>1, <2>3, FinishInStep DEF RecoverAccountDeletion, MarkAccountPurgeReady, Abandon
  <2> QED
    BY <2>1, <2>2, <2>3, StartInStep, PurgeInStep, FinalizeInStep DEF Operator
<1> QED
  BY <1>2, <1>3

-----------------------------------------------------------------------------
(* What is counted is gone *)

LEMMA CountedKept ==
  ASSUME TypeOK, CountedObjectsAreGone, rows' = rows, objects' \subseteq objects,
         deletion'.state = "purging_r2" =>
           deletion.state = "purging_r2" /\ deletion'.deleted = deletion.deleted
  PROVE  CountedObjectsAreGone'
<1>1. \A k : Rank(k)' = Rank(k)
  BY DEF Rank
<1> QED
  BY <1>1 DEF CountedObjectsAreGone

LEMMA CountedStart ==
  ASSUME PurgeInv, NEW w \in Workers, NEW g \in Generations, NEW now \in Times,
         StartAccountPurge(w, g, now)
  PROVE  CountedObjectsAreGone'
<1>1. TypeOK /\ CountedObjectsAreGone
  BY DEF PurgeInv
<1>2. rows' = rows /\ objects' = objects /\ deletion'.deleted = Offset
  BY <1>1, StartShape DEF StartAccountPurge
<1>3. \A k \in rows \cap objects : Offset < Rank(k)
  BY <1>1, RankType DEF CountedObjectsAreGone, Offset
<1>4. \A k : Rank(k)' = Rank(k)
  BY <1>2 DEF Rank
<1> QED
  BY <1>2, <1>3, <1>4 DEF CountedObjectsAreGone

\* The page of a call is gone when it records, and what lies before it was.
LEMMA CountedRecord ==
  ASSUME PurgeInv, NEW w \in Workers, RecordAccountPurgeProgress(w)
  PROVE  CountedObjectsAreGone'
<1>1. /\ TypeOK /\ CountedObjectsAreGone /\ InStep(w)
      /\ calls[w].op = "purge" /\ calls[w].at = "record"
      /\ rows' = rows /\ objects' = objects
  BY DEF PurgeInv, CallsInStep, RecordAccountPurgeProgress, Purging
<1>2. calls[w].base \in Nat /\ Reached(w) \in Nat /\ deletion.deleted \in Nat
  BY <1>1, CallShape, ReachedType DEF PurgeCall, TypeOK, Deletion
<1>3. /\ deletion'.state = deletion.state
      /\ deletion'.deleted = IF MayRecord(calls[w].generation, Reached(w))
                             THEN Reached(w) ELSE deletion.deleted
  BY <1>1, <1>2, RecordedGrows DEF RecordAccountPurgeProgress
<1>4. ASSUME deletion.state = "purging_r2", NEW k \in rows \cap objects
      PROVE  Reached(w) < Rank(k)
  <2>1. /\ calls[w].base <= deletion.deleted
        /\ calls[w].page = Page(calls[w].base)
        /\ k \notin calls[w].page
    BY <1>1, <1>4 DEF InStep
  <2>2. deletion.deleted < Rank(k) /\ Rank(k) \in Nat /\ k \in rows
    BY <1>1, <1>4, RankType DEF CountedObjectsAreGone
  <2>3. calls[w].base < Rank(k)
    BY <1>2, <2>1, <2>2
  <2> QED
    BY <1>1, <1>2, <2>1, <2>2, <2>3, PageReaches DEF Reached
<1>5. \A k : Rank(k)' = Rank(k)
  BY <1>1 DEF Rank
<1> QED
  BY <1>1, <1>3, <1>4, <1>5 DEF CountedObjectsAreGone

\* A failure is recorded with a progress that others have reached.
LEMMA CountedFailure ==
  ASSUME PurgeInv, NEW w \in Workers, RecordFailure(w)
  PROVE  CountedObjectsAreGone'
<1>1. /\ TypeOK /\ CountedObjectsAreGone /\ InStep(w)
      /\ calls[w].op = "purge"
      /\ rows' = rows /\ objects' = objects
  BY DEF PurgeInv, CallsInStep, RecordFailure, Purging
<1>2. calls[w].base \in Nat /\ deletion.deleted \in Nat
  BY <1>1, CallShape DEF PurgeCall, TypeOK, Deletion
<1>3. /\ deletion'.state = deletion.state
      /\ deletion'.deleted = IF MayRecord(calls[w].generation, calls[w].base)
                             THEN calls[w].base ELSE deletion.deleted
  BY <1>1, <1>2, RecordedGrows DEF RecordFailure
<1>4. deletion.state = "purging_r2" => deletion'.deleted = deletion.deleted
  BY <1>1, <1>2, <1>3 DEF InStep, MayRecord
<1> QED
  BY <1>1, <1>3, <1>4, CountedKept

\* A call that comes to its last batch has counted every row of the inventory,
\* and nothing but a last owner refuses the seal.
LEMMA FinalizeComplete ==
  ASSUME PurgeInv, NEW w \in Workers, FinalizeAccountPurge(w)
  PROVE  /\ rows \cap objects = {}
         /\ ~lastOwner => Sealed(calls[w].generation)
<1>1. /\ TypeOK /\ CountedObjectsAreGone /\ CountsAgree /\ InStep(w)
      /\ calls[w].op = "purge" /\ calls[w].at = "finalize"
      /\ InState(calls[w].generation, {"purging_r2"})
  BY DEF PurgeInv, CallsInStep, FinalizeAccountPurge, Purging, Stamped, Sealed
<1>2. deletion.state = "purging_r2"
  BY <1>1 DEF InState
<1>3. /\ deletion.deleted \in Nat /\ deletion.expected \in Nat
      /\ Reached(w) \in Nat /\ Inventory \in Nat
  BY <1>1, ReachedType, InventoryType DEF TypeOK, Deletion
<1>4. /\ deletion.deleted = deletion.expected
      /\ deletion.expected = Inventory
  BY <1>1, <1>2, <1>3 DEF InStep, CountsAgree
<1>5. ASSUME NEW k \in rows \cap objects PROVE FALSE
  <2>1. Inventory < Rank(k)
    BY <1>1, <1>2, <1>4, <1>5 DEF CountedObjectsAreGone
  <2> QED
    BY <1>1, <1>3, <1>5, <2>1, RankType
<1>6. ~lastOwner => Sealed(calls[w].generation)
  BY <1>1, <1>4 DEF Sealed
<1> QED
  BY <1>5, <1>6

LEMMA CountedStep ==
  ASSUME PurgeInv, Progresses, [Next]_vars
  PROVE  CountedObjectsAreGone'
<1>1. TypeOK /\ CountedObjectsAreGone
  BY DEF PurgeInv
<1>2. CASE User
  <2>1. deletion'.state # "purging_r2" \/ UNCHANGED deletion
    BY <1>1, <1>2
    DEF User, EditAttachments, BeginRecoverableAccountDeletion, PassCutoff,
        ChangeOwnership, TypeOK, Deletion
  <2>2. CASE UNCHANGED <<rows, objects>>
    BY <1>1, <2>1, <2>2, CountedKept
  <2>3. ASSUME NEW S, NEW T, EditAttachments(S, T)
        PROVE  deletion'.state # "purging_r2"
    BY <1>1, <2>3 DEF EditAttachments, TypeOK
  <2> QED
    BY <1>2, <2>2, <2>3
    DEF User, BeginRecoverableAccountDeletion, PassCutoff, ChangeOwnership,
        CountedObjectsAreGone
<1>3. ASSUME NEW w \in Workers, RecoverAccountDeletion(w) \/ MarkAccountPurgeReady(w)
      PROVE  CountedObjectsAreGone'
  <2>1. deletion'.state # "purging_r2" \/ UNCHANGED deletion
    BY <1>1, <1>3
    DEF RecoverAccountDeletion, MarkAccountPurgeReady, TypeOK, Deletion
  <2> QED
    BY <1>1, <1>3, <2>1, CountedKept
    DEF RecoverAccountDeletion, MarkAccountPurgeReady
<1>4. ASSUME NEW w \in Workers, FinalizeAccountPurge(w)
      PROVE  CountedObjectsAreGone'
  <2>1. deletion'.state = "tombstoned"
    BY <1>1, <1>4 DEF FinalizeAccountPurge, TypeOK, Deletion
  <2> QED
    BY <2>1 DEF CountedObjectsAreGone
<1>5. CASE UNCHANGED <<deletion, rows>> /\ objects' \subseteq objects
  BY <1>1, <1>5, CountedKept
<1> QED
  BY <1>2, <1>3, <1>4, <1>5, CountedStart, CountedRecord, CountedFailure
  DEF Next, Operator, ReadForRecover, PlanAccountDeletion, DeletePage,
      DeletePageFails, FinalizeConflicts, Abandon, vars

\* Outside a deletion that is begun or prepared, the counts and the rows stay.
LEMMA CountsKept ==
  ASSUME CountsAgree, rows' = rows,
         deletion'.state \in {"purge_ready", "purging_r2"} => UNCHANGED deletion
  PROVE  CountsAgree'
BY DEF CountsAgree, Inventory

LEMMA CountsRecorded ==
  ASSUME PurgeInv, NEW w \in Workers,
         RecordAccountPurgeProgress(w) \/ RecordFailure(w)
  PROVE  CountsAgree'
<1>1. TypeOK /\ CountsAgree /\ rows' = rows
  BY DEF PurgeInv, RecordAccountPurgeProgress, RecordFailure
<1>2. PICK count \in Nat : deletion' = Recorded(w, count)
  <2>1. calls[w].base \in Nat /\ Reached(w) \in Nat
    BY <1>1, CallShape, ReachedType
    DEF RecordAccountPurgeProgress, RecordFailure, Purging, PurgeCall
  <2> QED
    BY <2>1 DEF RecordAccountPurgeProgress, RecordFailure
<1>3. CASE MayRecord(calls[w].generation, count)
  <2>1. /\ deletion'.state = deletion.state
        /\ deletion'.expected = deletion.expected
        /\ deletion'.deleted = count
    BY <1>1, <1>2, <1>3, RecordedGrows
  <2> QED
    BY <1>1, <1>3, <2>1 DEF CountsAgree, Inventory, MayRecord
<1>4. CASE ~MayRecord(calls[w].generation, count)
  BY <1>1, <1>2, <1>4, CountsKept DEF Recorded
<1> QED
  BY <1>3, <1>4

LEMMA CountsStarted ==
  ASSUME PurgeInv, NEW w \in Workers, NEW g \in Generations, NEW now \in Times,
         StartAccountPurge(w, g, now)
  PROVE  CountsAgree'
<1>1. TypeOK /\ CountsAgree /\ rows' = rows /\ deletion.expected = Inventory
  BY DEF PurgeInv, StartAccountPurge
<1>2. deletion'.deleted = Offset /\ deletion'.expected = deletion.expected
  BY <1>1, StartShape
<1>3. Offset <= deletion.expected
  BY <1>1 DEF CountsAgree, Offset, TypeOK, Deletion
<1> QED
  BY <1>1, <1>2, <1>3 DEF CountsAgree, Inventory

LEMMA CountsPrepared ==
  ASSUME PurgeInv, NEW w \in Workers, MarkAccountPurgeReady(w)
  PROVE  CountsAgree'
<1>1. TypeOK /\ CountsAgree /\ rows' = rows
  BY DEF PurgeInv, MarkAccountPurgeReady
<1>2. CASE MayPrepare(calls[w])
  <2>1. deletion'.state = "purge_ready" /\ deletion'.expected = Inventory
    BY <1>1, <1>2 DEF MarkAccountPurgeReady, MayPrepare, TypeOK, Deletion
  <2> QED
    BY <1>1, <2>1 DEF CountsAgree, Inventory
<1>3. CASE ~MayPrepare(calls[w])
  BY <1>1, <1>3, CountsKept DEF MarkAccountPurgeReady
<1> QED
  BY <1>2, <1>3

LEMMA CountsStep ==
  ASSUME PurgeInv, TypeOK', [Next]_vars
  PROVE  CountsAgree'
<1>1. TypeOK /\ CountsAgree
  BY DEF PurgeInv
<1>2. CASE User
  <2>1. \/ UNCHANGED <<deletion, rows>>
        \/ deletion'.state \notin {"purge_ready", "purging_r2"}
    <3>1. BeginRecoverableAccountDeletion => deletion'.state = "recoverable"
      BY DEF BeginRecoverableAccountDeletion
    <3>2. PassCutoff => deletion'.state = "recoverable"
      BY <1>1 DEF PassCutoff, TypeOK, Deletion
    <3>3. \A S, T : EditAttachments(S, T) =>
            deletion'.state \notin {"purge_ready", "purging_r2"}
      BY <1>1 DEF EditAttachments, TypeOK
    <3> QED
      BY <1>2, <3>1, <3>2, <3>3 DEF User, ChangeOwnership
  <2> QED
    BY <1>1, <2>1 DEF CountsAgree, Inventory
<1>3. ASSUME NEW w \in Workers, RecoverAccountDeletion(w) \/ FinalizeAccountPurge(w)
      PROVE  CountsAgree'
  <2>1. \/ UNCHANGED <<deletion, rows>>
        \/ deletion'.state \in {"recovered", "tombstoned"}
    BY <1>1, <1>3
    DEF RecoverAccountDeletion, FinalizeAccountPurge, TypeOK, Deletion
  <2> QED
    BY <1>1, <2>1 DEF CountsAgree, Inventory
<1>4. CASE UNCHANGED <<deletion, rows>>
  BY <1>1, <1>4, CountsKept
<1> QED
  BY <1>2, <1>3, <1>4, CountsRecorded, CountsStarted, CountsPrepared
  DEF Next, Operator, ReadForRecover, PlanAccountDeletion, DeletePage,
      DeletePageFails, FinalizeConflicts, Abandon, vars

-----------------------------------------------------------------------------
(* Theorems *)

LEMMA PurgeInvInit == Init => PurgeInv
<1> SUFFICES ASSUME Init PROVE PurgeInv
  OBVIOUS
<1>1. deletion \in Deletion
  BY GenerationsAreBounded DEF Init, Deletion
<1>2. TypeOK
  BY <1>1 DEF Init, TypeOK
<1>3. deletion.state = "none" /\ \A w \in Workers : calls[w].op = "idle"
  BY DEF Init, Idle
<1> QED
  BY <1>2, <1>3
  DEF PurgeInv, Init, CountsAgree, CountedObjectsAreGone, CallsInStep, InStep

LEMMA PurgeInvStep == PurgeInv /\ [Next]_vars => PurgeInv'
<1> SUFFICES ASSUME PurgeInv, [Next]_vars PROVE PurgeInv'
  OBVIOUS
<1>1. TypeOK
  BY DEF PurgeInv
<1>2. TypeOK' /\ Progresses
  BY <1>1, TypeStep, StepProgresses
<1>3. CallsInStep' /\ CountedObjectsAreGone' /\ CountsAgree'
  BY <1>2, CallsInStepStep, CountedStep, CountsStep
<1> QED
  BY <1>2, <1>3 DEF PurgeInv

\* The invariant of the argument: no call loses its deletion, the progress has
\* passed the base of every call, and the inventory is the one that was counted.
THEOREM PurgeInvariant == Spec => []PurgeInv
BY PurgeInvInit, PurgeInvStep, PTL DEF Spec

\* The row of account_deletions and the calls have their shapes, and only a
\* disabled account is being purged or gone.
THEOREM PurgeTypeCorrect == Spec => []TypeOK
<1>1. PurgeInv => TypeOK
  BY DEF PurgeInv
<1> QED
  BY <1>1, PurgeInvariant, PTL

\* Whatever calls of purge overlap, fail half-way or end, the keys that
\* r2_objects_deleted counts have no object.
THEOREM CountedIsGone == Spec => []CountedObjectsAreGone
<1>1. PurgeInv => CountedObjectsAreGone
  BY DEF PurgeInv
<1> QED
  BY <1>1, PurgeInvariant, PTL

\* finalizeAccountPurge deletes rows only under its seal and only when no object
\* is left that one of them names, and the statement that makes the tombstone
\* leaves the rows only of a user who has become a last owner.
THEOREM RowsGoAfterTheirObjects == Spec => RowsGoLast
<1> DEFINE Last ==
      disabled =>
        /\ rows' # rows =>
             deletion'.state = "tombstoned" /\ rows' = {} /\ ~lastOwner
        /\ deletion.state # "tombstoned" /\ deletion'.state = "tombstoned" =>
             rows \cap objects = {} /\ (rows' = {} \/ lastOwner)
<1>1. ASSUME PurgeInv, NEW w \in Workers, FinalizeAccountPurge(w)
      PROVE  Last
  <2>1. deletion'.state = "tombstoned"
    BY <1>1 DEF FinalizeAccountPurge, PurgeInv, TypeOK, Deletion
  <2>2. rows \cap objects = {} /\ (~lastOwner => Sealed(calls[w].generation))
    BY <1>1, FinalizeComplete
  <2> QED
    BY <1>1, <2>1, <2>2 DEF FinalizeAccountPurge, Sealed
<1>2. ASSUME PurgeInv, [Next]_vars, ~ \E w \in Workers : FinalizeAccountPurge(w)
      PROVE  Last
  <2> SUFFICES ASSUME disabled
               PROVE  /\ rows' = rows
                      /\ deletion'.state = "tombstoned" => deletion.state = "tombstoned"
    OBVIOUS
  <2>1. TypeOK
    BY <1>2 DEF PurgeInv
  <2>2. ASSUME NEW w \in Workers, RecordAccountPurgeProgress(w) \/ RecordFailure(w)
        PROVE  deletion'.state = deletion.state
    BY <2>1, <2>2 DEF RecordAccountPurgeProgress, RecordFailure, Recorded, TypeOK, Deletion
  <2>3. ASSUME NEW w \in Workers, NEW g \in Generations, NEW now \in Times,
               StartAccountPurge(w, g, now)
        PROVE  deletion'.state = "purging_r2"
    BY <2>1, <2>3, StartShape
  <2>4. ASSUME NEW w \in Workers, RecoverAccountDeletion(w) \/ MarkAccountPurgeReady(w)
        PROVE  deletion'.state # "tombstoned" \/ UNCHANGED deletion
    BY <2>1, <2>4
    DEF RecoverAccountDeletion, MarkAccountPurgeReady, TypeOK, Deletion
  <2>5. ASSUME User
        PROVE  rows' = rows /\ (deletion'.state # "tombstoned" \/ UNCHANGED deletion)
    BY <2>1, <2>5
    DEF User, EditAttachments, BeginRecoverableAccountDeletion, PassCutoff,
        ChangeOwnership, TypeOK, Deletion
  <2>6. deletion'.state = "tombstoned" => deletion.state = "tombstoned"
    BY <1>2, <2>2, <2>3, <2>4, <2>5
    DEF Next, Operator, ReadForRecover, PlanAccountDeletion, DeletePage,
        DeletePageFails, FinalizeConflicts, Abandon, vars
  <2>7. rows' = rows
    BY <1>2, <2>5
    DEF Next, Operator, ReadForRecover, PlanAccountDeletion, StartAccountPurge,
        RecoverAccountDeletion, MarkAccountPurgeReady, DeletePage,
        DeletePageFails, RecordAccountPurgeProgress, RecordFailure,
        FinalizeConflicts, Abandon, vars
  <2> QED
    BY <2>6, <2>7
<1>3. PurgeInv /\ [Next]_vars => [Last]_vars
  BY <1>1, <1>2
<1> QED
  BY <1>3, PurgeInvariant, PTL DEF Spec, RowsGoLast

\* recordAccountPurgeProgress never moves the progress back, whichever of two
\* overlapping calls records last.
THEOREM ProgressIsMonotone == Spec => ProgressNeverMovesBack
<1>1. TypeOK /\ TypeOK' /\ [Next]_vars =>
        [deletion.state = "purging_r2" /\ deletion'.state = "purging_r2"
           => deletion'.deleted >= deletion.deleted]_vars
  <2> SUFFICES ASSUME TypeOK, TypeOK', [Next]_vars, deletion.state = "purging_r2",
                      deletion'.state = "purging_r2"
               PROVE  deletion'.deleted >= deletion.deleted
    OBVIOUS
  <2>1. deletion.deleted <= deletion'.deleted
    BY StepProgresses DEF Progresses, Purged
  <2> QED
    BY <2>1 DEF TypeOK, Deletion
<1> QED
  BY <1>1, PurgeTypeCorrect, PTL DEF Spec, ProgressNeverMovesBack

\* Recovery and purge exclude each other: no object of a disabled account goes
\* before its deletion is being purged, and an account whose purge was approved
\* stays disabled.
THEOREM RecoveryExcludesPurge == Spec => NothingGoesBeforeThePurge
<1>1. PurgeInv /\ [Next]_vars =>
        [/\ disabled /\ objects' # objects
              => deletion.state \in {"purging_r2", "tombstoned"}
         /\ deletion.state \in {"purge_ready", "purging_r2", "tombstoned"}
              => disabled']_vars
  <2> SUFFICES ASSUME PurgeInv, [Next]_vars
               PROVE  /\ disabled /\ objects' # objects
                           => deletion.state \in {"purging_r2", "tombstoned"}
                      /\ deletion.state \in {"purge_ready", "purging_r2", "tombstoned"}
                           => disabled'
    OBVIOUS
  <2>1. TypeOK /\ CallsInStep
    BY DEF PurgeInv
  <2>2. ASSUME disabled, objects' # objects
        PROVE  deletion.state \in {"purging_r2", "tombstoned"}
    <3>1. PICK w \in Workers : DeletePage(w) \/ DeletePageFails(w)
      BY <2>2
      DEF Next, User, Operator, EditAttachments,
          BeginRecoverableAccountDeletion, PassCutoff, ChangeOwnership,
          ReadForRecover, PlanAccountDeletion, StartAccountPurge,
          RecoverAccountDeletion, MarkAccountPurgeReady,
          RecordAccountPurgeProgress, RecordFailure, FinalizeAccountPurge,
          FinalizeConflicts, Abandon, vars
    <3>2. calls[w].op = "purge"
      BY <3>1 DEF DeletePage, DeletePageFails, Purging
    <3> QED
      BY <2>1, <3>2 DEF CallsInStep, InStep
  <2>3. ASSUME deletion.state \in {"purge_ready", "purging_r2", "tombstoned"}
        PROVE  disabled'
    <3>1. disabled
      BY <2>1, <2>3 DEF TypeOK
    <3> QED
      BY <2>3, <3>1
      DEF Next, User, Operator, EditAttachments,
          BeginRecoverableAccountDeletion, PassCutoff, ChangeOwnership,
          ReadForRecover, PlanAccountDeletion, StartAccountPurge,
          RecoverAccountDeletion, MayRecover, InState, MarkAccountPurgeReady,
          DeletePage, DeletePageFails, RecordAccountPurgeProgress,
          RecordFailure, FinalizeAccountPurge, FinalizeConflicts, Abandon, vars
  <2> QED
    BY <2>2, <2>3
<1> QED
  BY <1>1, PurgeInvariant, PTL DEF Spec, NothingGoesBeforeThePurge
=============================================================================
