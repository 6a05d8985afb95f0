-------------------------- MODULE PipelineStoreProofs --------------------------
(***************************************************************************)
(* The safety properties of PipelineStore hold for any number of saves,    *)
(* reads, pipelines and connections.  IInv is inductive: one lemma per     *)
(* kind of action shows that it keeps IInv, and every property follows.    *)
(*                                                                         *)
(* The tables are the log of versions that VersionLog promises: every step *)
(* appends one whole recipe, registers or removes a pipeline, or is none   *)
(* that a reader of the log could see.  With IInv this needs one fact      *)
(* more: the numbers of a pipeline's committed versions are those from 1   *)
(* to some n.                                                              *)
(***************************************************************************)
EXTENDS PipelineStore, FiniteSetTheorems, TLAPS

\* A returning call leaves the pool within its bound.
LEMMA PoolRelease ==
    ASSUME NEW c, IsFiniteSet(held), Cardinality(held) <= MaxConns
    PROVE  IsFiniteSet(held \ {c}) /\ Cardinality(held \ {c}) <= MaxConns
  BY FS_RemoveElement, FS_CardinalityType, StoreAssumption DEF StoreAssumption

\* A call that finds a free connection takes the pool at most to its bound.
LEMMA PoolAcquire ==
    ASSUME NEW c, IsFiniteSet(held), FreeConn
    PROVE  IsFiniteSet(held \cup {c}) /\ Cardinality(held \cup {c}) <= MaxConns
<1>1. Cardinality(held) \in Nat
  BY FS_CardinalityType
<1>2. /\ IsFiniteSet(held \cup {c})
      /\ Cardinality(held \cup {c}) = IF c \in held THEN Cardinality(held)
                                                    ELSE Cardinality(held) + 1
  BY FS_AddElement
<1> QED
  BY <1>1, <1>2, StoreAssumption DEF StoreAssumption, FreeConn

\* A save that fails keeps the types of what Fail writes, and frees its connection.
LEMMA FailFrame ==
    ASSUME TypeOK, PoolBound, NEW s \in Saves, NEW error \in NamedErrors, Fail(s, error),
           UNCHANGED creation
    PROVE  /\ call' \in [Saves -> SaveStates]
           /\ tx' \in [Saves -> InFlight \cup {"none", "committed", "rolledback"}]
           /\ pending' \subseteq Saves /\ held' \subseteq Saves \cup Pipelines
           /\ PoolBound'
<1>1. error \in SaveStates /\ error \notin Working
  BY DEF SaveStates, Returned, NamedErrors, Working
<1>2. /\ call' \in [Saves -> SaveStates]
      /\ call'[s] = error /\ \A u \in Saves \ {s} : call'[u] = call[u]
  BY <1>1 DEF TypeOK, Fail
<1>3. /\ tx' \in [Saves -> InFlight \cup {"none", "committed", "rolledback"}]
      /\ pending' \subseteq Saves /\ held' \subseteq Saves \cup Pipelines
  BY DEF TypeOK, Fail
<1>4. held' = {u \in Saves : call'[u] \in Working}
               \cup {p \in Pipelines : creation'[p] = "inserting"}
  BY <1>1, <1>2, StoreAssumption DEF Fail, PoolBound, StoreAssumption
<1>5. IsFiniteSet(held') /\ Cardinality(held') <= MaxConns
  BY PoolRelease DEF Fail, PoolBound
<1> QED
  BY <1>2, <1>3, <1>4, <1>5 DEF PoolBound

\* So does any save that has come out of the transaction.
LEMMA ReleaseFrame ==
    ASSUME PoolBound, NEW s \in Saves, \A u \in Saves \ {s} : call'[u] = call[u],
           call'[s] \notin Working, held' = held \ {s}, UNCHANGED creation
    PROVE  PoolBound'
<1>1. held' = {u \in Saves : call'[u] \in Working}
               \cup {p \in Pipelines : creation'[p] = "inserting"}
  BY StoreAssumption DEF PoolBound, StoreAssumption
<1>2. IsFiniteSet(held') /\ Cardinality(held') <= MaxConns
  BY PoolRelease DEF PoolBound
<1> QED
  BY <1>1, <1>2 DEF PoolBound

\* The set a save carries is a sequence of fields.
LEMMA DraftFields ==
    ASSUME TypeOK, NEW s \in Saves
    PROVE  draft[s].fields \in Seq(Fields)
<1>1. CASE draft[s] = NoDraft
  BY <1>1 DEF NoDraft
<1>2. CASE draft[s] \in Drafts
  BY <1>2, StoreAssumption DEF StoreAssumption
<1> QED
  BY <1>1, <1>2 DEF TypeOK

\* The mapping rows of a committed version are all the fields of its draft.
LEMMA CommittedRows ==
    ASSUME TypeOK, Stages, RowStates, NEW s \in rows
    PROVE  /\ MappingRows(s) = {draft[s].fields[i] : i \in DOMAIN draft[s].fields}
           /\ MappingRows(s) \subseteq Fields
<1>1. s \in Saves /\ written[s] = Len(draft[s].fields)
  BY DEF TypeOK, Stages, RowStates
<1>2. draft[s].fields \in Seq(Fields)
  BY <1>1, DraftFields
<1> QED
  BY <1>1, <1>2 DEF MappingRows

LEMMA InitIInv == Init => IInv
<1> SUFFICES ASSUME Init PROVE IInv
  OBVIOUS
<1>1. TypeOK
  BY DEF Init, TypeOK, SaveStates, NoRead, ReadType
<1>2. PoolBound
  BY FS_EmptySet, StoreAssumption DEF Init, PoolBound, StoreAssumption, Working
<1>3. Stages /\ RowStates /\ Validated
  BY DEF Init, Stages, RowStates, Validated, NamedErrors
<1>4. NoReturn /\ KeysUnique /\ NoOrphanVersions /\ NoGaps
  BY DEF Init, NoReturn, KeysUnique, NoOrphanVersions, NoGaps
<1>5. ConflictHasWinner /\ Creations /\ ReadsRows /\ ReadIsWhole
  BY DEF Init, ConflictHasWinner, Creations, ReadsRows, ReadIsWhole, NoRead
<1> QED
  BY <1>1, <1>2, <1>3, <1>4, <1>5 DEF IInv

\* A step that only moves reads disturbs only what is said of reads.
LEMMA ReadsFrame ==
    ASSUME IInv, UNCHANGED <<creates, saves>>
    PROVE  /\ PoolBound' /\ Stages' /\ Validated' /\ KeysUnique' /\ ConflictHasWinner'
           /\ RowStates' /\ NoReturn' /\ Creations' /\ NoOrphanVersions' /\ NoGaps'
<1>1. PoolBound' /\ Stages' /\ Validated' /\ KeysUnique' /\ ConflictHasWinner'
  BY DEF IInv, creates, saves, PoolBound, Stages, Validated, KeysUnique, ConflictHasWinner, SameKey
<1>2. RowStates' /\ NoReturn' /\ Creations' /\ NoOrphanVersions' /\ NoGaps'
  BY DEF IInv, creates, saves, RowStates, NoReturn, Creations, SameName, NoOrphanVersions, NoGaps
<1> QED
  BY <1>1, <1>2

\* A step of CreatePipeline leaves what is said of saves and reads as it is: the pipeline
\* it may add is one that no save has found and no read has asked for with success.
LEMMA CreateFrame ==
    ASSUME IInv, UNCHANGED <<call, tx, target, draft, number, pending, rows, written, read>>,
           pipelines \subseteq pipelines',
           \A q \in pipelines' \ pipelines : insertion[q] # "committed",
           \A q \in pipelines' : insertion'[q] = "committed",
           \A q \in Pipelines : insertion[q] = "committed" => insertion'[q] = "committed"
    PROVE  /\ Stages' /\ Validated' /\ KeysUnique' /\ ConflictHasWinner' /\ RowStates' /\ NoReturn'
           /\ NoOrphanVersions' /\ NoGaps' /\ ReadsRows' /\ ReadIsWhole'
<1> USE DEF IInv
<1>1. Stages' /\ Validated' /\ KeysUnique' /\ ConflictHasWinner' /\ NoOrphanVersions' /\ ReadsRows'
  BY DEF Stages, Validated, KeysUnique, ConflictHasWinner, SameKey, NoOrphanVersions, ReadsRows
<1>2. NoReturn'
  BY DEF NoReturn
<1>3. RowStates'
  BY DEF RowStates, NoReturn
<1>4. NoGaps'
  BY DEF NoGaps, NoReturn, NoOrphanVersions, TypeOK
<1>5. ReadIsWhole'
  BY DEF ReadIsWhole, ReadsRows, NoReturn
<1> QED
  BY <1>1, <1>2, <1>3, <1>4, <1>5

\* An index entry that refused a call stays that of another call.
LEMMA DuplicatesKeep ==
    ASSUME IInv,
           \A q \in Pipelines : insertion[q] = "committed" =>
               insertion'[q] = "committed" /\ label'[q] = label[q],
           \A q \in Pipelines : insertion'[q] = "duplicate" =>
               insertion[q] = "duplicate" /\ label'[q] = label[q]
    PROVE  \A p \in Pipelines : insertion'[p] = "duplicate" =>
               \E q \in Pipelines \ {p} : insertion'[q] = "committed" /\ SameName(p, q)'
<1> SUFFICES ASSUME NEW p \in Pipelines, insertion'[p] = "duplicate"
             PROVE  \E q \in Pipelines \ {p} : insertion'[q] = "committed" /\ SameName(p, q)'
  OBVIOUS
<1>1. PICK q \in Pipelines \ {p} : insertion[q] = "committed" /\ SameName(p, q)
  BY DEF IInv, Creations
<1>2. label'[p] = label[p] /\ label'[q] = label[q] /\ insertion'[q] = "committed"
  BY <1>1
<1> QED
  BY <1>1, <1>2 DEF SameName

LEMMA RefuseCreateKeeps ==
    ASSUME IInv, NEW p \in Pipelines, NEW t \in Tenants \cup {NilId}, NEW n \in Names, RefuseCreate(p, t, n)
    PROVE  IInv'
<1> USE DEF IInv
<1>1. TypeOK'
  BY DEF TypeOK, RefuseCreate, saves
<1>2. PoolBound'
  BY DEF TypeOK, PoolBound, RefuseCreate, saves
<1>3. Creations'
  BY DEF TypeOK, Creations, SameName, RefuseCreate
<1>4. /\ Stages' /\ Validated' /\ KeysUnique' /\ ConflictHasWinner' /\ RowStates' /\ NoReturn'
      /\ NoOrphanVersions' /\ NoGaps' /\ ReadsRows' /\ ReadIsWhole'
  BY CreateFrame DEF RefuseCreate, saves, NoReturn
<1> QED
  BY <1>1, <1>2, <1>3, <1>4

LEMMA SendInsertKeeps ==
    ASSUME IInv, NEW p \in Pipelines, NEW t \in Tenants \cup {NilId}, NEW n \in Names, SendInsert(p, t, n)
    PROVE  IInv'
<1> USE DEF IInv
<1>0. insertion[p] = "none" /\ p \notin pipelines
  BY DEF SendInsert, Creations, NoReturn
<1>1. TypeOK'
  BY DEF TypeOK, SendInsert
<1>2. PoolBound'
  <2>1. held' = {u \in Saves : call'[u] \in Working}
                 \cup {q \in Pipelines : creation'[q] = "inserting"}
    BY DEF SendInsert, TypeOK, PoolBound
  <2> QED
    BY <2>1, PoolAcquire DEF PoolBound, SendInsert
<1>3. Creations'
  <2>1. \A x \in Pipelines : insertion'[x] = "duplicate" =>
            \E q \in Pipelines \ {x} : insertion'[q] = "committed" /\ SameName(x, q)'
    BY <1>0, DuplicatesKeep DEF TypeOK, SendInsert
  <2> QED
    BY <1>0, <2>1 DEF TypeOK, Creations, SendInsert
<1>4. /\ Stages' /\ Validated' /\ KeysUnique' /\ ConflictHasWinner' /\ RowStates' /\ NoReturn'
      /\ NoOrphanVersions' /\ NoGaps' /\ ReadsRows' /\ ReadIsWhole'
  BY <1>0, CreateFrame DEF SendInsert, TypeOK, NoReturn
<1> QED
  BY <1>1, <1>2, <1>3, <1>4

LEMMA FailCreateKeeps ==
    ASSUME IInv, NEW p \in Pipelines, NEW t \in Tenants \cup {NilId}, NEW n \in Names, FailCreate(p, t, n)
    PROVE  IInv'
<1> USE DEF IInv
<1>1. TypeOK'
  BY DEF TypeOK, FailCreate, saves
<1>2. PoolBound'
  BY DEF TypeOK, PoolBound, FailCreate, saves
<1>3. Creations'
  BY DEF TypeOK, Creations, SameName, FailCreate
<1>4. /\ Stages' /\ Validated' /\ KeysUnique' /\ ConflictHasWinner' /\ RowStates' /\ NoReturn'
      /\ NoOrphanVersions' /\ NoGaps' /\ ReadsRows' /\ ReadIsWhole'
  BY CreateFrame DEF FailCreate, saves, NoReturn
<1> QED
  BY <1>1, <1>2, <1>3, <1>4

LEMMA InsertLandsKeeps ==
    ASSUME IInv, NEW p \in Pipelines, InsertLands(p)
    PROVE  IInv'
<1> USE DEF IInv
<1>1. TypeOK'
  BY DEF TypeOK, InsertLands, saves
<1>2. PoolBound'
  BY DEF TypeOK, PoolBound, InsertLands, saves
<1>3. Creations'
  <2>1. \A x \in Pipelines : insertion'[x] = "duplicate" =>
            \E q \in Pipelines \ {x} : insertion'[q] = "committed" /\ SameName(x, q)'
    BY DuplicatesKeep DEF TypeOK, InsertLands
  <2> QED
    BY <2>1 DEF TypeOK, Creations, InsertLands
<1>4. /\ Stages' /\ Validated' /\ KeysUnique' /\ ConflictHasWinner' /\ RowStates' /\ NoReturn'
      /\ NoOrphanVersions' /\ NoGaps' /\ ReadsRows' /\ ReadIsWhole'
  BY CreateFrame DEF InsertLands, TypeOK, saves, NoReturn
<1> QED
  BY <1>1, <1>2, <1>3, <1>4

LEMMA InsertRefusedKeeps ==
    ASSUME IInv, NEW p \in Pipelines, InsertRefused(p)
    PROVE  IInv'
<1> USE DEF IInv
<1>0. p \notin pipelines
  BY DEF InsertRefused, NoReturn
<1>1. TypeOK'
  BY DEF TypeOK, InsertRefused, saves
<1>2. PoolBound'
  BY DEF TypeOK, PoolBound, InsertRefused, saves
<1>3. Creations'
  <2>1. ASSUME NameTaken(p)
        PROVE  \E q \in Pipelines \ {p} : insertion[q] = "committed" /\ SameName(p, q)
    BY <1>0, <2>1 DEF NameTaken, NoReturn, TypeOK
  <2>2. ASSUME NEW x \in Pipelines, insertion'[x] = "duplicate"
        PROVE  \E q \in Pipelines \ {x} : insertion'[q] = "committed" /\ SameName(x, q)'
    <3>1. PICK q \in Pipelines \ {x} : insertion[q] = "committed" /\ SameName(x, q)
      BY <2>1, <2>2 DEF TypeOK, Creations, InsertRefused
    <3>2. insertion'[q] = "committed" /\ label' = label
      BY <3>1 DEF TypeOK, InsertRefused
    <3> QED
      BY <3>1, <3>2 DEF SameName
  <2> QED
    BY <2>2 DEF TypeOK, Creations, InsertRefused
<1>4. /\ Stages' /\ Validated' /\ KeysUnique' /\ ConflictHasWinner' /\ RowStates' /\ NoReturn'
      /\ NoOrphanVersions' /\ NoGaps' /\ ReadsRows' /\ ReadIsWhole'
  BY <1>0, CreateFrame DEF InsertRefused, TypeOK, saves, NoReturn
<1> QED
  BY <1>1, <1>2, <1>3, <1>4

LEMMA CreateReplyKeeps ==
    ASSUME IInv, NEW p \in Pipelines, CreateReply(p)
    PROVE  IInv'
<1> USE DEF IInv
<1>1. TypeOK'
  BY DEF TypeOK, CreateReply
<1>2. PoolBound'
  <2>1. held' = {u \in Saves : call'[u] \in Working}
                 \cup {q \in Pipelines : creation'[q] = "inserting"}
    BY StoreAssumption DEF CreateReply, TypeOK, PoolBound, StoreAssumption
  <2> QED
    BY <2>1, PoolRelease DEF PoolBound, CreateReply
<1>3. Creations'
  BY DEF TypeOK, Creations, SameName, CreateReply
<1>4. /\ Stages' /\ Validated' /\ KeysUnique' /\ ConflictHasWinner' /\ RowStates' /\ NoReturn'
      /\ NoOrphanVersions' /\ NoGaps' /\ ReadsRows' /\ ReadIsWhole'
  BY CreateFrame DEF CreateReply, NoReturn
<1> QED
  BY <1>1, <1>2, <1>3, <1>4

LEMMA GiveUpCreateKeeps ==
    ASSUME IInv, NEW p \in Pipelines, GiveUpCreate(p)
    PROVE  IInv'
<1> USE DEF IInv
<1>1. TypeOK'
  BY DEF TypeOK, GiveUpCreate
<1>2. PoolBound'
  <2>1. held' = {u \in Saves : call'[u] \in Working}
                 \cup {q \in Pipelines : creation'[q] = "inserting"}
    BY StoreAssumption DEF GiveUpCreate, TypeOK, PoolBound, StoreAssumption
  <2> QED
    BY <2>1, PoolRelease DEF PoolBound, GiveUpCreate
<1>3. Creations'
  BY DEF TypeOK, Creations, SameName, GiveUpCreate
<1>4. /\ Stages' /\ Validated' /\ KeysUnique' /\ ConflictHasWinner' /\ RowStates' /\ NoReturn'
      /\ NoOrphanVersions' /\ NoGaps' /\ ReadsRows' /\ ReadIsWhole'
  BY CreateFrame DEF GiveUpCreate, NoReturn
<1> QED
  BY <1>1, <1>2, <1>3, <1>4

LEMMA LoseInsertKeeps ==
    ASSUME IInv, NEW p \in Pipelines, LoseInsert(p)
    PROVE  IInv'
<1> USE DEF IInv
<1>0. p \notin pipelines
  BY DEF LoseInsert, NoReturn
<1>1. TypeOK'
  BY DEF TypeOK, LoseInsert
<1>2. PoolBound'
  <2>1. held' = {u \in Saves : call'[u] \in Working}
                 \cup {q \in Pipelines : creation'[q] = "inserting"}
    BY StoreAssumption DEF LoseInsert, TypeOK, PoolBound, StoreAssumption
  <2> QED
    BY <2>1, PoolRelease DEF PoolBound, LoseInsert
<1>3. Creations'
  BY DEF TypeOK, Creations, SameName, LoseInsert
<1>4. /\ Stages' /\ Validated' /\ KeysUnique' /\ ConflictHasWinner' /\ RowStates' /\ NoReturn'
      /\ NoOrphanVersions' /\ NoGaps' /\ ReadsRows' /\ ReadIsWhole'
  BY <1>0, CreateFrame DEF LoseInsert, TypeOK, NoReturn
<1> QED
  BY <1>1, <1>2, <1>3, <1>4

LEMMA StartSaveKeeps ==
    ASSUME IInv, NEW s \in Saves, NEW p \in Pipelines, NEW d \in Drafts, StartSave(s, p, d)
    PROVE  IInv'
<1> USE DEF IInv
<1>1. TypeOK'
  BY StoreAssumption DEF TypeOK, StartSave, NamedErrors, Working, creates,
         SaveStates, Returned, InFlight, StoreAssumption
<1>2. PoolBound'
  BY PoolRelease, StoreAssumption
  DEF StoreAssumption, PoolBound, TypeOK, StartSave, NamedErrors, Working,
         creates
<1>3. Stages' /\ RowStates'
  BY DEF Stages, TypeOK, RowStates, StartSave, NamedErrors, Working, creates
<1>4. Validated'
  BY DEF Validated, TypeOK, Stages, RowStates, StartSave, NamedErrors,
         Working, creates
<1>5. NoReturn' /\ Creations'
  BY DEF Creations, SameName, NoReturn, TypeOK, Stages, RowStates, StartSave,
         NamedErrors, Working, creates
<1>6. KeysUnique'
  BY DEF KeysUnique, TypeOK, RowStates, Stages, SameKey, StartSave,
         NamedErrors, Working, creates
<1>7. NoOrphanVersions' /\ NoGaps'
  BY DEF NoOrphanVersions, TypeOK, RowStates, Stages, NoGaps, NoReturn,
         StartSave, NamedErrors, Working, creates
<1>8. ConflictHasWinner'
  BY DEF ConflictHasWinner, TypeOK, Stages, RowStates, SameKey, NamedErrors,
         StartSave, Working, creates
<1>9. ReadsRows'
  BY DEF ReadsRows, TypeOK, Stages, RowStates, StartSave, NamedErrors,
         Working, creates
<1>10. ReadIsWhole'
  BY DEF ReadIsWhole, TypeOK, ReadsRows, Stages, RowStates, NoReturn,
         StartSave, NamedErrors, Working, creates
<1> QED
  BY <1>1, <1>2, <1>3, <1>4, <1>5, <1>6, <1>7, <1>8, <1>9, <1>10

LEMMA BeginKeeps ==
    ASSUME IInv, NEW s \in Saves, Begin(s)
    PROVE  IInv'
<1> USE DEF IInv
<1>1. TypeOK'
  BY StoreAssumption DEF TypeOK, Begin, Working, InFlight, creates,
         SaveStates, Returned, NamedErrors, StoreAssumption
<1>2. PoolBound'
  <2>1. held' = held \cup {s} /\ FreeConn
    BY DEF Begin
  <2>2. held' = {u \in Saves : call'[u] \in Working}
                 \cup {p \in Pipelines : creation'[p] = "inserting"}
    BY <2>1, StoreAssumption DEF Begin, TypeOK, PoolBound, Working, creates, StoreAssumption
  <2> QED
    BY <2>1, <2>2, PoolAcquire DEF PoolBound
<1>3. Stages' /\ RowStates'
  BY DEF Stages, TypeOK, RowStates, Begin, Working, InFlight, creates,
         NamedErrors
<1>4. Validated'
  BY DEF Validated, TypeOK, Stages, RowStates, Begin, Working, InFlight,
         creates
<1>5. NoReturn' /\ Creations'
  BY DEF Creations, SameName, NoReturn, TypeOK, Stages, RowStates, Begin, Working,
         InFlight, creates
<1>6. KeysUnique'
  BY DEF KeysUnique, TypeOK, RowStates, Stages, SameKey, Begin, Working,
         InFlight, creates
<1>7. NoOrphanVersions' /\ NoGaps'
  BY DEF NoOrphanVersions, TypeOK, RowStates, Stages, NoGaps, NoReturn, Begin,
         Working, InFlight, creates
<1>8. ConflictHasWinner'
  BY DEF ConflictHasWinner, TypeOK, Stages, RowStates, SameKey, NamedErrors,
         Begin, Working, InFlight, creates
<1>9. ReadsRows'
  BY DEF ReadsRows, TypeOK, Stages, RowStates, Begin, Working, InFlight,
         creates
<1>10. ReadIsWhole'
  BY DEF ReadIsWhole, TypeOK, ReadsRows, Stages, RowStates, NoReturn, Begin,
         Working, InFlight, creates
<1> QED
  BY <1>1, <1>2, <1>3, <1>4, <1>5, <1>6, <1>7, <1>8, <1>9, <1>10

LEMMA AllocateKeeps ==
    ASSUME IInv, NEW s \in Saves, Allocate(s)
    PROVE  IInv'
<1> USE DEF IInv
<1>1. TypeOK'
  <2>1. ASSUME NEW max \in {0} \cup Numbers(target[s]) PROVE max \in Nat
    BY <2>1 DEF TypeOK, Numbers
  <2>2. number' \in [Saves -> Nat]
    BY <2>1 DEF TypeOK, Allocate
  <2>3. \/ call' = [call EXCEPT ![s] = "inserting"] /\ UNCHANGED <<tx, pending, held>>
        \/ Fail(s, "ErrInvalidDraft")
    BY DEF Allocate
  <2>4. call' \in [Saves -> SaveStates]
    BY <2>3 DEF TypeOK, Fail, SaveStates, Working, Returned, NamedErrors
  <2>5. /\ pending' \subseteq Saves /\ held' \subseteq Saves \cup Pipelines
        /\ tx' \in [Saves -> InFlight \cup {"none", "committed", "rolledback"}]
    BY <2>3 DEF TypeOK, Fail
  <2> QED
    BY <2>2, <2>4, <2>5 DEF TypeOK, Allocate, creates
<1>2. PoolBound'
  <2>1. CASE call' = [call EXCEPT ![s] = "inserting"] /\ held' = held
    BY <2>1 DEF TypeOK, PoolBound, Working, Allocate, creates
  <2>2. CASE Fail(s, "ErrInvalidDraft")
    BY <2>2, FailFrame DEF NamedErrors, Allocate, creates
  <2> QED
    BY <2>1, <2>2 DEF Allocate
<1>3. Stages' /\ RowStates'
  BY DEF Stages, TypeOK, RowStates, Allocate, Fail, IsLatest, Numbers,
         NamedErrors, Working, InFlight, creates
<1>4. Validated'
  BY DEF Validated, TypeOK, Stages, RowStates, Allocate, Fail, IsLatest,
         Numbers, NamedErrors, Working, InFlight, creates
<1>5. NoReturn' /\ Creations'
  BY DEF Creations, SameName, NoReturn, TypeOK, Stages, RowStates, Allocate, Fail,
         IsLatest, Numbers, NamedErrors, Working, InFlight, creates
<1>6. KeysUnique'
  BY DEF KeysUnique, TypeOK, RowStates, Stages, SameKey, Allocate, Fail,
         IsLatest, Numbers, NamedErrors, Working, InFlight, creates
<1>7. NoOrphanVersions' /\ NoGaps'
  <2>1. /\ rows' = rows /\ pipelines' = pipelines /\ target' = target
        /\ pending' \subseteq pending /\ s \notin pending /\ s \notin rows
        /\ \A u \in Saves : u # s => number'[u] = number[u] /\ call'[u] = call[u]
    BY DEF TypeOK, Stages, RowStates, Allocate, Fail, creates
  <2>2. PICK max \in {0} \cup Numbers(target[s]) :
             IsLatest(target[s], max) /\ number'[s] = max + 1
    BY DEF TypeOK, Allocate
  <2>3. target[s] \in pipelines /\ max \in Nat
    BY DEF TypeOK, Numbers, Allocate
  <2>4. ASSUME NEW n \in 1..max
        PROVE  \E u \in rows : target[u] = target[s] /\ number[u] = n
    <3>1. PICK v \in rows : target[v] = target[s] /\ number[v] = max
      BY <2>3, <2>4 DEF Numbers
    <3>2. CASE n = max
      BY <3>1, <3>2
    <3>3. CASE n \in 1..(number[v] - 1)
      <4>1. v \in Saves
        BY DEF TypeOK
      <4> QED
        BY <2>3, <3>1, <3>3, <4>1 DEF NoGaps
    <3> QED
      BY <2>3, <2>4, <3>1, <3>2, <3>3
  <2>5. ASSUME NEW u \in Saves, NEW n \in 1..(number'[u] - 1),
               call'[u] = "inserting" \/ u \in pending' \cup rows',
               target[u] \in pipelines
        PROVE  \E w \in rows : target[w] = target[u] /\ number[w] = n
    <3>1. CASE u = s
      BY <2>2, <2>3, <2>4, <2>5, <3>1
    <3>2. CASE u # s
      BY <2>1, <2>5, <3>2 DEF NoGaps
    <3> QED
      BY <3>1, <3>2
  <2>6. NoOrphanVersions'
    BY <2>1 DEF NoOrphanVersions
  <2>7. \A w \in rows : w \in Saves /\ number'[w] = number[w]
    BY <2>1 DEF TypeOK
  <2> QED
    BY <2>1, <2>5, <2>6, <2>7 DEF NoGaps
<1>8. ConflictHasWinner'
  <2>1. /\ target' = target /\ tx[s] = "open" /\ call'[s] # "ErrVersionConflict"
        /\ \A u \in Saves : u # s =>
              number'[u] = number[u] /\ call'[u] = call[u] /\ tx'[u] = tx[u]
    BY DEF TypeOK, Stages, Allocate, Fail
  <2>2. ASSUME NEW u \in Saves, call'[u] = "ErrVersionConflict"
        PROVE  \E w \in Saves : w # u /\ tx'[w] = "committed" /\ SameKey(u, w)'
    <3>1. u # s /\ call[u] = "ErrVersionConflict"
      BY <2>1, <2>2
    <3>2. PICK w \in Saves : w # u /\ tx[w] = "committed" /\ SameKey(u, w)
      BY <3>1 DEF ConflictHasWinner
    <3> QED
      BY <2>1, <3>1, <3>2 DEF SameKey
  <2> QED
    BY <2>2 DEF ConflictHasWinner
<1>9. ReadsRows'
  BY DEF ReadsRows, TypeOK, Stages, RowStates, Allocate, Fail, IsLatest,
         Numbers, NamedErrors, Working, InFlight, creates
<1>10. ReadIsWhole'
  BY DEF ReadIsWhole, TypeOK, ReadsRows, Stages, RowStates, NoReturn,
         Allocate, Fail, IsLatest, Numbers, NamedErrors, Working, InFlight,
         creates
<1> QED
  BY <1>1, <1>2, <1>3, <1>4, <1>5, <1>6, <1>7, <1>8, <1>9, <1>10

LEMMA AllocateMissingKeeps ==
    ASSUME IInv, NEW s \in Saves, AllocateMissing(s)
    PROVE  IInv'
<1> USE DEF IInv
<1>1. TypeOK'
  BY StoreAssumption DEF TypeOK, AllocateMissing, Fail, NamedErrors, Working,
         creates, SaveStates, Returned, InFlight, StoreAssumption
<1>2. PoolBound'
  <2>1. Fail(s, "ErrPipelineNotFound") /\ "ErrPipelineNotFound" \in NamedErrors
    BY DEF AllocateMissing, NamedErrors
  <2> QED
    BY <2>1, FailFrame DEF AllocateMissing, creates
<1>3. Stages' /\ RowStates'
  BY DEF Stages, TypeOK, RowStates, AllocateMissing, Fail, NamedErrors,
         Working, creates
<1>4. Validated'
  BY DEF Validated, TypeOK, Stages, RowStates, AllocateMissing, Fail,
         NamedErrors, Working, creates
<1>5. NoReturn' /\ Creations'
  BY DEF Creations, SameName, NoReturn, TypeOK, Stages, RowStates, AllocateMissing,
         Fail, NamedErrors, Working, creates
<1>6. KeysUnique'
  BY DEF KeysUnique, TypeOK, RowStates, Stages, SameKey, AllocateMissing,
         Fail, NamedErrors, Working, creates
<1>7. NoOrphanVersions' /\ NoGaps'
  BY DEF NoOrphanVersions, TypeOK, RowStates, Stages, NoGaps, NoReturn,
         AllocateMissing, Fail, NamedErrors, Working, creates
<1>8. ConflictHasWinner'
  BY DEF ConflictHasWinner, TypeOK, Stages, RowStates, SameKey, NamedErrors,
         AllocateMissing, Fail, Working, creates
<1>9. ReadsRows'
  BY DEF ReadsRows, TypeOK, Stages, RowStates, AllocateMissing, Fail,
         NamedErrors, Working, creates
<1>10. ReadIsWhole'
  BY DEF ReadIsWhole, TypeOK, ReadsRows, Stages, RowStates, NoReturn,
         AllocateMissing, Fail, NamedErrors, Working, creates
<1> QED
  BY <1>1, <1>2, <1>3, <1>4, <1>5, <1>6, <1>7, <1>8, <1>9, <1>10

LEMMA InsertVersionKeeps ==
    ASSUME IInv, NEW s \in Saves, InsertVersion(s)
    PROVE  IInv'
<1> USE DEF IInv
<1>1. TypeOK'
  BY StoreAssumption DEF TypeOK, InsertVersion, InsertBlocked, SameKey,
         InFlight, Working, creates, SaveStates, Returned, NamedErrors,
         StoreAssumption
<1>2. PoolBound'
  BY PoolRelease, StoreAssumption
  DEF StoreAssumption, PoolBound, TypeOK, InsertVersion, InsertBlocked, SameKey,
         InFlight, Working, creates
<1>3. Stages' /\ RowStates'
  <2>1. draft[s].fields \in Seq(Fields)
    BY DraftFields
  <2>2. draft[s].fields # <<>> => written[s] < Len(draft[s].fields)
    BY <2>1 DEF Stages, InsertVersion
  <2> QED
    BY <2>1, <2>2 DEF Stages, RowStates, TypeOK, InsertVersion, NamedErrors, InFlight, creates
<1>4. Validated'
  BY DEF Validated, TypeOK, Stages, RowStates, InsertVersion, InsertBlocked,
         SameKey, InFlight, Working, creates
<1>5. NoReturn' /\ Creations'
  BY DEF Creations, SameName, NoReturn, TypeOK, Stages, RowStates, InsertVersion,
         InsertBlocked, SameKey, InFlight, Working, creates
<1>6. KeysUnique'
  <2>1. ASSUME NEW u \in Saves, u \in pending \/ tx[u] = "committed"
        PROVE  ~SameKey(s, u)
    BY <2>1 DEF InsertVersion, InsertBlocked, RowStates, SameKey
  <2>2. pending' = pending \cup {s} /\ tx' = tx /\ target' = target /\ number' = number
    BY DEF InsertVersion
  <2> QED
    BY <2>1, <2>2 DEF KeysUnique, SameKey
<1>7. NoOrphanVersions' /\ NoGaps'
  BY DEF NoOrphanVersions, TypeOK, RowStates, Stages, NoGaps, NoReturn,
         InsertVersion, InsertBlocked, SameKey, InFlight, Working, creates
<1>8. ConflictHasWinner'
  BY DEF ConflictHasWinner, TypeOK, Stages, RowStates, SameKey, NamedErrors,
         InsertVersion, InsertBlocked, InFlight, Working, creates
<1>9. ReadsRows'
  BY DEF ReadsRows, TypeOK, Stages, RowStates, InsertVersion, InsertBlocked,
         SameKey, InFlight, Working, creates
<1>10. ReadIsWhole'
  BY DEF ReadIsWhole, TypeOK, ReadsRows, Stages, RowStates, NoReturn,
         InsertVersion, InsertBlocked, SameKey, InFlight, Working, creates
<1> QED
  BY <1>1, <1>2, <1>3, <1>4, <1>5, <1>6, <1>7, <1>8, <1>9, <1>10

LEMMA InsertVersionFailsKeeps ==
    ASSUME IInv, NEW s \in Saves, InsertVersionFails(s)
    PROVE  IInv'
<1> USE DEF IInv
<1>0. PICK error \in NamedErrors : Fail(s, error) /\ UNCHANGED creation
  BY DEF InsertVersionFails, NamedErrors, creates
<1>1. TypeOK'
  BY <1>0, FailFrame DEF TypeOK, InsertVersionFails, creates
<1>2. PoolBound'
  BY <1>0, FailFrame
<1>3. Stages' /\ RowStates'
  BY DEF Stages, TypeOK, RowStates, InsertVersionFails, Fail, SameKey,
         NamedErrors, Working, creates
<1>4. Validated'
  BY DEF Validated, TypeOK, Stages, RowStates, InsertVersionFails, Fail,
         SameKey, NamedErrors, Working, creates
<1>5. NoReturn' /\ Creations'
  BY DEF Creations, SameName, NoReturn, TypeOK, Stages, RowStates,
         InsertVersionFails, Fail, SameKey, NamedErrors, Working, creates
<1>6. KeysUnique'
  BY DEF KeysUnique, TypeOK, RowStates, Stages, SameKey, InsertVersionFails,
         Fail, NamedErrors, Working, creates
<1>7. NoOrphanVersions' /\ NoGaps'
  BY DEF NoOrphanVersions, TypeOK, RowStates, Stages, NoGaps, NoReturn,
         InsertVersionFails, Fail, SameKey, NamedErrors, Working, creates
<1>8. ConflictHasWinner'
  <2>1. target' = target /\ number' = number /\ rows' = rows /\ tx[s] = "open"
    BY DEF InsertVersionFails, Stages
  <2>2. \A u \in Saves : u # s => call'[u] = call[u] /\ tx'[u] = tx[u]
    BY DEF TypeOK, InsertVersionFails, Fail
  <2>3. ASSUME call'[s] = "ErrVersionConflict"
        PROVE  \E u \in rows : SameKey(s, u)
    BY <2>3 DEF TypeOK, InsertVersionFails, Fail
  <2>4. s \notin rows /\ rows \subseteq Saves /\ \A u \in rows : tx'[u] = "committed"
    BY <2>1, <2>2 DEF TypeOK, RowStates
  <2>5. ASSUME NEW u \in Saves, call'[u] = "ErrVersionConflict"
        PROVE  \E w \in Saves : w # u /\ tx'[w] = "committed" /\ SameKey(u, w)'
    <3>1. CASE u = s
      BY <2>1, <2>3, <2>4, <2>5, <3>1 DEF SameKey
    <3>2. CASE u # s
      BY <2>1, <2>2, <2>5, <3>2 DEF ConflictHasWinner, SameKey
    <3> QED
      BY <3>1, <3>2
  <2> QED
    BY <2>5 DEF ConflictHasWinner
<1>9. ReadsRows'
  BY DEF ReadsRows, TypeOK, Stages, RowStates, InsertVersionFails, Fail,
         SameKey, NamedErrors, Working, creates
<1>10. ReadIsWhole'
  BY DEF ReadIsWhole, TypeOK, ReadsRows, Stages, RowStates, NoReturn,
         InsertVersionFails, Fail, SameKey, NamedErrors, Working, creates
<1> QED
  BY <1>1, <1>2, <1>3, <1>4, <1>5, <1>6, <1>7, <1>8, <1>9, <1>10

LEMMA InsertMappingKeeps ==
    ASSUME IInv, NEW s \in Saves, InsertMapping(s)
    PROVE  IInv'
<1> USE DEF IInv
<1>0. /\ \/ \E error \in NamedErrors : Fail(s, error)
         \/ /\ call[s] = "mapping" /\ UNCHANGED <<tx, pending, held>>
            /\ call' \in {[call EXCEPT ![s] = "committing"], [call EXCEPT ![s] = "mapping"]}
      /\ UNCHANGED creation
  BY DEF InsertMapping, NamedErrors, creates
<1>1. TypeOK'
  <2>1. written' \in [Saves -> Nat]
    <3>1. written[s] + 1 \in Nat
      BY DEF TypeOK
    <3>2. \/ written' = written
          \/ written' = [written EXCEPT ![s] = written[s] + 1]
      BY DEF InsertMapping
    <3> QED
      BY <3>1, <3>2 DEF TypeOK
  <2>2. /\ call' \in [Saves -> SaveStates] /\ pending' \subseteq Saves /\ held' \subseteq Saves \cup Pipelines
        /\ tx' \in [Saves -> InFlight \cup {"none", "committed", "rolledback"}]
    BY <1>0, FailFrame DEF TypeOK, SaveStates, Working
  <2> QED
    BY <2>1, <2>2 DEF TypeOK, InsertMapping, creates
<1>2. PoolBound'
  <2>1. CASE call' \in {[call EXCEPT ![s] = "committing"], [call EXCEPT ![s] = "mapping"]}
                /\ call[s] = "mapping" /\ held' = held
    BY <1>0, <2>1 DEF TypeOK, PoolBound, Working
  <2> QED
    BY <1>0, <2>1, FailFrame
<1>3. Stages' /\ RowStates'
  BY DEF Stages, TypeOK, RowStates, InsertMapping, Fail, NamedErrors, Working,
         TableRefuses, creates
<1>4. Validated'
  BY DEF Validated, TypeOK, Stages, RowStates, InsertMapping, Fail,
         NamedErrors, Working, TableRefuses, creates
<1>5. NoReturn' /\ Creations'
  BY DEF Creations, SameName, NoReturn, TypeOK, Stages, RowStates, InsertMapping,
         Fail, NamedErrors, Working, TableRefuses, creates
<1>6. KeysUnique'
  BY DEF KeysUnique, TypeOK, RowStates, Stages, SameKey, InsertMapping, Fail,
         NamedErrors, Working, TableRefuses, creates
<1>7. NoOrphanVersions' /\ NoGaps'
  <2>1. /\ rows' = rows /\ pipelines' = pipelines /\ target' = target /\ number' = number
        /\ pending' \subseteq pending
    BY DEF InsertMapping, Fail, creates
  <2>2. \A u \in Saves : call'[u] = "inserting" => call[u] = "inserting"
    BY DEF TypeOK, InsertMapping, Fail
  <2> QED
    BY <2>1, <2>2 DEF TypeOK, NoOrphanVersions, NoGaps
<1>8. ConflictHasWinner'
  BY DEF ConflictHasWinner, TypeOK, Stages, RowStates, SameKey, NamedErrors,
         InsertMapping, Fail, Working, TableRefuses, creates
<1>9. ReadsRows'
  BY DEF ReadsRows, TypeOK, Stages, RowStates, InsertMapping, Fail,
         NamedErrors, Working, TableRefuses, creates
<1>10. ReadIsWhole'
  BY DEF ReadIsWhole, TypeOK, ReadsRows, Stages, RowStates, NoReturn,
         InsertMapping, Fail, NamedErrors, Working, TableRefuses, creates
<1> QED
  BY <1>1, <1>2, <1>3, <1>4, <1>5, <1>6, <1>7, <1>8, <1>9, <1>10

LEMMA SendCommitKeeps ==
    ASSUME IInv, NEW s \in Saves, SendCommit(s)
    PROVE  IInv'
<1> USE DEF IInv
<1>1. TypeOK'
  BY StoreAssumption DEF TypeOK, SendCommit, InFlight, Working, creates,
         SaveStates, Returned, NamedErrors, StoreAssumption
<1>2. PoolBound'
  BY PoolRelease, StoreAssumption
  DEF StoreAssumption, PoolBound, TypeOK, SendCommit, InFlight, Working, creates
<1>3. Stages' /\ RowStates'
  BY DEF Stages, TypeOK, RowStates, SendCommit, InFlight, Working, creates
<1>4. Validated'
  BY DEF Validated, TypeOK, Stages, RowStates, SendCommit, InFlight, Working,
         creates
<1>5. NoReturn' /\ Creations'
  BY DEF Creations, SameName, NoReturn, TypeOK, Stages, RowStates, SendCommit,
         InFlight, Working, creates
<1>6. KeysUnique'
  BY DEF KeysUnique, TypeOK, RowStates, Stages, SameKey, SendCommit, InFlight,
         Working, creates
<1>7. NoOrphanVersions' /\ NoGaps'
  BY DEF NoOrphanVersions, TypeOK, RowStates, Stages, NoGaps, NoReturn,
         SendCommit, InFlight, Working, creates
<1>8. ConflictHasWinner'
  BY DEF ConflictHasWinner, TypeOK, Stages, RowStates, SameKey, NamedErrors,
         SendCommit, InFlight, Working, creates
<1>9. ReadsRows'
  BY DEF ReadsRows, TypeOK, Stages, RowStates, SendCommit, InFlight, Working,
         creates
<1>10. ReadIsWhole'
  BY DEF ReadIsWhole, TypeOK, ReadsRows, Stages, RowStates, NoReturn,
         SendCommit, InFlight, Working, creates
<1> QED
  BY <1>1, <1>2, <1>3, <1>4, <1>5, <1>6, <1>7, <1>8, <1>9, <1>10

LEMMA CommitLandsKeeps ==
    ASSUME IInv, NEW s \in Saves, CommitLands(s)
    PROVE  IInv'
<1> USE DEF IInv
<1>1. TypeOK'
  BY StoreAssumption DEF TypeOK, CommitLands, InFlight, Working, creates,
         SaveStates, Returned, NamedErrors, StoreAssumption
<1>2. PoolBound'
  BY PoolRelease, StoreAssumption
  DEF StoreAssumption, PoolBound, TypeOK, CommitLands, InFlight, Working,
         creates
<1>3. Stages' /\ RowStates'
  BY DEF Stages, TypeOK, RowStates, CommitLands, InFlight, Working, creates
<1>4. Validated'
  BY DEF Validated, TypeOK, Stages, RowStates, CommitLands, InFlight, Working,
         creates
<1>5. NoReturn' /\ Creations'
  BY DEF Creations, SameName, NoReturn, TypeOK, Stages, RowStates, CommitLands,
         InFlight, Working, creates,
         NoOrphanVersions
<1>6. KeysUnique'
  BY DEF KeysUnique, TypeOK, RowStates, Stages, SameKey, CommitLands,
         InFlight, Working, creates
<1>7. NoOrphanVersions' /\ NoGaps'
  BY DEF NoOrphanVersions, TypeOK, RowStates, Stages, NoGaps, NoReturn,
         CommitLands, InFlight, Working, creates
<1>8. ConflictHasWinner'
  BY DEF ConflictHasWinner, TypeOK, Stages, RowStates, SameKey, NamedErrors,
         CommitLands, InFlight, Working, creates
<1>9. ReadsRows'
  BY DEF ReadsRows, TypeOK, Stages, RowStates, CommitLands, InFlight, Working,
         creates
<1>10. ReadIsWhole'
  BY DEF ReadIsWhole, TypeOK, ReadsRows, Stages, RowStates, NoReturn,
         CommitLands, InFlight, Working, creates
<1> QED
  BY <1>1, <1>2, <1>3, <1>4, <1>5, <1>6, <1>7, <1>8, <1>9, <1>10

LEMMA CommitReplyKeeps ==
    ASSUME IInv, NEW s \in Saves, CommitReply(s)
    PROVE  IInv'
<1> USE DEF IInv
<1>1. TypeOK'
  BY StoreAssumption DEF TypeOK, CommitReply, Working, NamedErrors, creates,
         SaveStates, Returned, InFlight, StoreAssumption
<1>2. PoolBound'
  <2>1. /\ \A u \in Saves \ {s} : call'[u] = call[u]
        /\ call'[s] \notin Working /\ held' = held \ {s} /\ creation' = creation
    BY DEF TypeOK, CommitReply, Working, NamedErrors, creates
  <2> QED
    BY <2>1, ReleaseFrame
<1>3. Stages' /\ RowStates'
  BY DEF Stages, TypeOK, RowStates, CommitReply, Working, NamedErrors, creates
<1>4. Validated'
  BY DEF Validated, TypeOK, Stages, RowStates, CommitReply, Working,
         NamedErrors, creates
<1>5. NoReturn' /\ Creations'
  BY DEF Creations, SameName, NoReturn, TypeOK, Stages, RowStates, CommitReply,
         Working, NamedErrors, creates
<1>6. KeysUnique'
  BY DEF KeysUnique, TypeOK, RowStates, Stages, SameKey, CommitReply, Working,
         NamedErrors, creates
<1>7. NoOrphanVersions' /\ NoGaps'
  BY DEF NoOrphanVersions, TypeOK, RowStates, Stages, NoGaps, NoReturn,
         CommitReply, Working, NamedErrors, creates
<1>8. ConflictHasWinner'
  BY DEF ConflictHasWinner, TypeOK, Stages, RowStates, SameKey, NamedErrors,
         CommitReply, Working, creates
<1>9. ReadsRows'
  BY DEF ReadsRows, TypeOK, Stages, RowStates, CommitReply, Working,
         NamedErrors, creates
<1>10. ReadIsWhole'
  BY DEF ReadIsWhole, TypeOK, ReadsRows, Stages, RowStates, NoReturn,
         CommitReply, Working, NamedErrors, creates
<1> QED
  BY <1>1, <1>2, <1>3, <1>4, <1>5, <1>6, <1>7, <1>8, <1>9, <1>10

LEMMA GiveUpKeeps ==
    ASSUME IInv, NEW s \in Saves, GiveUp(s)
    PROVE  IInv'
<1> USE DEF IInv
<1>1. TypeOK'
  BY StoreAssumption DEF TypeOK, GiveUp, Working, NamedErrors, creates,
         SaveStates, Returned, InFlight, StoreAssumption
<1>2. PoolBound'
  <2>1. /\ \A u \in Saves \ {s} : call'[u] = call[u]
        /\ call'[s] \notin Working /\ held' = held \ {s} /\ creation' = creation
    BY DEF TypeOK, GiveUp, Working, NamedErrors, creates
  <2> QED
    BY <2>1, ReleaseFrame
<1>3. Stages' /\ RowStates'
  BY DEF Stages, TypeOK, RowStates, GiveUp, Working, NamedErrors, creates
<1>4. Validated'
  BY DEF Validated, TypeOK, Stages, RowStates, GiveUp, Working, NamedErrors,
         creates
<1>5. NoReturn' /\ Creations'
  BY DEF Creations, SameName, NoReturn, TypeOK, Stages, RowStates, GiveUp, Working,
         NamedErrors, creates
<1>6. KeysUnique'
  BY DEF KeysUnique, TypeOK, RowStates, Stages, SameKey, GiveUp, Working,
         NamedErrors, creates
<1>7. NoOrphanVersions' /\ NoGaps'
  BY DEF NoOrphanVersions, TypeOK, RowStates, Stages, NoGaps, NoReturn,
         GiveUp, Working, NamedErrors, creates
<1>8. ConflictHasWinner'
  BY DEF ConflictHasWinner, TypeOK, Stages, RowStates, SameKey, NamedErrors,
         GiveUp, Working, creates
<1>9. ReadsRows'
  BY DEF ReadsRows, TypeOK, Stages, RowStates, GiveUp, Working, NamedErrors,
         creates
<1>10. ReadIsWhole'
  BY DEF ReadIsWhole, TypeOK, ReadsRows, Stages, RowStates, NoReturn, GiveUp,
         Working, NamedErrors, creates
<1> QED
  BY <1>1, <1>2, <1>3, <1>4, <1>5, <1>6, <1>7, <1>8, <1>9, <1>10

LEMMA LoseTransactionKeeps ==
    ASSUME IInv, NEW s \in Saves, LoseTransaction(s)
    PROVE  IInv'
<1> USE DEF IInv
<1>1. TypeOK'
  BY StoreAssumption DEF TypeOK, LoseTransaction, InFlight, Working,
         NamedErrors, creates, SaveStates, Returned, StoreAssumption
<1>2. PoolBound'
  <2>1. /\ \A u \in Saves \ {s} : call'[u] = call[u]
        /\ call'[s] \notin Working /\ held' = held \ {s} /\ creation' = creation
    BY DEF TypeOK, LoseTransaction, Working, NamedErrors, creates
  <2> QED
    BY <2>1, ReleaseFrame
<1>3. Stages' /\ RowStates'
  BY DEF Stages, TypeOK, RowStates, LoseTransaction, InFlight, Working,
         NamedErrors, creates
<1>4. Validated'
  BY DEF Validated, TypeOK, Stages, RowStates, LoseTransaction, InFlight,
         Working, NamedErrors, creates
<1>5. NoReturn' /\ Creations'
  BY DEF Creations, SameName, NoReturn, TypeOK, Stages, RowStates, LoseTransaction,
         InFlight, Working, NamedErrors, creates
<1>6. KeysUnique'
  BY DEF KeysUnique, TypeOK, RowStates, Stages, SameKey, LoseTransaction,
         InFlight, Working, NamedErrors, creates
<1>7. NoOrphanVersions' /\ NoGaps'
  BY DEF NoOrphanVersions, TypeOK, RowStates, Stages, NoGaps, NoReturn,
         LoseTransaction, InFlight, Working, NamedErrors, creates
<1>8. ConflictHasWinner'
  BY DEF ConflictHasWinner, TypeOK, Stages, RowStates, SameKey, NamedErrors,
         LoseTransaction, InFlight, Working, creates
<1>9. ReadsRows'
  BY DEF ReadsRows, TypeOK, Stages, RowStates, LoseTransaction, InFlight,
         Working, NamedErrors, creates
<1>10. ReadIsWhole'
  BY DEF ReadIsWhole, TypeOK, ReadsRows, Stages, RowStates, NoReturn,
         LoseTransaction, InFlight, Working, NamedErrors, creates
<1> QED
  BY <1>1, <1>2, <1>3, <1>4, <1>5, <1>6, <1>7, <1>8, <1>9, <1>10

LEMMA StartReadKeeps ==
    ASSUME IInv, NEW r \in Reads, NEW p \in Pipelines, NEW n \in Nat, StartRead(r, p, n)
    PROVE  IInv'
<1> USE DEF IInv
<1>1. TypeOK'
  <2>1. read[r] \in ReadType
    BY DEF TypeOK
  <2>2. [read[r] EXCEPT !.at = "version", !.pipeline = p, !.number = n] \in ReadType
    BY <2>1 DEF ReadType
  <2> QED
    BY <2>2 DEF TypeOK, StartRead, creates, saves
<1>2. /\ PoolBound' /\ Stages' /\ Validated' /\ KeysUnique' /\ ConflictHasWinner'
      /\ RowStates' /\ NoReturn' /\ Creations' /\ NoOrphanVersions' /\ NoGaps'
  BY ReadsFrame DEF StartRead
<1>3. ReadsRows'
  BY DEF ReadsRows, TypeOK, Stages, RowStates, StartRead, creates, saves
<1>4. ReadIsWhole'
  BY DEF ReadIsWhole, TypeOK, ReadsRows, Stages, RowStates, NoReturn,
         StartRead, creates, saves
<1> QED
  BY <1>1, <1>2, <1>3, <1>4

LEMMA ReadVersionKeeps ==
    ASSUME IInv, NEW r \in Reads, ReadVersion(r)
    PROVE  IInv'
<1> USE DEF IInv
<1>1. TypeOK'
  <2>1. read[r] \in ReadType
    BY DEF TypeOK
  <2>2. PICK s \in Matching(read[r].pipeline, read[r].number) :
             read' = [read EXCEPT ![r] = [@ EXCEPT !.at = "mappings", !.row = s]]
    BY DEF ReadVersion
  <2>3. s \in Saves
    BY <2>2 DEF TypeOK, Matching
  <2>4. [read[r] EXCEPT !.at = "mappings", !.row = s] \in ReadType
    BY <2>1, <2>3 DEF ReadType
  <2>5. read' \in [Reads -> ReadType]
    BY <2>2, <2>4 DEF TypeOK
  <2> QED
    BY <2>5 DEF TypeOK, ReadVersion, creates, saves
<1>2. /\ PoolBound' /\ Stages' /\ Validated' /\ KeysUnique' /\ ConflictHasWinner'
      /\ RowStates' /\ NoReturn' /\ Creations' /\ NoOrphanVersions' /\ NoGaps'
  BY ReadsFrame DEF ReadVersion
<1>3. ReadsRows'
  <2>1. PICK s \in Matching(read[r].pipeline, read[r].number) :
             read' = [read EXCEPT ![r] = [@ EXCEPT !.at = "mappings", !.row = s]]
    BY DEF ReadVersion
  <2>2. s \in rows /\ target[s] = read[r].pipeline /\ number[s] = read[r].number
    BY DEF Matching
  <2>3. s \in Saves /\ tx[s] = "committed"
    BY <2>2 DEF TypeOK, RowStates
  <2>4. \A q \in Reads : q # r => read'[q] = read[q]
    BY <2>1 DEF TypeOK
  <2>5. /\ read'[r].row = s
        /\ read'[r].pipeline = read[r].pipeline /\ read'[r].number = read[r].number
    BY <2>1 DEF TypeOK, ReadType
  <2>6. tx' = tx /\ target' = target /\ number' = number
    BY DEF ReadVersion, saves
  <2> QED
    BY <2>2, <2>3, <2>4, <2>5, <2>6 DEF ReadsRows
<1>4. ReadIsWhole'
  <2>1. \A q \in Reads : q # r => read'[q] = read[q]
    BY DEF TypeOK, ReadVersion
  <2>2. read'[r].at = "mappings"
    BY DEF TypeOK, ReadType, ReadVersion
  <2> QED
    BY <2>1, <2>2 DEF ReadIsWhole, ReadVersion, creates, saves
<1> QED
  BY <1>1, <1>2, <1>3, <1>4

LEMMA ReadMissingKeeps ==
    ASSUME IInv, NEW r \in Reads, ReadMissing(r)
    PROVE  IInv'
<1> USE DEF IInv
<1>1. TypeOK'
  <2>1. read[r] \in ReadType
    BY DEF TypeOK
  <2>2. [read[r] EXCEPT !.at = "ErrVersionNotFound"] \in ReadType
    BY <2>1 DEF ReadType
  <2> QED
    BY <2>2 DEF TypeOK, ReadMissing, creates, saves
<1>2. /\ PoolBound' /\ Stages' /\ Validated' /\ KeysUnique' /\ ConflictHasWinner'
      /\ RowStates' /\ NoReturn' /\ Creations' /\ NoOrphanVersions' /\ NoGaps'
  BY ReadsFrame DEF ReadMissing
<1>3. ReadsRows'
  <2>1. \A q \in Reads : q # r => read'[q] = read[q]
    BY DEF TypeOK, ReadMissing
  <2>2. read'[r].at = "ErrVersionNotFound"
    BY DEF TypeOK, ReadType, ReadMissing
  <2> QED
    BY <2>1, <2>2 DEF ReadsRows, ReadMissing, saves
<1>4. ReadIsWhole'
  <2>1. \A q \in Reads : q # r => read'[q] = read[q]
    BY DEF TypeOK, ReadMissing
  <2>2. read'[r].at = "ErrVersionNotFound"
    BY DEF TypeOK, ReadType, ReadMissing
  <2> QED
    BY <2>1, <2>2 DEF ReadIsWhole, ReadMissing, creates, saves
<1> QED
  BY <1>1, <1>2, <1>3, <1>4

LEMMA ReadMappingsKeeps ==
    ASSUME IInv, NEW r \in Reads, ReadMappings(r)
    PROVE  IInv'
<1> USE DEF IInv
<1>1. TypeOK'
  <2>1. MappingRows(read[r].row) \subseteq Fields
    BY CommittedRows DEF MappingRows
  <2>2. read[r] \in ReadType
    BY DEF TypeOK
  <2>3. [read[r] EXCEPT !.at = "done", !.fields = MappingRows(read[r].row)] \in ReadType
    BY <2>1, <2>2 DEF ReadType
  <2> QED
    BY <2>3 DEF TypeOK, ReadMappings, creates, saves
<1>2. /\ PoolBound' /\ Stages' /\ Validated' /\ KeysUnique' /\ ConflictHasWinner'
      /\ RowStates' /\ NoReturn' /\ Creations' /\ NoOrphanVersions' /\ NoGaps'
  BY ReadsFrame DEF ReadMappings
<1>3. ReadsRows'
  BY DEF ReadsRows, TypeOK, Stages, RowStates, ReadMappings, MappingRows,
         creates, saves
<1>4. ReadIsWhole'
  <2> DEFINE v == read[r].row
  <2>1. \A q \in Reads : q # r => read'[q] = read[q]
    BY DEF TypeOK, ReadMappings
  <2>2. /\ read'[r].row = v /\ read'[r].fields = MappingRows(v)
        /\ read'[r].pipeline = read[r].pipeline
    BY DEF TypeOK, ReadType, ReadMappings
  <2>3. pipelines' = pipelines /\ draft' = draft
    BY DEF ReadMappings, creates, saves
  <2>4. v \in Saves /\ tx[v] = "committed" /\ target[v] = read[r].pipeline
    BY DEF ReadsRows, ReadMappings
  <2>5. \/ MappingRows(v) = {draft[v].fields[i] : i \in DOMAIN draft[v].fields}
        \/ MappingRows(v) = {} /\ read[r].pipeline \notin pipelines
    <3>1. CASE v \in rows
      BY <3>1, CommittedRows
    <3>2. CASE v \notin rows
      BY <2>4, <3>2 DEF MappingRows, RowStates
    <3> QED
      BY <3>1, <3>2
  <2> HIDE DEF v
  <2>6. ASSUME NEW q \in Reads, read'[q].at = "done"
        PROVE  LET u == read'[q].row
               IN  \/ read'[q].fields = {draft[u].fields[i] : i \in DOMAIN draft[u].fields}
                   \/ read'[q].fields = {} /\ read'[q].pipeline \notin pipelines
    <3>1. CASE q = r
      BY <2>2, <2>5, <3>1
    <3>2. CASE q # r
      BY <2>1, <2>6, <3>2 DEF ReadIsWhole
    <3> QED
      BY <3>1, <3>2
  <2> QED
    BY <2>3, <2>6 DEF ReadIsWhole
<1> QED
  BY <1>1, <1>2, <1>3, <1>4

LEMMA ReadFailsKeeps ==
    ASSUME IInv, NEW r \in Reads, ReadFails(r)
    PROVE  IInv'
<1> USE DEF IInv
<1>1. TypeOK'
  <2>1. read[r] \in ReadType
    BY DEF TypeOK
  <2>2. [read[r] EXCEPT !.at = "failed"] \in ReadType
    BY <2>1 DEF ReadType
  <2> QED
    BY <2>2 DEF TypeOK, ReadFails, creates, saves
<1>2. /\ PoolBound' /\ Stages' /\ Validated' /\ KeysUnique' /\ ConflictHasWinner'
      /\ RowStates' /\ NoReturn' /\ Creations' /\ NoOrphanVersions' /\ NoGaps'
  BY ReadsFrame DEF ReadFails
<1>3. /\ \A q \in Reads : q # r => read'[q] = read[q]
      /\ read'[r].at = "failed"
  BY DEF TypeOK, ReadType, ReadFails
<1>4. ReadsRows'
  BY <1>3 DEF ReadsRows, ReadFails, saves
<1>5. ReadIsWhole'
  BY <1>3 DEF ReadIsWhole, ReadFails, creates, saves
<1> QED
  BY <1>1, <1>2, <1>4, <1>5

LEMMA DeletePipelineKeeps ==
    ASSUME IInv, NEW p \in Pipelines, DeletePipeline(p)
    PROVE  IInv'
<1> USE DEF IInv
<1>1. TypeOK'
  BY StoreAssumption DEF TypeOK, DeletePipeline, InFlight, SaveStates,
         Returned, NamedErrors, Working, StoreAssumption
<1>2. PoolBound'
  BY PoolRelease, StoreAssumption
  DEF StoreAssumption, PoolBound, TypeOK, DeletePipeline, InFlight
<1>3. Stages' /\ RowStates'
  BY DEF Stages, TypeOK, RowStates, DeletePipeline, InFlight
<1>4. Validated'
  BY DEF Validated, TypeOK, Stages, RowStates, DeletePipeline, InFlight
<1>5. NoReturn' /\ Creations'
  BY DEF Creations, SameName, NoReturn, TypeOK, Stages, RowStates, DeletePipeline,
         InFlight
<1>6. KeysUnique'
  BY DEF KeysUnique, TypeOK, RowStates, Stages, SameKey, DeletePipeline,
         InFlight
<1>7. NoOrphanVersions' /\ NoGaps'
  BY DEF NoOrphanVersions, TypeOK, RowStates, Stages, NoGaps, NoReturn,
         DeletePipeline, InFlight
<1>8. ConflictHasWinner'
  BY DEF ConflictHasWinner, TypeOK, Stages, RowStates, SameKey, NamedErrors,
         DeletePipeline, InFlight
<1>9. ReadsRows'
  BY DEF ReadsRows, TypeOK, Stages, RowStates, DeletePipeline, InFlight
<1>10. ReadIsWhole'
  BY DEF ReadIsWhole, TypeOK, ReadsRows, Stages, RowStates, NoReturn,
         DeletePipeline, InFlight
<1> QED
  BY <1>1, <1>2, <1>3, <1>4, <1>5, <1>6, <1>7, <1>8, <1>9, <1>10


\* Every step of the specification keeps the inductive invariant.
LEMMA StepIInv == IInv /\ [Next]_vars => IInv'
<1> SUFFICES ASSUME IInv, [Next]_vars PROVE IInv'
  OBVIOUS
<1>1. ASSUME NEW p \in Pipelines, NEW t \in Tenants \cup {NilId}, NEW n \in Names,
             CreatePipeline(p, t, n)
      PROVE  IInv'
  BY <1>1, RefuseCreateKeeps, SendInsertKeeps, FailCreateKeeps DEF CreatePipeline
<1>2. ASSUME NEW s \in Saves, NEW p \in Pipelines, NEW d \in Drafts, StartSave(s, p, d)
      PROVE  IInv'
  BY <1>2, StartSaveKeeps
<1>3. ASSUME NEW s \in Saves, SaveStep(s)
      PROVE  IInv'
  BY <1>3, BeginKeeps, AllocateKeeps, AllocateMissingKeeps, InsertVersionKeeps,
     InsertVersionFailsKeeps, InsertMappingKeeps, SendCommitKeeps, CommitReplyKeeps
     DEF SaveStep
<1>4. ASSUME NEW s \in Saves, GiveUp(s) \/ ServerStep(s)
      PROVE  IInv'
  BY <1>4, GiveUpKeeps, CommitLandsKeeps, LoseTransactionKeeps DEF ServerStep
<1>5. ASSUME NEW r \in Reads, NEW p \in Pipelines, NEW n \in 1..Cardinality(Saves),
             StartRead(r, p, n)
      PROVE  IInv'
  <2>1. n \in Nat
    OBVIOUS
  <2> QED
    BY <1>5, <2>1, StartReadKeeps
<1>6. ASSUME NEW r \in Reads, ReadStep(r) \/ ReadFails(r)
      PROVE  IInv'
  BY <1>6, ReadVersionKeeps, ReadMissingKeeps, ReadMappingsKeeps, ReadFailsKeeps DEF ReadStep
<1>7. ASSUME NEW p \in Pipelines, DeletePipeline(p)
      PROVE  IInv'
  BY <1>7, DeletePipelineKeeps
<1>8. ASSUME NEW p \in Pipelines, CreateStep(p)
      PROVE  IInv'
  BY <1>8, InsertLandsKeeps, InsertRefusedKeeps, CreateReplyKeeps, GiveUpCreateKeeps,
     LoseInsertKeeps DEF CreateStep, InsertAnswered
<1>9. CASE UNCHANGED vars
  <2>1. TypeOK'
    BY <1>9 DEF vars, creates, saves, IInv, TypeOK
  <2>2. ReadsRows' /\ ReadIsWhole'
    BY <1>9 DEF vars, creates, saves, IInv, ReadsRows, ReadIsWhole
  <2> QED
    BY <1>9, <2>1, <2>2, ReadsFrame DEF vars, IInv
<1> QED
  BY <1>1, <1>2, <1>3, <1>4, <1>5, <1>6, <1>7, <1>8, <1>9 DEF Next

LEMMA Inductive == Spec => []IInv
  BY InitIInv, StepIInv, PTL DEF Spec

--------------------------------------------------------------------------------
\* Every variable keeps its type.
THEOREM TypeCorrect == Spec => []TypeOK
  BY Inductive, PTL DEF IInv

\* SaveDraftVersion never leaks a connection nor exceeds the pool.
THEOREM PoolIsBounded == Spec => []PoolBound
  BY Inductive, PTL DEF IInv

\* However saves race, fail and get lost, the versions of a pipeline are
\* numbered 1, 2, 3, ...
THEOREM Contiguity == Spec => []VersionsContiguous
<1>1. IInv => VersionsContiguous
  <2> SUFFICES ASSUME IInv PROVE VersionsContiguous
    OBVIOUS
  <2>1. \A s \in rows : s \in Saves /\ tx[s] = "committed" /\ target[s] \in pipelines
    BY DEF IInv, TypeOK, RowStates, NoOrphanVersions
  <2>2. \A s, t \in rows : SameKey(s, t) => s = t
    BY <2>1 DEF IInv, KeysUnique
  <2>3. ASSUME NEW s \in rows, NEW n \in 1..number[s]
        PROVE  \E t \in rows : target[t] = target[s] /\ number[t] = n
    <3>1. number[s] \in Nat
      BY <2>1 DEF IInv, TypeOK
    <3>2. CASE n = number[s]
      BY <3>2
    <3>3. CASE n \in 1..(number[s] - 1)
      BY <2>1, <3>3 DEF IInv, NoGaps
    <3> QED
      BY <3>1, <3>2, <3>3
  <2> QED
    BY <2>2, <2>3 DEF VersionsContiguous
<1> QED
  BY <1>1, Inductive, PTL

\* A version number, once committed, belongs to one save for ever.
THEOREM Uniqueness == Spec => []NumberNeverReused
<1>1. IInv => NumberNeverReused
  BY DEF IInv, KeysUnique, NumberNeverReused
<1> QED
  BY <1>1, Inductive, PTL

\* A version that can be read validates and has all its mapping rows.
THEOREM Atomicity == Spec => []VersionsWhole
<1>1. IInv => VersionsWhole
  <2> SUFFICES ASSUME IInv, NEW s \in rows
               PROVE  /\ ValidVersion(draft[s], number[s])
                      /\ MappingRows(s) = {draft[s].fields[i] : i \in DOMAIN draft[s].fields}
    BY DEF VersionsWhole
  <2>1. ValidVersion(draft[s], number[s])
    BY DEF IInv, TypeOK, Validated, RowStates
  <2> QED
    BY <2>1, CommittedRows DEF IInv
<1> QED
  BY <1>1, Inductive, PTL

\* A save that returned its version is in the tables, until its pipeline goes.
THEOREM Durability == Spec => []SavedIsDurable
<1>1. IInv => SavedIsDurable
  BY DEF IInv, Stages, RowStates, SavedIsDurable
<1> QED
  BY <1>1, Inductive, PTL

\* An error that names its cause saved nothing.
THEOREM NoHalfSaves == Spec => []NamedErrorSavesNothing
<1>1. IInv => NamedErrorSavesNothing
  BY DEF IInv, TypeOK, Stages, RowStates, NamedErrorSavesNothing, InFlight
<1> QED
  BY <1>1, Inductive, PTL

\* A version conflict is reported only to a save that another one beat.
THEOREM HonestConflicts == Spec => []ConflictHasWinner
  BY Inductive, PTL DEF IInv

\* No version outlives its pipeline or is added to a deleted one.
THEOREM ForeignKey == Spec => []NoOrphanVersions
  BY Inductive, PTL DEF IInv

\* Whoever is told ErrDuplicateName has left no row, and another call of the tenant
\* has put one in under that name, whatever replies were lost or late.
THEOREM HonestDuplicates == Spec => []DuplicateIsTrue
<1>1. IInv => DuplicateIsTrue
  BY DEF IInv, TypeOK, Creations, NoReturn, DuplicateIsTrue
<1> QED
  BY <1>1, Inductive, PTL

\* The two queries of GetVersion together return a whole selection, or an empty
\* one of a pipeline deleted in between.
THEOREM WholeReads == Spec => []ReadIsWhole
  BY Inductive, PTL DEF IInv

\* Two reads of one version find the same row.
THEOREM StableReads == Spec => []ReadsAgree
<1>1. IInv => ReadsAgree
  BY DEF IInv, ReadsRows, KeysUnique, SameKey, ReadsAgree
<1> QED
  BY <1>1, Inductive, PTL

--------------------------------------------------------------------------------
(* The tables as a log of versions.                                           *)

Numbered == \A p \in Pipelines : \E n \in Nat : Numbers(p) = 1..n

RecipeSet == {d \in Drafts : ValidVersion(d, 1)}

--------------------------------------------------------------------------------
(* What the numbering says of the log.                                        *)

\* The latest of the numbers from 1 to n is n.
LEMMA LatestIsLast ==
    ASSUME NEW p \in Pipelines, NEW n \in Nat, Numbers(p) = 1..n
    PROVE  LatestVersion(p) = n
<1>1. n \in {0} \cup Numbers(p) /\ IsLatest(p, n)
  BY DEF IsLatest
<1>2. \A max \in {0} \cup Numbers(p) : IsLatest(p, max) => max = n
  BY DEF IsLatest
<1> QED
  BY <1>1, <1>2 DEF LatestVersion

\* Each number up to the latest is that of one row.
LEMMA RowOfNumber ==
    ASSUME IInv, NEW p \in Pipelines, NEW s \in rows, target[s] = p
    PROVE  (CHOOSE t \in rows : target[t] = p /\ number[t] = number[s]) = s
<1>1. \A t \in rows : target[t] = p /\ number[t] = number[s] => t = s
  BY DEF IInv, TypeOK, RowStates, KeysUnique, SameKey
<1> QED
  BY <1>1

\* A committed version reads as the draft it was made of, which was valid.
LEMMA RecipeIsDraft ==
    ASSUME IInv, NEW s \in rows
    PROVE  /\ Recipe(target[s], number[s]) = draft[s]
           /\ draft[s] \in RecipeSet
           /\ target[s] \in pipelines
<1>1. s \in Saves /\ target[s] \in pipelines /\ target[s] \in Pipelines
  BY DEF IInv, TypeOK, NoOrphanVersions
<1>2. ValidVersion(draft[s], number[s]) /\ written[s] = Len(draft[s].fields)
  BY <1>1 DEF IInv, RowStates, Validated, Stages
<1>3. draft[s] \in Drafts
  BY <1>1, <1>2 DEF IInv, TypeOK, ValidVersion, NoDraft
<1>4. draft[s] \in RecipeSet
  BY <1>2, <1>3 DEF RecipeSet, ValidVersion
<1>5. draft[s].fields \in Seq(Fields)
  BY <1>1, DraftFields DEF IInv
<1>6. SubSeq(draft[s].fields, 1, written[s]) = draft[s].fields
  BY <1>2, <1>5
<1>7. [draft[s] EXCEPT !.fields = SubSeq(@, 1, written[s])] = draft[s]
  BY <1>3, <1>6, StoreAssumption DEF StoreAssumption
<1>8. Recipe(target[s], number[s]) = [draft[s] EXCEPT !.fields = SubSeq(@, 1, written[s])]
  BY <1>1, RowOfNumber DEF Recipe
<1> QED
  BY <1>1, <1>4, <1>7, <1>8

--------------------------------------------------------------------------------
(* Steps that publish nothing.                                                *)

\* Whatever leaves the committed rows as they are leaves the log as it is.
LEMMA RowsUntouched ==
    ASSUME IInv, Numbered, UNCHANGED rows,
           \A s \in rows : /\ target'[s] = target[s] /\ number'[s] = number[s]
                          /\ draft'[s] = draft[s] /\ written'[s] = written[s]
    PROVE  Published' = Published /\ Numbered'
<1>1. \A p \in Pipelines : Numbers(p)' = Numbers(p)
  BY DEF Numbers
<1>2. \A p \in Pipelines : LatestVersion(p)' = LatestVersion(p)
  BY <1>1 DEF LatestVersion, IsLatest
<1>3. ASSUME NEW p \in Pipelines, NEW n \in 1..LatestVersion(p)
      PROVE  Recipe(p, n)' = Recipe(p, n)
  <2>1. PICK s \in rows : target[s] = p /\ number[s] = n
    BY <1>3, LatestIsLast DEF Numbered, Numbers
  <2>2. (CHOOSE t \in rows : target[t] = p /\ number[t] = n) = s
    BY <1>3, <2>1, RowOfNumber
  <2>3. \A t \in rows : target'[t] = p /\ number'[t] = n <=> target[t] = p /\ number[t] = n
    OBVIOUS
  <2>4. (CHOOSE t \in rows' : target'[t] = p /\ number'[t] = n) = s
    BY <2>1, <2>2, <2>3
  <2> QED
    BY <2>1, <2>2, <2>4 DEF Recipe
<1>4. \A p \in Pipelines : [n \in 1..LatestVersion(p) |-> Recipe(p, n)]'
                             = [n \in 1..LatestVersion(p) |-> Recipe(p, n)]
  BY <1>2, <1>3
<1> QED
  BY <1>1, <1>4 DEF Published, Numbered

\* The transaction of a step that is not a commit has no committed row, and whatever
\* such a step writes is its own.
LEMMA SavePublishesNothing ==
    ASSUME IInv, Numbered, NEW s \in Saves,
           SaveStep(s) \/ GiveUp(s) \/ LoseTransaction(s)
    PROVE  UNCHANGED <<pipelines, Published>> /\ Numbered'
<1>1. UNCHANGED <<pipelines, rows, target, draft>>
  BY DEF SaveStep, Begin, Allocate, AllocateMissing, InsertVersion, InsertVersionFails,
     InsertMapping, SendCommit, CommitReply, GiveUp, LoseTransaction, creates
<1>2. \A t \in Saves \ {s} : number'[t] = number[t] /\ written'[t] = written[t]
  BY DEF SaveStep, Begin, Allocate, AllocateMissing, InsertVersion, InsertVersionFails,
     InsertMapping, SendCommit, CommitReply, GiveUp, LoseTransaction, IInv, TypeOK
<1>3. s \in rows => number'[s] = number[s] /\ written'[s] = written[s]
  <2>1. s \in rows => call[s] \notin {"allocating", "mapping"}
    BY DEF IInv, RowStates, Stages
  <2> QED
    BY <2>1 DEF SaveStep, Begin, Allocate, AllocateMissing, InsertVersion, InsertVersionFails,
       InsertMapping, SendCommit, CommitReply, GiveUp, LoseTransaction
<1>4. rows \subseteq Saves
  BY DEF IInv, TypeOK
<1> QED
  BY <1>1, <1>2, <1>3, <1>4, RowsUntouched

LEMMA StartPublishesNothing ==
    ASSUME IInv, Numbered, NEW s \in Saves, NEW p \in Pipelines, NEW d \in Drafts, StartSave(s, p, d)
    PROVE  UNCHANGED <<pipelines, Published>> /\ Numbered'
<1>1. s \notin rows /\ rows \subseteq Saves
  BY DEF StartSave, IInv, TypeOK, Stages, RowStates
<1>2. /\ UNCHANGED <<pipelines, rows, number, written>>
      /\ \A t \in Saves \ {s} : target'[t] = target[t] /\ draft'[t] = draft[t]
  BY DEF StartSave, IInv, TypeOK, creates
<1> QED
  BY <1>1, <1>2, RowsUntouched

--------------------------------------------------------------------------------
(* Steps that the log sees.                                                   *)

\* A COMMIT that lands publishes the next number of its pipeline.
LEMMA CommitIsNext ==
    ASSUME IInv, NEW s \in Saves, CommitLands(s),
           NEW q \in Pipelines, q = target[s], NEW n \in Nat, Numbers(q) = 1..n
    PROVE  /\ number[s] = n + 1
           /\ Numbers(q)' = 1..(n + 1)
           /\ \A p \in Pipelines \ {q} : Numbers(p)' = Numbers(p)
<1>1. /\ s \in pending /\ s \notin rows /\ number[s] \in Nat
      /\ rows' = rows \cup {s} /\ UNCHANGED <<target, number>>
  BY DEF CommitLands, IInv, TypeOK, Stages, RowStates
<1>2. number[s] >= 1 /\ q \in pipelines
  BY <1>1 DEF IInv, Validated, ValidVersion, NoOrphanVersions
<1>3. \A k \in 1..(number[s] - 1) : k \in 1..n
  BY <1>1, <1>2 DEF IInv, NoGaps, Numbers
<1>4. number[s] \notin 1..n
  <2> SUFFICES ASSUME number[s] \in Numbers(q) PROVE FALSE
    OBVIOUS
  <2>1. PICK t \in rows : SameKey(s, t)
    BY DEF Numbers, SameKey
  <2> QED
    BY <1>1, <2>1 DEF IInv, TypeOK, KeysUnique, RowStates
<1>5. number[s] = n + 1
  <2>1. CASE number[s] > n + 1
    <3>1. n + 1 \in 1..(number[s] - 1)
      BY <1>1, <2>1
    <3> QED
      BY <1>3, <3>1
  <2> QED
    BY <1>1, <1>2, <1>4, <2>1
<1>6. Numbers(q)' = Numbers(q) \cup {number[s]}
  BY <1>1 DEF Numbers
<1>7. \A p \in Pipelines \ {q} : Numbers(p)' = Numbers(p)
  BY <1>1 DEF Numbers
<1> QED
  BY <1>5, <1>6, <1>7

\* The log has a recipe for each committed version, under its number.
PublishedIs ==
    \A p \in Pipelines : \A n \in Nat : Numbers(p) = 1..n =>
        /\ Published[p] \in [1..n -> RecipeSet]
        /\ \A s \in rows : target[s] = p => number[s] \in 1..n /\ Published[p][number[s]] = draft[s]

LEMMA LogIs == IInv => PublishedIs
<1> SUFFICES ASSUME IInv, NEW p \in Pipelines, NEW n \in Nat, Numbers(p) = 1..n
             PROVE  /\ Published[p] \in [1..n -> RecipeSet]
                    /\ \A s \in rows : target[s] = p =>
                          number[s] \in 1..n /\ Published[p][number[s]] = draft[s]
  BY DEF PublishedIs
<1>1. Published[p] = [k \in 1..n |-> Recipe(p, k)]
  BY LatestIsLast DEF Published
<1>2. \A s \in rows : target[s] = p => number[s] \in 1..n /\ Recipe(p, number[s]) = draft[s]
  BY RecipeIsDraft DEF Numbers
<1>3. \A k \in 1..n : Recipe(p, k) \in RecipeSet
  <2> SUFFICES ASSUME NEW k \in 1..n PROVE Recipe(p, k) \in RecipeSet
    OBVIOUS
  <2>1. PICK s \in rows : target[s] = p /\ number[s] = k
    BY DEF Numbers
  <2> QED
    BY <2>1, RecipeIsDraft
<1> QED
  BY <1>1, <1>2, <1>3

LEMMA LogWillBe == IInv' => PublishedIs'
  BY LogIs, PTL

LEMMA CommitPublishes ==
    ASSUME IInv, IInv', Numbered, NEW s \in Saves, CommitLands(s)
    PROVE  /\ Numbered'
           /\ target[s] \in pipelines /\ draft[s] \in RecipeSet
           /\ Published' = [Published EXCEPT ![target[s]] = Append(@, draft[s])]
           /\ UNCHANGED pipelines
<1>1. PICK q \in Pipelines : q = target[s] /\ q \in pipelines
  BY DEF IInv, TypeOK, Stages, NoOrphanVersions, CommitLands
<1>2. PICK n \in Nat : Numbers(q) = 1..n
  BY <1>1 DEF Numbered
<1>3. /\ number[s] = n + 1 /\ Numbers(q)' = 1..(n + 1)
      /\ \A p \in Pipelines \ {q} : Numbers(p)' = Numbers(p)
  BY <1>1, <1>2, CommitIsNext
<1>4. rows' = rows \cup {s} /\ UNCHANGED <<pipelines, target, draft, number>>
  BY DEF CommitLands, creates
<1>5. Numbered'
  <2> SUFFICES ASSUME NEW p \in Pipelines PROVE \E k \in Nat : Numbers(p)' = 1..k
    BY DEF Numbered
  <2>1. CASE p = q
    BY <1>3, <2>1
  <2>2. CASE p # q
    BY <1>3, <2>2 DEF Numbered
  <2> QED
    BY <2>1, <2>2
<1>6. PublishedIs /\ PublishedIs'
  BY LogIs, LogWillBe
<1>7. Published[q]' = Append(Published[q], draft[s]) /\ draft[s] \in RecipeSet
  <2>1. /\ Published[q] \in [1..n -> RecipeSet]
        /\ Published[q]' \in [1..(n + 1) -> RecipeSet]
        /\ Published[q]'[n + 1] = draft[s]
    BY <1>1, <1>2, <1>3, <1>4, <1>6 DEF PublishedIs
  <2>2. ASSUME NEW k \in 1..n
        PROVE  Published[q]'[k] = Published[q][k]
    <3>1. PICK t \in rows : target[t] = q /\ number[t] = k
      BY <1>2 DEF Numbers
    <3>2. Published[q][k] = draft[t]
      BY <1>1, <1>2, <1>6, <3>1 DEF PublishedIs
    <3>3. Published[q]'[k] = draft[t]
      BY <1>1, <1>3, <1>4, <1>6, <3>1 DEF PublishedIs
    <3> QED
      BY <3>2, <3>3
  <2> QED
    BY <2>1, <2>2
<1>8. ASSUME NEW p \in Pipelines \ {q} PROVE Published[p]' = Published[p]
  <2>1. PICK k \in Nat : Numbers(p) = 1..k /\ Numbers(p)' = 1..k
    BY <1>3 DEF Numbered
  <2>2. Published[p] \in [1..k -> RecipeSet] /\ Published[p]' \in [1..k -> RecipeSet]
    BY <1>6, <2>1 DEF PublishedIs
  <2>3. ASSUME NEW j \in 1..k PROVE Published[p]'[j] = Published[p][j]
    <3>1. PICK t \in rows : target[t] = p /\ number[t] = j
      BY <2>1 DEF Numbers
    <3>2. Published[p][j] = draft[t] /\ Published[p]'[j] = draft[t]
      BY <1>4, <1>6, <2>1, <3>1 DEF PublishedIs
    <3> QED
      BY <3>2
  <2> QED
    BY <2>2, <2>3
<1>9. Published' = [Published EXCEPT ![target[s]] = Append(@, draft[s])]
  <2>1. /\ Published = [p \in Pipelines |-> Published[p]]
        /\ Published' = [p \in Pipelines |-> Published'[p]]
    BY DEF Published
  <2> HIDE DEF Published
  <2> QED
    BY <1>1, <1>7, <1>8, <2>1
<1> QED
  BY <1>1, <1>4, <1>5, <1>7, <1>9

LEMMA DeleteRemoves ==
    ASSUME IInv, IInv', Numbered, NEW p \in Pipelines, DeletePipeline(p)
    PROVE  /\ Numbered'
           /\ p \in pipelines /\ pipelines' = pipelines \ {p}
           /\ Published' = [Published EXCEPT ![p] = <<>>]
<1>1. /\ p \in pipelines /\ pipelines' = pipelines \ {p}
      /\ rows' = {s \in rows : target[s] # p} /\ UNCHANGED <<target, draft, number>>
  BY DEF DeletePipeline
<1>2. Numbers(p)' = 1..0 /\ \A q \in Pipelines \ {p} : Numbers(q)' = Numbers(q)
  BY <1>1 DEF Numbers
<1>3. Numbered'
  <2> SUFFICES ASSUME NEW q \in Pipelines PROVE \E k \in Nat : Numbers(q)' = 1..k
    BY DEF Numbered
  <2>1. CASE q = p
    BY <1>2, <2>1
  <2>2. CASE q # p
    BY <1>2, <2>2 DEF Numbered
  <2> QED
    BY <2>1, <2>2
<1>4. PublishedIs /\ PublishedIs'
  BY LogIs, LogWillBe
<1>5. Published[p]' = <<>>
  <2>1. Published'[p] \in [1..0 -> RecipeSet]
    BY <1>2, <1>4 DEF PublishedIs
  <2> QED
    BY <2>1
<1>6. ASSUME NEW q \in Pipelines \ {p} PROVE Published[q]' = Published[q]
  <2>1. PICK k \in Nat : Numbers(q) = 1..k /\ Numbers(q)' = 1..k
    BY <1>2 DEF Numbered
  <2>2. Published[q] \in [1..k -> RecipeSet] /\ Published[q]' \in [1..k -> RecipeSet]
    BY <1>4, <2>1 DEF PublishedIs
  <2>3. ASSUME NEW j \in 1..k PROVE Published[q]'[j] = Published[q][j]
    <3>1. PICK t \in rows : target[t] = q /\ number[t] = j
      BY <2>1 DEF Numbers
    <3>2. Published[q][j] = draft[t] /\ Published[q]'[j] = draft[t]
      BY <1>1, <1>4, <2>1, <3>1 DEF PublishedIs
    <3> QED
      BY <3>2
  <2> QED
    BY <2>2, <2>3
<1>7. Published' = [Published EXCEPT ![p] = <<>>]
  <2>1. /\ Published = [q \in Pipelines |-> Published[q]]
        /\ Published' = [q \in Pipelines |-> Published'[q]]
    BY DEF Published
  <2> HIDE DEF Published
  <2> QED
    BY <1>5, <1>6, <2>1
<1> QED
  BY <1>1, <1>3, <1>7

LEMMA InsertRegisters ==
    ASSUME IInv, Numbered, NEW p \in Pipelines, InsertLands(p)
    PROVE  /\ Numbered' /\ Published' = Published
           /\ p \notin pipelines /\ pipelines' = pipelines \cup {p}
<1>1. UNCHANGED <<rows, target, number, draft, written>>
  BY DEF InsertLands, saves
<1>2. p \notin pipelines /\ pipelines' = pipelines \cup {p}
  BY DEF InsertLands, IInv, NoReturn
<1> QED
  BY <1>1, <1>2, RowsUntouched

--------------------------------------------------------------------------------
(* Every step of the store is one of the log, or none.                        *)

LEMMA InitLog == Init => Numbered /\ Log!Init
<1> SUFFICES ASSUME Init PROVE Numbered /\ Log!Init
  OBVIOUS
<1>1. \A p \in Pipelines : Numbers(p) = 1..0
  BY DEF Init, Numbers
<1>2. Numbered
  BY <1>1 DEF Numbered
<1>3. \A p \in Pipelines : LatestVersion(p) = 0
  BY <1>1, LatestIsLast
<1>4. \A p \in Pipelines : [n \in 1..LatestVersion(p) |-> Recipe(p, n)] = <<>>
  BY <1>3
<1>5. Published = [p \in Pipelines |-> <<>>]
  BY <1>4 DEF Published
<1> QED
  BY <1>2, <1>5 DEF Log!Init, Init

LEMMA StepLog ==
    ASSUME IInv, IInv', Numbered, [Next]_vars
    PROVE  Numbered' /\ [Log!Next]_<<pipelines, Published>>
<1>1. ASSUME NEW p \in Pipelines, NEW t \in Tenants \cup {NilId}, NEW n \in Names,
             CreatePipeline(p, t, n)
      PROVE  Numbered' /\ [Log!Next]_<<pipelines, Published>>
  <2>1. UNCHANGED <<pipelines, rows, target, number, draft, written>>
    BY <1>1 DEF CreatePipeline, RefuseCreate, SendInsert, FailCreate, saves
  <2> QED
    BY <2>1, RowsUntouched
<1>2. ASSUME NEW s \in Saves, NEW p \in Pipelines, NEW d \in Drafts, StartSave(s, p, d)
      PROVE  Numbered' /\ [Log!Next]_<<pipelines, Published>>
  BY <1>2, StartPublishesNothing
<1>3. ASSUME NEW s \in Saves, SaveStep(s) \/ GiveUp(s) \/ LoseTransaction(s)
      PROVE  Numbered' /\ [Log!Next]_<<pipelines, Published>>
  BY <1>3, SavePublishesNothing
<1>4. ASSUME NEW s \in Saves, CommitLands(s)
      PROVE  Numbered' /\ [Log!Next]_<<pipelines, Published>>
  <2>1. /\ Numbered' /\ target[s] \in Pipelines
        /\ Log!AppendVersion(target[s], draft[s]) /\ draft[s] \in {d \in Drafts : ValidVersion(d, 1)}
    BY <1>4, CommitPublishes DEF Log!AppendVersion, IInv, TypeOK, RecipeSet
  <2> QED
    BY <2>1 DEF Log!Next
<1>5. ASSUME NEW r \in Reads,
             \/ ReadStep(r) \/ ReadFails(r)
             \/ \E p \in Pipelines, n \in 1..Cardinality(Saves) : StartRead(r, p, n)
      PROVE  Numbered' /\ [Log!Next]_<<pipelines, Published>>
  <2>1. UNCHANGED <<pipelines, rows, target, number, draft, written>>
    BY <1>5 DEF ReadStep, ReadVersion, ReadMissing, ReadMappings, ReadFails, StartRead, creates, saves
  <2> QED
    BY <2>1, RowsUntouched
<1>6. ASSUME NEW p \in Pipelines, DeletePipeline(p)
      PROVE  Numbered' /\ [Log!Next]_<<pipelines, Published>>
  <2>1. Numbered' /\ Log!Remove(p)
    BY <1>6, DeleteRemoves DEF Log!Remove
  <2> QED
    BY <2>1 DEF Log!Next
<1>7. ASSUME NEW p \in Pipelines, CreateStep(p)
      PROVE  Numbered' /\ [Log!Next]_<<pipelines, Published>>
  <2>1. CASE InsertLands(p)
    <3>1. Numbered' /\ Log!Register(p)
      BY <2>1, InsertRegisters DEF Log!Register
    <3> QED
      BY <3>1 DEF Log!Next
  <2>2. CASE InsertRefused(p) \/ CreateReply(p) \/ GiveUpCreate(p) \/ LoseInsert(p)
    <3>1. UNCHANGED <<pipelines, rows, target, number, draft, written>>
      BY <2>2 DEF InsertRefused, CreateReply, GiveUpCreate, LoseInsert, saves
    <3> QED
      BY <3>1, RowsUntouched
  <2> QED
    BY <1>7, <2>1, <2>2 DEF CreateStep, InsertAnswered
<1>8. CASE UNCHANGED vars
  <2>1. UNCHANGED <<pipelines, rows, target, number, draft, written>>
    BY <1>8 DEF vars, creates, saves
  <2> QED
    BY <2>1, RowsUntouched
<1> QED
  BY <1>1, <1>2, <1>3, <1>4, <1>5, <1>6, <1>7, <1>8 DEF Next, ServerStep

LEMMA NumberedHolds == Spec => []Numbered
<1>1. Init => Numbered
  BY InitLog
<1>2. IInv /\ IInv' /\ Numbered /\ [Next]_vars => Numbered'
  BY StepLog
<1> QED
  BY <1>1, <1>2, Inductive, PTL DEF Spec

\* The repository implements the append-only log: whatever races, fails or is
\* interrupted, each step a reader could notice appends a whole valid recipe to a
\* registered pipeline, registers one, or removes one with all its versions.
THEOREM StoreIsALog == Spec => ImplementsVersionLog
<1>1. Init => Log!Init
  BY InitLog
<1>2. IInv /\ IInv' /\ Numbered /\ [Next]_vars => [Log!Next]_<<pipelines, Published>>
  BY StepLog
<1> QED
  BY <1>1, <1>2, Inductive, NumberedHolds, PTL DEF Spec, ImplementsVersionLog, Log!Spec

\* A recipe that can be read under a number stays there unchanged for as long as its
\* pipeline exists: a campaign bound to a version never sees it edited.
THEOREM VersionsNeverChange == Spec => Log!OnlyGrows
<1> DEFINE Grows == \A p \in pipelines \cap pipelines' : \A n \in DOMAIN Published[p] :
                        n \in DOMAIN Published'[p] /\ Published'[p][n] = Published[p][n]
<1>1. ASSUME IInv, Numbered, Log!Next PROVE Grows
  <2> HIDE DEF Published
  <2>0. /\ pipelines \subseteq Pipelines /\ DOMAIN Published = Pipelines
        /\ \A p \in Pipelines : Published[p] \in Seq(RecipeSet)
    <3>1. PublishedIs
      BY <1>1, LogIs
    <3>2. \A p \in Pipelines : Published[p] \in Seq(RecipeSet)
      BY <1>1, <3>1 DEF Numbered, PublishedIs
    <3> QED
      BY <1>1, <3>2 DEF IInv, TypeOK, Published
  <2>1. ASSUME NEW p \in Pipelines, Log!Register(p) PROVE Grows
    BY <2>1 DEF Log!Register
  <2>2. ASSUME NEW p \in Pipelines, NEW d \in {x \in Drafts : ValidVersion(x, 1)},
               Log!AppendVersion(p, d)
        PROVE  Grows
    <3>1. Published' = [Published EXCEPT ![p] = Append(@, d)]
      BY <2>2 DEF Log!AppendVersion
    <3>2. d \in RecipeSet
      BY DEF RecipeSet
    <3>3. /\ DOMAIN Published[p] \subseteq DOMAIN Append(Published[p], d)
          /\ \A n \in DOMAIN Published[p] : Append(Published[p], d)[n] = Published[p][n]
      BY <2>0, <3>2
    <3> QED
      BY <2>0, <3>1, <3>3
  <2>3. ASSUME NEW p \in Pipelines, Log!Remove(p) PROVE Grows
    BY <2>0, <2>3 DEF Log!Remove
  <2> QED
    BY <1>1, <2>1, <2>2, <2>3 DEF Log!Next
<1>2. IInv /\ Numbered /\ [Log!Next]_<<pipelines, Published>> => [Grows]_<<pipelines, Published>>
  BY <1>1
<1> QED
  BY <1>2, Inductive, NumberedHolds, StoreIsALog, PTL DEF ImplementsVersionLog, Log!Spec, Log!OnlyGrows

--------------------------------------------------------------------------------
\* ListRecentPipelines and ListVersions agree with the tables: as many versions as the
\* latest number says, as many fields as were saved.
THEOREM ListingsAgree == Spec => []ListingAgrees
<1>1. IInv /\ Numbered => ListingAgrees
  <2> SUFFICES ASSUME IInv, Numbered PROVE ListingAgrees
    OBVIOUS
  <2>1. ASSUME NEW p \in Pipelines PROVE VersionCount(p) = LatestVersion(p)
    <3>1. PICK n \in Nat : Numbers(p) = 1..n
      BY DEF Numbered
    <3> DEFINE found == {s \in rows : target[s] = p}
               row   == [k \in 1..n |-> CHOOSE s \in found : number[s] = k]
    <3>2. \A k \in 1..n : row[k] \in found /\ number[row[k]] = k
      BY <3>1 DEF Numbers
    <3>3. \A s \in found : number[s] \in 1..n /\ row[number[s]] = s
      <4>1. \A s, t \in found : number[s] = number[t] => s = t
        BY DEF IInv, TypeOK, RowStates, KeysUnique, SameKey
      <4> QED
        BY <3>1, <3>2, <4>1 DEF Numbers
    <3>4. row \in Bijection(1..n, found)
      <4> HIDE DEF row, found
      <4>1. row \in [1..n -> found]
        BY <3>2 DEF row
      <4> QED
        BY <3>2, <3>3, <4>1 DEF Bijection, Injection, Surjection, IsInjective
    <3>5. Cardinality(found) = n
      BY <3>4, FS_CountingElements DEF ExistsBijection
    <3> QED
      BY <3>1, <3>5, LatestIsLast DEF VersionCount
  <2>2. ASSUME NEW s \in rows PROVE FieldCount(s) = Len(draft[s].fields)
    <3> DEFINE set == draft[s].fields
    <3>1. s \in Saves /\ set \in Seq(Fields)
      BY DraftFields DEF IInv, TypeOK
    <3>2. \A i, j \in 1..Len(set) : set[i] = set[j] => i = j
      BY <3>1 DEF IInv, RowStates, Validated, ValidVersion, ValidSet
    <3>3. MappingRows(s) = {set[i] : i \in 1..Len(set)}
      BY <3>1, CommittedRows DEF IInv
    <3>4. set \in Bijection(1..Len(set), MappingRows(s))
      <4> HIDE DEF set
      <4>1. set \in [1..Len(set) -> MappingRows(s)]
        BY <3>1, <3>3
      <4> QED
        BY <3>2, <3>3, <4>1 DEF Bijection, Injection, Surjection, IsInjective
    <3> QED
      BY <3>1, <3>4, FS_CountingElements DEF ExistsBijection, FieldCount
  <2> QED
    BY <2>1, <2>2 DEF ListingAgrees
<1> QED
  BY <1>1, Inductive, NumberedHolds, PTL

\* GetVersion finds a version whose save has returned, whatever happened in between
\* but the deletion of its pipeline.
THEOREM SavedVersionsAreFound == Spec => SavedIsFound
<1> DEFINE Missed(r) == read[r].at = "version" /\ read'[r].at = "ErrVersionNotFound"
           Saved(r)  == \E s \in Saves : /\ call[s] = "saved"
                                        /\ target[s] = read[r].pipeline
                                        /\ number[s] = read[r].number
                                        /\ target[s] \in pipelines
<1>1. ASSUME IInv, Next, NEW r \in Reads, Missed(r) PROVE ~Saved(r)
  <2>1. ReadMissing(r)
    <3>1. read' # read /\ read \in [Reads -> ReadType]
      BY <1>1 DEF IInv, TypeOK
    <3>2. PICK q \in Reads : \/ \E p \in Pipelines, n \in 1..Cardinality(Saves) : StartRead(q, p, n)
                            \/ ReadStep(q) \/ ReadFails(q)
      BY <1>1, <3>1 DEF Next, CreatePipeline, RefuseCreate, SendInsert, FailCreate, CreateStep,
         InsertAnswered, InsertLands, InsertRefused, CreateReply, GiveUpCreate, LoseInsert, StartSave,
         SaveStep, Begin, Allocate, AllocateMissing, InsertVersion, InsertVersionFails,
         InsertMapping, SendCommit, CommitReply, GiveUp, ServerStep, CommitLands,
         LoseTransaction, DeletePipeline
    <3>3. q = r
      BY <1>1, <3>1, <3>2 DEF StartRead, ReadStep, ReadVersion, ReadMissing, ReadMappings, ReadFails
    <3>4. DOMAIN read[r] = {"at", "pipeline", "number", "row", "fields"}
      BY <3>1 DEF ReadType
    <3>5. ASSUME NEW p \in Pipelines, NEW n \in 1..Cardinality(Saves), StartRead(r, p, n) PROVE FALSE
      BY <1>1, <3>5 DEF StartRead
    <3>6. ~ReadVersion(r)
      BY <1>1, <3>1, <3>4 DEF ReadVersion
    <3>7. ~ReadMappings(r) /\ ~ReadFails(r)
      BY <1>1, <3>1, <3>4 DEF ReadMappings, ReadFails
    <3> QED
      BY <3>2, <3>3, <3>5, <3>6, <3>7 DEF ReadStep
  <2>2. \A s \in Saves : call[s] = "saved" /\ target[s] \in pipelines => s \in rows
    BY <1>1 DEF IInv, Stages, RowStates
  <2> QED
    BY <2>1, <2>2 DEF ReadMissing, Matching
<1>2. IInv /\ [Next]_vars
      => [\A r \in Reads :
             read[r].at = "version" /\ read'[r].at = "ErrVersionNotFound" =>
                 ~\E s \in Saves : /\ call[s] = "saved"
                                   /\ target[s] = read[r].pipeline
                                   /\ number[s] = read[r].number
                                   /\ target[s] \in pipelines]_vars
  BY <1>1
<1> QED
  BY <1>2, Inductive, PTL DEF Spec, SavedIsFound
================================================================================
