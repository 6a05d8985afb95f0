----------------------------- MODULE PipelineStore -----------------------------
(***************************************************************************)
(* internal/pipeline.Repository over its PostgreSQL tables.                *)
(*                                                                         *)
(* A save (SaveDraftVersion) is a client call driving one database         *)
(* transaction; the two can part: the call's context may expire while its  *)
(* transaction, COMMIT included, is still in the server's hands.  A save   *)
(* inserts at most one version row, so the save's identity is also the     *)
(* UUID of that row; in the same way a pipeline's identity is that of the  *)
(* CreatePipeline call that inserts it.  A retry is another call.          *)
(*                                                                         *)
(* One action is one round trip to the database, with everything the Go    *)
(* code does between that reply and its next request.                      *)
(***************************************************************************)
EXTENDS Naturals, FiniteSets, Sequences

CONSTANTS
    Pipelines,   \* CreatePipeline calls, and the UUIDs of the rows they insert
    Saves,       \* SaveDraftVersion calls, and the UUIDs of their version rows
    Reads,       \* GetVersion calls
    Drafts,      \* the recipes a save may be handed
    Fields,      \* the field mappings a recipe may select
    Malformed,   \* fields that FieldMapping.Validate rejects
    Refused,     \* fields that pass Validate and fail a column of the table
    Users,       \* who may save
    NilId,       \* uuid.Nil, for a user or a tenant
    Tenants,
    Names,       \* spellings of pipeline names
    BlankNames,  \* spellings that are empty after strings.TrimSpace
    LongNames,   \* spellings that do not fit the column
    Lower,       \* SQL lower(), a function on Names
    MaxConns,    \* the size of the connection pool
    Deletable    \* the pipelines an operator may delete with SQL

ASSUME StoreAssumption ==
    /\ Drafts \subseteq [ upstream : {"complete", "incomplete", "unmarshalable"},
                          author   : Users \cup {NilId},
                          fields   : Seq(Fields) ]
    /\ NilId \notin Users \cup Tenants
    /\ Names \subseteq DOMAIN Lower
    /\ MaxConns \in Nat \ {0}
    /\ Deletable \subseteq Pipelines
    /\ Pipelines \cap Saves = {}

VARIABLES
    pipelines,   \* committed rows of content_pipelines
    creation,    \* where each CreatePipeline call is, or what it returned
    insertion,   \* the state, at the server, of each call's INSERT
    label,       \* arguments tenantID and name of each call, and of its row
    call,        \* where each SaveDraftVersion call is, or what it returned
    tx,          \* the state, at the server, of each save's transaction
    target,      \* argument pipelineID of each save
    draft,       \* arguments cfg, set and createdBy of each save
    number,      \* local variable number: the allocated version number
    pending,     \* version rows inserted by a transaction not yet committed
    rows,        \* committed rows of content_pipeline_versions
    written,     \* how many mapping rows each save has inserted
    held,        \* the calls that hold a connection of the pool
    read         \* each GetVersion call: where it is, its arguments, its results

creates == <<pipelines, creation, insertion, label>>
saves   == <<call, tx, target, draft, number, pending, rows, written, held>>
vars    == <<creates, saves, read>>

Working  == {"allocating", "inserting", "mapping", "committing"}
NamedErrors == {"ErrMarshal", "ErrPipelineNotFound", "ErrInvalidDraft",
                "ErrVersionConflict", "ErrInsertVersion", "ErrInsertMapping"}
Returned == NamedErrors \cup {"ErrInterrupted", "saved"}
InFlight == {"open", "committing"}

NoDraft == [upstream |-> "incomplete", author |-> NilId, fields |-> <<>>]
NoRow   == [none |-> TRUE]
NoRead  == [at |-> "idle", pipeline |-> NilId, number |-> 0,
            row |-> NoRow, fields |-> {}]

Init ==
    /\ pipelines = {}
    /\ creation = [p \in Pipelines |-> "idle"]
    /\ insertion = [p \in Pipelines |-> "none"]
    /\ label    = [p \in Pipelines |-> <<>>]
    /\ call     = [s \in Saves |-> "idle"]
    /\ tx       = [s \in Saves |-> "none"]
    /\ target   = [s \in Saves |-> NilId]
    /\ draft    = [s \in Saves |-> NoDraft]
    /\ number   = [s \in Saves |-> 0]
    /\ pending  = {}
    /\ rows     = {}
    /\ written  = [s \in Saves |-> 0]
    /\ held     = {}
    /\ read     = [r \in Reads |-> NoRead]

FreeConn == Cardinality(held) < MaxConns

--------------------------------------------------------------------------------
(* CreatePipeline: one INSERT, committed by itself.  As with a save, the   *)
(* call and its statement can part.                                        *)

SameName(p, q) == label[p][1] = label[q][1] /\ Lower[label[p][2]] = Lower[label[q][2]]

NameTaken(p) == \E q \in pipelines : SameName(p, q)

\* The arguments are refused before the database is asked.
RefuseCreate(p, t, n) ==
    /\ creation[p] = "idle"
    /\ t = NilId \/ n \in BlankNames
    /\ creation' = [creation EXCEPT ![p] = IF t = NilId THEN "ErrEmptyTenant"
                                                        ELSE "ErrEmptyName"]
    /\ UNCHANGED <<pipelines, insertion, label, saves, read>>

\* Mutant: the arguments are not checked first.
SendInsertUnchecked(p, t, n) ==
    /\ creation[p] = "idle"
    /\ FreeConn
    /\ creation' = [creation EXCEPT ![p] = "inserting"]
    /\ insertion' = [insertion EXCEPT ![p] = "sent"]
    /\ label' = [label EXCEPT ![p] = <<t, n>>]
    /\ held' = held \cup {p}
    /\ UNCHANGED <<pipelines, call, tx, target, draft, number, pending, rows, written, read>>

SendInsert(p, t, n) ==
    /\ creation[p] = "idle"
    /\ t # NilId /\ n \notin BlankNames
    /\ FreeConn
    /\ creation' = [creation EXCEPT ![p] = "inserting"]
    /\ insertion' = [insertion EXCEPT ![p] = "sent"]
    /\ label' = [label EXCEPT ![p] = <<t, n>>]
    /\ held' = held \cup {p}
    /\ UNCHANGED <<pipelines, call, tx, target, draft, number, pending, rows, written, read>>

\* The context expires before there is a connection.
FailCreate(p, t, n) ==
    /\ creation[p] = "idle"
    /\ t # NilId /\ n \notin BlankNames
    /\ creation' = [creation EXCEPT ![p] = "ErrInterrupted"]
    /\ UNCHANGED <<pipelines, insertion, label, saves, read>>

CreatePipeline(p, t, n) ==
    RefuseCreate(p, t, n) \/ SendInsert(p, t, n) \/ FailCreate(p, t, n)

\* The server runs the INSERT, whether or not the caller still waits: the row goes in ...
InsertLands(p) ==
    /\ insertion[p] = "sent"
    /\ label[p][2] \notin LongNames
    /\ ~NameTaken(p)
    /\ insertion' = [insertion EXCEPT ![p] = "committed"]
    /\ pipelines' = pipelines \cup {p}
    /\ UNCHANGED <<creation, label, saves, read>>

\* ... or VARCHAR(255), or then the unique index on (tenant_id, lower(name)), refuses it.
InsertRefused(p) ==
    /\ insertion[p] = "sent"
    /\ label[p][2] \in LongNames \/ NameTaken(p)
    /\ insertion' = [insertion EXCEPT ![p] = IF label[p][2] \in LongNames THEN "refused"
                                                                          ELSE "duplicate"]
    /\ UNCHANGED <<pipelines, creation, label, saves, read>>

\* Mutant: every answer but a row is taken for a unique violation.
CreateReplyAnyCode(p) ==
    /\ creation[p] = "inserting"
    /\ insertion[p] # "sent"
    /\ creation' = [creation EXCEPT ![p] = IF insertion[p] = "committed" THEN "created"
                                           ELSE "ErrDuplicateName"]
    /\ held' = held \ {p}
    /\ UNCHANGED <<pipelines, insertion, label, call, tx, target, draft, number, pending,
                   rows, written, read>>

\* The reply reaches the caller: 23505 has an error of its own.
CreateReply(p) ==
    /\ creation[p] = "inserting"
    /\ insertion[p] # "sent"
    /\ creation' = [creation EXCEPT ![p] = CASE insertion[p] = "committed" -> "created"
                                             [] insertion[p] = "duplicate" -> "ErrDuplicateName"
                                             [] OTHER -> "ErrInsertPipeline"]
    /\ held' = held \ {p}
    /\ UNCHANGED <<pipelines, insertion, label, call, tx, target, draft, number, pending,
                   rows, written, read>>

\* The context expires, or the calling process dies: the INSERT is left to the server.
GiveUpCreate(p) ==
    /\ creation[p] = "inserting"
    /\ creation' = [creation EXCEPT ![p] = "ErrInterrupted"]
    /\ held' = held \ {p}
    /\ UNCHANGED <<pipelines, insertion, label, call, tx, target, draft, number, pending,
                   rows, written, read>>

\* The INSERT never reaches the server, or the server goes down before it has run it.
LoseInsert(p) ==
    /\ insertion[p] = "sent"
    /\ insertion' = [insertion EXCEPT ![p] = "lost"]
    /\ creation' = [creation EXCEPT ![p] = IF @ = "inserting" THEN "ErrInterrupted" ELSE @]
    /\ held' = held \ {p}
    /\ UNCHANGED <<pipelines, label, call, tx, target, draft, number, pending,
                   rows, written, read>>

InsertAnswered(p) == InsertLands(p) \/ InsertRefused(p)

CreateStep(p) == InsertAnswered(p) \/ CreateReply(p) \/ GiveUpCreate(p) \/ LoseInsert(p)

--------------------------------------------------------------------------------
(* SaveDraftVersion.                                                       *)

\* What the draft's mapping set must satisfy: ValidateSet.
ValidSet(set) ==
    /\ set # <<>>
    /\ \A i \in 1..Len(set) : set[i] \notin Malformed
    /\ \A i, j \in 1..Len(set) : set[i] = set[j] => i = j

\* Version.Validate on the version the save has assembled.
ValidVersion(d, n) ==
    /\ n >= 1
    /\ d.author # NilId
    /\ d.upstream = "complete"
    /\ ValidSet(d.fields)

\* The version numbers of p in the rows a statement sees, the committed ones,
\* and COALESCE(MAX(version_number), 0) over them.
Numbers(p) == {number[s] : s \in {t \in rows : target[t] = p}}
IsLatest(p, max) ==
    /\ max \in {0} \cup Numbers(p)
    /\ \A n \in Numbers(p) : n <= max

\* Mutant: the deferred Rollback is missing.
FailLeaky(s, error) ==
    /\ call' = [call EXCEPT ![s] = error]
    /\ UNCHANGED <<tx, pending, held>>

\* The deferred tx.Rollback, and the connection goes back to the pool.
Fail(s, error) ==
    /\ call' = [call EXCEPT ![s] = error]
    /\ tx' = [tx EXCEPT ![s] = "rolledback"]
    /\ pending' = pending \ {s}
    /\ held' = held \ {s}

\* The call is made; json.Marshal comes first, then it waits for a connection.
StartSave(s, p, d) ==
    /\ call[s] = "idle"
    /\ target' = [target EXCEPT ![s] = p]
    /\ draft' = [draft EXCEPT ![s] = d]
    /\ call' = [call EXCEPT ![s] = IF d.upstream = "unmarshalable"
                                   THEN "ErrMarshal" ELSE "acquiring"]
    /\ UNCHANGED <<creates, tx, number, pending, rows, written, held, read>>

Begin(s) ==
    /\ call[s] = "acquiring"
    /\ FreeConn
    /\ call' = [call EXCEPT ![s] = "allocating"]
    /\ tx' = [tx EXCEPT ![s] = "open"]
    /\ held' = held \cup {s}
    /\ UNCHANGED <<creates, target, draft, number, pending, rows, written, read>>

\* The SELECT and, on its reply, Validate.
Allocate(s) ==
    /\ call[s] = "allocating"
    /\ target[s] \in pipelines
    /\ \E max \in {0} \cup Numbers(target[s]) :
          /\ IsLatest(target[s], max)
          /\ number' = [number EXCEPT ![s] = max + 1]
          /\ IF ValidVersion(draft[s], max + 1)
             THEN /\ call' = [call EXCEPT ![s] = "inserting"]
                  /\ UNCHANGED <<tx, pending, held>>
             ELSE Fail(s, "ErrInvalidDraft")
    /\ UNCHANGED <<creates, target, draft, rows, written, read>>

\* GROUP BY p.id: no row comes back for a pipeline that does not exist.
AllocateMissing(s) ==
    /\ call[s] = "allocating"
    /\ target[s] \notin pipelines
    /\ Fail(s, "ErrPipelineNotFound")
    /\ UNCHANGED <<creates, target, draft, number, rows, written, read>>

SameKey(s, t) == target[s] = target[t] /\ number[s] = number[t]

\* Mutant: nothing makes an uncommitted key exclusive.
InsertBlockedNever(s) == FALSE

\* UNIQUE (pipeline_id, version_number): the INSERT waits for a transaction
\* that has inserted the same key and has not ended.
InsertBlocked(s) == \E t \in pending : SameKey(s, t)

\* Mutant: the mapping batch is never sent.
InsertVersionOnly(s) ==
    /\ call[s] = "inserting"
    /\ ~InsertBlocked(s)
    /\ ~\E t \in rows : SameKey(s, t)
    /\ target[s] \in pipelines
    /\ pending' = pending \cup {s}
    /\ call' = [call EXCEPT ![s] = "committing"]
    /\ UNCHANGED <<creates, tx, target, draft, number, rows, written, held, read>>

InsertVersion(s) ==
    /\ call[s] = "inserting"
    /\ ~InsertBlocked(s)
    /\ ~\E t \in rows : SameKey(s, t)
    /\ target[s] \in pipelines
    /\ pending' = pending \cup {s}
    /\ call' = [call EXCEPT ![s] = IF draft[s].fields = <<>> THEN "committing"
                                                            ELSE "mapping"]
    /\ UNCHANGED <<creates, tx, target, draft, number, rows, written, held, read>>

\* Mutant: any failure of the INSERT is reported as a conflict.
InsertVersionFailsAnyCode(s) ==
    /\ call[s] = "inserting"
    /\ ~InsertBlocked(s)
    /\ (\E t \in rows : SameKey(s, t)) \/ target[s] \notin pipelines
    /\ Fail(s, "ErrVersionConflict")
    /\ UNCHANGED <<creates, target, draft, number, rows, written, read>>

\* 23505, or the foreign key finds the pipeline gone.
InsertVersionFails(s) ==
    /\ call[s] = "inserting"
    /\ ~InsertBlocked(s)
    /\ IF \E t \in rows : SameKey(s, t)
       THEN Fail(s, "ErrVersionConflict")
       ELSE target[s] \notin pipelines /\ Fail(s, "ErrInsertVersion")
    /\ UNCHANGED <<creates, target, draft, number, rows, written, read>>

\* The table's own checks of row i: the CHECK constraints repeat Validate, the
\* column types go further, and (version_id, output_name) is the primary key.
TableRefuses(set, i) ==
    \/ set[i] \in Refused \cup Malformed
    \/ \E j \in 1..(i - 1) : set[j] = set[i]

\* One row of the batch; after the last one the batch is closed.
InsertMapping(s) ==
    /\ call[s] = "mapping"
    /\ LET set == draft[s].fields
           i   == written[s] + 1
       IN  IF TableRefuses(set, i)
           THEN Fail(s, "ErrInsertMapping") /\ UNCHANGED written
           ELSE /\ written' = [written EXCEPT ![s] = i]
                /\ call' = [call EXCEPT ![s] = IF i = Len(set) THEN "committing"
                                                               ELSE "mapping"]
                /\ UNCHANGED <<tx, pending, held>>
    /\ UNCHANGED <<creates, target, draft, number, rows, read>>

\* COMMIT leaves for the server ...
SendCommit(s) ==
    /\ call[s] = "committing"
    /\ tx[s] = "open"
    /\ tx' = [tx EXCEPT ![s] = "committing"]
    /\ UNCHANGED <<creates, call, target, draft, number, pending, rows, written,
                   held, read>>

\* ... and the server commits, whether or not the caller still waits ...
CommitLands(s) ==
    /\ tx[s] = "committing"
    /\ tx' = [tx EXCEPT ![s] = "committed"]
    /\ pending' = pending \ {s}
    /\ rows' = rows \cup {s}
    /\ UNCHANGED <<creates, call, target, draft, number, written, held, read>>

\* Mutant: the version is returned without waiting for Commit's result.
CommitReplyEarly(s) ==
    /\ call[s] = "committing"
    /\ tx[s] \in {"committing", "committed"}
    /\ call' = [call EXCEPT ![s] = "saved"]
    /\ held' = held \ {s}
    /\ UNCHANGED <<creates, tx, target, draft, number, pending, rows, written, read>>

\* ... and the reply reaches the caller.
CommitReply(s) ==
    /\ call[s] = "committing"
    /\ tx[s] = "committed"
    /\ call' = [call EXCEPT ![s] = "saved"]
    /\ held' = held \ {s}
    /\ UNCHANGED <<creates, tx, target, draft, number, pending, rows, written, read>>

\* The context expires, or the calling process dies: the call is over and its
\* connection is closed, the transaction is left to the server.
GiveUp(s) ==
    /\ call[s] \in Working \cup {"acquiring"}
    /\ call' = [call EXCEPT ![s] = "ErrInterrupted"]
    /\ held' = held \ {s}
    /\ UNCHANGED <<creates, tx, target, draft, number, pending, rows, written, read>>

\* The server ends a transaction that has not committed: its client is gone,
\* or the backend or the server itself went down.
LoseTransaction(s) ==
    /\ tx[s] \in InFlight
    /\ tx' = [tx EXCEPT ![s] = "rolledback"]
    /\ pending' = pending \ {s}
    /\ held' = held \ {s}
    /\ call' = [call EXCEPT ![s] = IF @ \in Working THEN "ErrInterrupted" ELSE @]
    /\ UNCHANGED <<creates, target, draft, number, rows, written, read>>

--------------------------------------------------------------------------------
(* GetVersion: two queries, each on its own connection and snapshot.       *)

StartRead(r, p, n) ==
    /\ read[r].at = "idle"
    /\ read' = [read EXCEPT ![r] = [@ EXCEPT !.at = "version", !.pipeline = p, !.number = n]]
    /\ UNCHANGED <<creates, saves>>

Matching(p, n) == {s \in rows : target[s] = p /\ number[s] = n}

ReadVersion(r) ==
    /\ read[r].at = "version"
    /\ FreeConn
    /\ \E s \in Matching(read[r].pipeline, read[r].number) :
          read' = [read EXCEPT ![r] = [@ EXCEPT !.at = "mappings", !.row = s]]
    /\ UNCHANGED <<creates, saves>>

ReadMissing(r) ==
    /\ read[r].at = "version"
    /\ FreeConn
    /\ Matching(read[r].pipeline, read[r].number) = {}
    /\ read' = [read EXCEPT ![r] = [@ EXCEPT !.at = "ErrVersionNotFound"]]
    /\ UNCHANGED <<creates, saves>>

\* Mutant: the loop over the rows stops one short.
MappingRowsShort(s) ==
    IF s \in rows THEN {draft[s].fields[i] : i \in 2..written[s]} ELSE {}

\* The mapping rows of version s that a statement sees now.
MappingRows(s) ==
    IF s \in rows THEN {draft[s].fields[i] : i \in 1..written[s]} ELSE {}

ReadMappings(r) ==
    /\ read[r].at = "mappings"
    /\ FreeConn
    /\ read' = [read EXCEPT ![r] = [@ EXCEPT !.at = "done",
                                             !.fields = MappingRows(read[r].row)]]
    /\ UNCHANGED <<creates, saves>>

\* Either query, the decoding of the row or the scan of a mapping fails.
ReadFails(r) ==
    /\ read[r].at \in {"version", "mappings"}
    /\ read' = [read EXCEPT ![r] = [@ EXCEPT !.at = "failed"]]
    /\ UNCHANGED <<creates, saves>>

\* Mutant: COUNT(*) counts the row the LEFT JOIN makes up.
VersionCountStar(p) ==
    LET found == {s \in rows : target[s] = p}
    IN  IF found = {} THEN 1 ELSE Cardinality(found)

\* ListRecentPipelines: COUNT(v.id) and COALESCE(MAX(v.version_number), 0).
VersionCount(p) == Cardinality({s \in rows : target[s] = p})
LatestVersion(p) == CHOOSE max \in {0} \cup Numbers(p) : IsLatest(p, max)

\* ListVersions: COUNT(m.output_name).
FieldCount(s) == Cardinality(MappingRows(s))

--------------------------------------------------------------------------------
(* An operator deletes a pipeline in SQL; nothing in the Go code does.  ON *)
(* DELETE CASCADE takes its versions and their mappings along, and the     *)
(* foreign key makes the DELETE wait for uncommitted versions.             *)

DeletePipeline(p) ==
    /\ p \in pipelines \cap Deletable
    /\ ~\E s \in pending : target[s] = p
    /\ pipelines' = pipelines \ {p}
    /\ rows' = {s \in rows : target[s] # p}
    /\ UNCHANGED <<creation, insertion, label, call, tx, target, draft, number,
                   pending, written, held, read>>

--------------------------------------------------------------------------------
SaveStep(s) ==
    \/ Begin(s) \/ Allocate(s) \/ AllocateMissing(s)
    \/ InsertVersion(s) \/ InsertVersionFails(s) \/ InsertMapping(s)
    \/ SendCommit(s) \/ CommitReply(s)

ServerStep(s) == CommitLands(s) \/ LoseTransaction(s)

\* What the server does without anything going wrong: it answers a COMMIT and
\* notices a client whose connection is closed.
ServerAnswers(s) ==
    CommitLands(s) \/ (s \notin held /\ LoseTransaction(s))

ReadStep(r) == ReadVersion(r) \/ ReadMissing(r) \/ ReadMappings(r)

Next ==
    \/ \E p \in Pipelines, t \in Tenants \cup {NilId}, n \in Names :
          CreatePipeline(p, t, n)
    \/ \E p \in Pipelines : CreateStep(p)
    \/ \E s \in Saves, p \in Pipelines, d \in Drafts : StartSave(s, p, d)
    \/ \E s \in Saves : SaveStep(s) \/ GiveUp(s) \/ ServerStep(s)
    \/ \E r \in Reads, p \in Pipelines, n \in 1..Cardinality(Saves) : StartRead(r, p, n)
    \/ \E r \in Reads : ReadStep(r) \/ ReadFails(r)
    \/ \E p \in Pipelines : DeletePipeline(p)

Spec == Init /\ [][Next]_vars

\* Goroutines run and the server answers.  Nothing is assumed of contexts
\* expiring, of new calls or of operators.  The pool hands a freed connection
\* to whoever waits longest, hence strong fairness for the steps that take one.
Fairness ==
    /\ \A s \in Saves : /\ SF_vars(Begin(s))
                        /\ WF_vars(SaveStep(s))
                        /\ WF_vars(ServerAnswers(s))
    /\ \A p \in Pipelines : WF_vars(InsertAnswered(p)) /\ WF_vars(CreateReply(p))
    /\ \A r \in Reads : SF_vars(ReadStep(r))

FairSpec == Spec /\ Fairness

--------------------------------------------------------------------------------
(* Properties.                                                             *)

SaveStates == Working \cup Returned \cup {"idle", "acquiring"}

ReadType ==
    [at : {"idle", "version", "mappings", "done", "ErrVersionNotFound", "failed"},
     pipeline : Pipelines \cup {NilId}, number : Nat,
     row : Saves \cup {NoRow}, fields : SUBSET Fields]

\* Every variable has its type.
TypeOK ==
    /\ pipelines \subseteq Pipelines
    /\ creation \in [Pipelines -> {"idle", "inserting", "created", "ErrEmptyTenant", "ErrEmptyName",
                                   "ErrDuplicateName", "ErrInsertPipeline", "ErrInterrupted"}]
    /\ insertion \in [Pipelines -> {"none", "sent", "committed", "duplicate", "refused", "lost"}]
    /\ label \in [Pipelines -> (Tenants \X Names) \cup {<<>>}]
    /\ \A p \in Pipelines : insertion[p] # "none" => label[p] \in Tenants \X Names
    /\ call \in [Saves -> SaveStates]
    /\ tx \in [Saves -> InFlight \cup {"none", "committed", "rolledback"}]
    /\ target \in [Saves -> Pipelines \cup {NilId}]
    /\ draft \in [Saves -> Drafts \cup {NoDraft}]
    /\ number \in [Saves -> Nat]
    /\ pending \subseteq Saves
    /\ rows \subseteq Saves
    /\ written \in [Saves -> Nat]
    /\ held \subseteq Saves \cup Pipelines
    /\ read \in [Reads -> ReadType]

\* Calls never hold more connections than the pool has, and one that has
\* returned holds none: no path out of SaveDraftVersion leaks its connection.
PoolBound ==
    /\ IsFiniteSet(held) /\ Cardinality(held) <= MaxConns
    /\ held = {s \in Saves : call[s] \in Working}
               \cup {p \in Pipelines : creation[p] = "inserting"}

\* The version numbers of a pipeline run 1, 2, 3, ... without a gap and without
\* a repetition, however saves race, fail and get lost (SaveDraftVersion
\* allocates in a statement of its own and takes no lock).
VersionsContiguous ==
    /\ \A s, t \in rows : SameKey(s, t) => s = t
    /\ \A s \in rows : \A n \in 1..number[s] :
          \E t \in rows : target[t] = target[s] /\ number[t] = n

\* A number once committed is never given to another save, not even after the
\* pipeline was deleted: a campaign bound to a version never sees another.
NumberNeverReused ==
    \A s, t \in Saves :
        tx[s] = "committed" /\ tx[t] = "committed" /\ SameKey(s, t) => s = t

\* A version that can be read is a recipe that validates, with every one of its
\* mapping rows: a half-written selection cannot exist.
VersionsWhole ==
    \A s \in rows : /\ ValidVersion(draft[s], number[s])
                    /\ MappingRows(s) = {draft[s].fields[i] : i \in DOMAIN draft[s].fields}

\* The listings tell the truth: a pipeline has as many versions as the number
\* of its latest says, and a version as many fields as were saved.
ListingAgrees ==
    /\ \A p \in Pipelines : VersionCount(p) = LatestVersion(p)
    /\ \A s \in rows : FieldCount(s) = Len(draft[s].fields)

\* A save that returned a version has committed it: it stays until its pipeline
\* is deleted.
SavedIsDurable ==
    \A s \in Saves : call[s] = "saved" =>
        tx[s] = "committed" /\ (s \in rows \/ target[s] \notin pipelines)

\* An error that names its cause promises that nothing was saved, now or later:
\* only an interrupted call leaves its caller in doubt.
NamedErrorSavesNothing ==
    \A s \in Saves : call[s] \in NamedErrors =>
        s \notin pending \cup rows /\ tx[s] \notin InFlight \cup {"committed"}

\* ErrVersionConflict is only returned to a save that really lost to another:
\* the number it was given belongs to a committed version.
ConflictHasWinner ==
    \A s \in Saves : call[s] = "ErrVersionConflict" =>
        \E t \in Saves : t # s /\ tx[t] = "committed" /\ SameKey(s, t)

\* A deleted pipeline takes its versions along, and none is ever added to it.
NoOrphanVersions == \A s \in pending \cup rows : target[s] \in pipelines

\* ErrDuplicateName tells the truth, and all of it: whoever is told it has left no row
\* and will leave none, and the name is really that of a row that another call of the
\* tenant put in, be it one whose reply was lost, came too late or arrived after this call
\* was made.  So a caller who was interrupted and tries again under the same name, or
\* in other capitals, learns from it that there is a pipeline to be found, and no
\* other failure is taken for that.
DuplicateIsTrue ==
    \A p \in Pipelines : creation[p] = "ErrDuplicateName" =>
        /\ p \notin pipelines /\ insertion[p] # "sent"
        /\ \E q \in Pipelines \ {p} : insertion[q] = "committed" /\ SameName(p, q)

\* GetVersion never returns a partial selection: it has all the fields of the
\* version it found, or none of them because the pipeline was deleted between
\* its two queries.
ReadIsWhole ==
    \A r \in Reads : read[r].at = "done" =>
        LET s == read[r].row
        IN  \/ read[r].fields = {draft[s].fields[i] : i \in DOMAIN draft[s].fields}
            \/ read[r].fields = {} /\ read[r].pipeline \notin pipelines

\* Two reads of the same version, at whatever times, find the same row.
ReadsAgree ==
    \A q, r \in Reads :
        /\ read[q].at \in {"mappings", "done"} /\ read[r].at \in {"mappings", "done"}
        /\ read[q].pipeline = read[r].pipeline
        /\ read[q].number = read[r].number
        => read[q].row = read[r].row

\* A version whose save has returned is found by every read that asks for it
\* afterwards, unless the pipeline has been deleted.
SavedIsFound ==
    [][\A r \in Reads :
          read[r].at = "version" /\ read'[r].at = "ErrVersionNotFound" =>
              ~\E s \in Saves : /\ call[s] = "saved"
                                /\ target[s] = read[r].pipeline
                                /\ number[s] = read[r].number
                                /\ target[s] \in pipelines]_vars

\* Every save returns, although an INSERT waits for other transactions and a
\* Begin for a connection, and although no context need ever expire.
SaveReturns == \A s \in Saves : call[s] = "acquiring" ~> call[s] \in Returned

--------------------------------------------------------------------------------
(* The inductive invariant behind the properties above.                    *)

\* A call and its transaction agree on how far the save has come.
Stages ==
    \A s \in Saves :
        /\ call[s] \in {"idle", "acquiring"} => tx[s] = "none" /\ s \notin pending
        /\ call[s] \in {"allocating", "inserting"} =>
              tx[s] = "open" /\ s \notin pending /\ written[s] = 0
        /\ call[s] = "mapping" => /\ tx[s] = "open" /\ s \in pending
                                  /\ written[s] < Len(draft[s].fields)
        /\ call[s] = "committing" => /\ tx[s] \in {"open", "committing", "committed"}
                                     /\ tx[s] = "open" => s \in pending
                                     /\ written[s] = Len(draft[s].fields)
        /\ call[s] = "saved" => tx[s] = "committed"
        /\ call[s] \in NamedErrors => tx[s] \in {"none", "rolledback"}
        /\ tx[s] = "committing" => s \in pending
        /\ tx[s] = "none" => written[s] = 0
        /\ tx[s] \in {"committing", "committed"} => written[s] = Len(draft[s].fields)

\* Only a transaction's end moves a row from pending to rows.
RowStates ==
    /\ \A s \in pending : tx[s] \in InFlight
    /\ \A s \in rows : tx[s] = "committed"
    /\ \A s \in Saves : tx[s] = "committed" => s \in rows \/ target[s] \notin pipelines

\* Whatever has passed Validate stays valid.
Validated ==
    \A s \in Saves :
        call[s] \in {"inserting", "mapping", "committing"} \/ s \in pending \/ tx[s] = "committed"
        => ValidVersion(draft[s], number[s])

\* A call and its INSERT agree, and an index entry was another call's.
Creations ==
    \A p \in Pipelines :
        /\ creation[p] \in {"idle", "ErrEmptyTenant", "ErrEmptyName"} => insertion[p] = "none"
        /\ creation[p] = "inserting" => insertion[p] \notin {"none", "lost"}
        /\ creation[p] = "ErrDuplicateName" => insertion[p] = "duplicate"
        /\ insertion[p] = "duplicate" =>
              \E q \in Pipelines \ {p} : insertion[q] = "committed" /\ SameName(p, q)

\* A pipeline that has gone does not come back.
NoReturn ==
    /\ \A p \in pipelines : insertion[p] = "committed"
    /\ \A s \in Saves :
          call[s] = "inserting" \/ tx[s] = "committed" =>
              target[s] \in Pipelines /\ insertion[target[s]] = "committed"

\* No two saves hold the same number of the same pipeline.
KeysUnique ==
    \A s, t \in Saves :
        /\ s \in pending \/ tx[s] = "committed"
        /\ t \in pending \/ tx[t] = "committed"
        /\ SameKey(s, t)
        => s = t

\* Below a number that was allocated, every number is committed.
NoGaps ==
    \A s \in Saves :
        /\ call[s] = "inserting" \/ s \in pending \cup rows
        /\ target[s] \in pipelines
        => \A n \in 1..(number[s] - 1) :
              \E t \in rows : target[t] = target[s] /\ number[t] = n

\* The row a read has found is the one committed under the key it asked for.
ReadsRows ==
    \A r \in Reads :
        read[r].at \in {"mappings", "done"} =>
            LET s == read[r].row
            IN  /\ s \in Saves
                /\ tx[s] = "committed"
                /\ target[s] = read[r].pipeline
                /\ number[s] = read[r].number

IInv == /\ TypeOK /\ PoolBound /\ Stages /\ RowStates /\ Validated /\ NoReturn
        /\ KeysUnique /\ NoOrphanVersions /\ NoGaps /\ ConflictHasWinner
        /\ Creations /\ ReadsRows /\ ReadIsWhole

--------------------------------------------------------------------------------
(* The tables as the log of versions they promise to be.                   *)

\* What a read of version n of p would return.
Recipe(p, n) ==
    LET s == CHOOSE t \in rows : target[t] = p /\ number[t] = n
    IN  [draft[s] EXCEPT !.fields = SubSeq(@, 1, written[s])]

Published == [p \in Pipelines |-> [n \in 1..LatestVersion(p) |-> Recipe(p, n)]]

Log == INSTANCE VersionLog WITH
           Recipes    <- {d \in Drafts : ValidVersion(d, 1)},
           registered <- pipelines,
           log        <- Published

\* The repository is an append-only log of whole, valid recipes per pipeline:
\* racing, failing and interrupted calls come down to appending a recipe or
\* to nothing.
ImplementsVersionLog == Log!Spec
================================================================================
