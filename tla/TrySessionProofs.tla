---------------------------- MODULE TrySessionProofs ----------------------------
(***************************************************************************)
(* What holds of any number of pipelinetry runs.  SessionIInv is           *)
(* inductive; a step of a session is a step of PipelineStore or none, so   *)
(* everything proved of the repository holds of the runs too.              *)
(***************************************************************************)
EXTENDS TrySession, PipelineStoreProofs

LEMMA SessionInitIInv == SessionInit => SessionIInv
<1> SUFFICES ASSUME SessionInit PROVE SessionIInv
  OBVIOUS
<1>1. IInv
  BY InitIInv DEF SessionInit
<1>2. SessionTypeOK
  BY SessionAssumption DEF SessionInit, SessionTypeOK, SessionAssumption, NoRun, Asked, Ended
<1>3. InStep /\ OwnPipeline /\ EventsNameSaved
  BY SessionAssumption
  DEF SessionInit, Init, InStep, OwnPipeline, EventsNameSaved, NoRun, SessionAssumption
<1> QED
  BY <1>1, <1>2, <1>3 DEF SessionIInv

\* A pipeline made by a run is made once, so a second run cannot hold a version
\* of it.
LEMMA OnlySave ==
    ASSUME SessionIInv, NEW s \in Saves, NEW t \in Saves,
           call[s] # "idle", call[t] # "idle", target[s] = target[t]
    PROVE  s = t
  BY SessionAssumption DEF SessionIInv, InStep, SessionAssumption

\* A save that has not committed finds no version in its pipeline.
LEMMA NoNumbers ==
    ASSUME SessionIInv, NEW s \in Saves, call[s] # "idle", tx[s] = "open"
    PROVE  /\ Numbers(target[s]) = {}
           /\ ~\E t \in rows : SameKey(s, t)
<1>1. \A t \in rows : t \in Saves /\ tx[t] = "committed" /\ call[t] # "idle"
  BY DEF SessionIInv, IInv, TypeOK, RowStates, Stages
<1>2. \A t \in rows : target[t] # target[s]
  BY <1>1, OnlySave
<1> QED
  BY <1>2 DEF Numbers, SameKey

--------------------------------------------------------------------------------
\* A step of a session is a step of the repository, or leaves it alone.
LEMMA StepMaps ==
    ASSUME SessionIInv, [SessionNext]_<<session, vars>>
    PROVE  [Next]_vars
<1>1. ASSUME NEW k \in Saves, RunStep(k)
      PROVE  [Next]_vars
  <2>1. ASSUME NEW tenant \in Tenants \cup {NilId}, CreateFor(k, tenant)
        PROVE  Next
    <3>1. run[k].host \in Hosts /\ run[k].name \in Names \cup {NoName} /\ now \in 0..ClockBound
      <4>1. run[k].at = "creating"
        BY <2>1 DEF CreateFor
      <4>2. run[k].host \in Hosts
        BY <4>1 DEF SessionIInv, InStep
      <4>3. run[k].name \in Names \cup {NoName} /\ now \in 0..ClockBound
        BY DEF SessionIInv, SessionTypeOK
      <4> QED
        BY <4>2, <4>3
    <3>2. NameOf(k) \in Names
      <4>1. DefaultName \in [Hosts -> [0..ClockBound -> Names]]
        BY SessionAssumption DEF SessionAssumption
      <4>2. DefaultName[run[k].host][now] \in Names
        BY <3>1, <4>1
      <4> QED
        BY <3>1, <4>2 DEF NameOf
    <3>3. PipelineOf[k] \in Pipelines
      BY SessionAssumption DEF SessionAssumption
    <3> QED
      BY <2>1, <3>2, <3>3 DEF CreateFor, Next
  <2>2. CASE SaveFor(k)
    <3>1. PipelineOf[k] \in Pipelines /\ run[k].recipe \in Drafts
      BY <2>2, SessionAssumption DEF SaveFor, SessionAssumption, SessionIInv, InStep
    <3> QED
      BY <2>2, <3>1 DEF SaveFor, Next
  <2>3. CASE Killed(k)
    <3>1. GiveUpCreate(PipelineOf[k]) \/ GiveUp(k) \/ UNCHANGED vars
      BY <2>3 DEF Killed
    <3>2. PipelineOf[k] \in Pipelines
      BY SessionAssumption DEF SessionAssumption
    <3> QED
      BY <3>1, <3>2 DEF Next, CreateStep
  <2>4. CASE \/ \E asked \in Asked, host \in Hosts, name \in Names \cup {NoName},
                   recipe \in Drafts : StartRun(k, asked, host, name, recipe)
             \/ Resolves(k) \/ Fails(k) \/ CreateEnds(k) \/ SaveEnds(k) \/ RecordEvent(k)
    BY <2>4 DEF StartRun, Resolves, Fails, CreateEnds, SaveEnds, RecordEvent
  <2> QED
    BY <1>1, <2>1, <2>2, <2>3, <2>4 DEF RunStep
<1>2. CASE Tick
  BY <1>2 DEF Tick
<1>3. CASE \/ \E k \in Saves : SaveStep(k) \/ GiveUp(k) \/ ServerStep(k)
           \/ \E p \in Pipelines : CreateStep(p) \/ DeletePipeline(p)
  BY <1>3 DEF Next
<1> QED
  BY <1>1, <1>2, <1>3 DEF SessionNext

--------------------------------------------------------------------------------
\* What the steps of the repository keep of a session.
LEMMA StoreStepKeeps ==
    ASSUME SessionIInv, UNCHANGED session, IInv',
           \/ \E k \in Saves : SaveStep(k) \/ GiveUp(k) \/ ServerStep(k)
           \/ \E p \in Pipelines : CreateStep(p) \/ DeletePipeline(p)
    PROVE  SessionIInv'
<1> USE DEF SessionIInv
<1>1. SessionTypeOK'
  BY DEF SessionTypeOK, session
<1>2. ASSUME NEW s \in Saves, SaveStep(s) \/ GiveUp(s) \/ ServerStep(s)
      PROVE  /\ target' = target /\ draft' = draft
             /\ \A t \in Saves : /\ t # s => call'[t] = call[t] /\ tx'[t] = tx[t] /\ number'[t] = number[t]
                                 /\ call'[t] = call[t] \/ call[t] # "saved"
                                 /\ tx[t] = "committed" => tx'[t] = "committed"
             /\ number'[s] \in {0, 1} /\ call'[s] # "ErrVersionConflict"
             /\ call[s] # "idle" /\ call'[s] # "idle"
  <2>1. CASE \/ Begin(s) \/ AllocateMissing(s) \/ InsertVersion(s) \/ InsertMapping(s)
             \/ SendCommit(s) \/ CommitReply(s) \/ GiveUp(s)
    <3>1. PICK result \in SaveStates :
             /\ call' = [call EXCEPT ![s] = result] /\ call[s] \notin {"idle", "saved"}
             /\ result \notin {"idle", "ErrVersionConflict"}
      BY <2>1 DEF Begin, AllocateMissing, InsertVersion, InsertMapping, SendCommit, CommitReply,
         GiveUp, Fail, IInv, TypeOK, Working, SaveStates, Returned, NamedErrors
    <3>2. number[s] \in {0, 1}
      BY <3>1 DEF OwnPipeline
    <3>3. /\ target' = target /\ draft' = draft /\ number' = number
          /\ \/ tx' = tx
             \/ \E state \in {"open", "committing", "rolledback"} :
                   tx' = [tx EXCEPT ![s] = state] /\ tx[s] # "committed"
      BY <2>1 DEF Begin, AllocateMissing, InsertVersion, InsertMapping, SendCommit, CommitReply,
         GiveUp, Fail, IInv, Stages
    <3> QED
      BY <3>1, <3>2, <3>3 DEF IInv, TypeOK
  <2>2. CASE Allocate(s)
    <3>1. call[s] = "allocating" /\ tx[s] = "open"
      BY <2>2 DEF Allocate, IInv, Stages
    <3>2. Numbers(target[s]) = {}
      BY <3>1, NoNumbers
    <3>3. number'[s] = 1
      BY <2>2, <3>2 DEF Allocate, IInv, TypeOK
    <3>4. \/ call' = [call EXCEPT ![s] = "inserting"] /\ tx' = tx
          \/ call' = [call EXCEPT ![s] = "ErrInvalidDraft"] /\ tx' = [tx EXCEPT ![s] = "rolledback"]
      BY <2>2 DEF Allocate, Fail
    <3> QED
      BY <2>2, <3>1, <3>3, <3>4 DEF Allocate, IInv, TypeOK
  <2>3. CASE InsertVersionFails(s)
    <3>1. call[s] = "inserting" /\ tx[s] = "open"
      BY <2>3 DEF InsertVersionFails, IInv, Stages
    <3>2. Fail(s, "ErrInsertVersion")
      BY <2>3, <3>1, NoNumbers DEF InsertVersionFails
    <3> QED
      BY <2>3, <3>1, <3>2 DEF InsertVersionFails, Fail, IInv, TypeOK, OwnPipeline
  <2>4. CASE ServerStep(s)
    BY <2>4 DEF ServerStep, CommitLands, LoseTransaction, IInv, TypeOK, OwnPipeline, InFlight,
       Working, Stages, RowStates
  <2> QED
    BY <1>2, <2>1, <2>2, <2>3, <2>4 DEF SaveStep
<1>3. ASSUME NEW p \in Pipelines, CreateStep(p) \/ DeletePipeline(p)
      PROVE  /\ UNCHANGED <<call, tx, target, draft, number>>
             /\ \A q \in Pipelines : creation[q] = "idle" => creation'[q] = "idle"
  <2>1. CASE DeletePipeline(p)
    BY <2>1 DEF DeletePipeline
  <2>2. CASE InsertAnswered(p)
    BY <2>2 DEF InsertAnswered, InsertLands, InsertRefused, saves
  <2>3. CASE CreateReply(p) \/ GiveUpCreate(p)
    BY <2>3 DEF CreateReply, GiveUpCreate, IInv, TypeOK
  <2>4. CASE LoseInsert(p)
    BY <2>4 DEF LoseInsert, IInv, TypeOK
  <2> QED
    BY <1>3, <2>1, <2>2, <2>3, <2>4 DEF CreateStep
<1>4. InStep'
  <2>1. ASSUME NEW s \in Saves, SaveStep(s) \/ GiveUp(s) \/ ServerStep(s)
        PROVE  creation' = creation
    BY <2>1 DEF SaveStep, Begin, Allocate, AllocateMissing, InsertVersion, InsertVersionFails,
       InsertMapping, SendCommit, CommitReply, GiveUp, ServerStep, CommitLands, LoseTransaction, creates
  <2>2. /\ \A q \in Pipelines : creation[q] = "idle" => creation'[q] = "idle"
        /\ target' = target /\ draft' = draft
        /\ \A t \in Saves : /\ call[t] = "idle" <=> call'[t] = "idle"
                            /\ call[t] = "idle" => number'[t] = number[t]
                            /\ call[t] = "saved" => call'[t] = "saved"
    BY <1>2, <1>3, <2>1
  <2>3. run' = run /\ \A k \in Saves : SelectsNothing(k)' = SelectsNothing(k)
    BY DEF session, SelectsNothing
  <2> QED
    BY <2>2, <2>3, SessionAssumption DEF InStep, SessionAssumption
<1>5. OwnPipeline'
  BY <1>2, <1>3 DEF InStep, OwnPipeline, session
<1>6. EventsNameSaved'
  BY <1>2, <1>3 DEF EventsNameSaved, SessionTypeOK, session
<1> QED
  BY <1>1, <1>4, <1>5, <1>6

\* What the steps of a run keep that leave the repository alone.
LEMMA QuietStepKeeps ==
    ASSUME SessionIInv, IInv', UNCHANGED vars, NEW k \in Saves,
           \/ \E asked \in Asked, host \in Hosts, name \in Names \cup {NoName},
                 recipe \in Drafts : StartRun(k, asked, host, name, recipe)
           \/ Resolves(k) \/ Fails(k) \/ CreateEnds(k) \/ SaveEnds(k)
    PROVE  SessionIInv'
<1> USE DEF SessionIInv
<1>1. OwnPipeline' /\ EventsNameSaved'
  BY DEF OwnPipeline, EventsNameSaved, vars, saves, StartRun, Resolves, Fails, CreateEnds, SaveEnds
<1>2. UNCHANGED <<call, number, target, draft, creation>>
  BY DEF vars, saves, creates
<1>3. ASSUME NEW asked \in Asked, NEW host \in Hosts, NEW name \in Names \cup {NoName},
             NEW recipe \in Drafts, StartRun(k, asked, host, name, recipe)
      PROVE  SessionTypeOK' /\ InStep'
  BY <1>2, <1>3 DEF StartRun, SessionTypeOK, InStep, SelectsNothing
<1>4. ASSUME NEW place \in {"creating", "saving", "recording", "done", "failed"}, At(k, place),
             UNCHANGED <<now, events>>,
             run[k].at # "idle",
             place \in {"creating", "saving"} => run[k].asked = "save" /\ ~SelectsNothing(k),
             place = "creating" => call[k] = "idle",
             place = "recording" => ~SelectsNothing(k),
             place \in {"recording", "done"} =>
                 IF run[k].asked = "save" /\ ~SelectsNothing(k) THEN call[k] = "saved"
                 ELSE call[k] = "idle" /\ creation[PipelineOf[k]] = "idle"
      PROVE  SessionTypeOK' /\ InStep'
  BY <1>2, <1>4 DEF At, SessionTypeOK, InStep, SelectsNothing, Ended
<1>5. CASE Resolves(k)
  BY <1>1, <1>4, <1>5 DEF Resolves, InStep, SelectsNothing, SessionTypeOK, Asked
<1>6. CASE Fails(k)
  BY <1>1, <1>4, <1>6 DEF Fails
<1>7. CASE CreateEnds(k)
  BY <1>1, <1>4, <1>7 DEF CreateEnds, InStep
<1>8. CASE SaveEnds(k)
  BY <1>1, <1>4, <1>8 DEF SaveEnds, InStep
<1> QED
  BY <1>1, <1>3, <1>5, <1>6, <1>7, <1>8

LEMMA CreateForKeeps ==
    ASSUME SessionIInv, IInv', NEW k \in Saves, NEW tenant \in Tenants \cup {NilId},
           CreateFor(k, tenant)
    PROVE  SessionIInv'
<1> USE DEF SessionIInv
<1>1. /\ UNCHANGED <<call, tx, target, draft, number>> /\ UNCHANGED session
      /\ \A q \in Pipelines \ {PipelineOf[k]} : creation'[q] = creation[q]
  BY DEF CreateFor, CreatePipeline, RefuseCreate, SendInsert, FailCreate, saves, IInv, TypeOK
<1>2. OwnPipeline' /\ EventsNameSaved' /\ SessionTypeOK'
  BY <1>1 DEF OwnPipeline, EventsNameSaved, SessionTypeOK, session
<1>3. run[k].at = "creating"
  BY DEF CreateFor
<1>4. InStep'
  <2>1. \A j \in Saves : PipelineOf[j] \in Pipelines /\ (j # k => PipelineOf[j] # PipelineOf[k])
    BY SessionAssumption DEF SessionAssumption
  <2>2. \A j \in Saves : SelectsNothing(j)' = SelectsNothing(j)
    BY <1>1 DEF session, SelectsNothing
  <2> QED
    BY <1>1, <1>3, <2>1, <2>2 DEF InStep, session
<1> QED
  BY <1>2, <1>4

LEMMA SaveForKeeps ==
    ASSUME SessionIInv, IInv', NEW k \in Saves, SaveFor(k)
    PROVE  SessionIInv'
<1> USE DEF SessionIInv
<1>1. SessionTypeOK'
  BY DEF SaveFor, SessionTypeOK, session
<1>2. tx[k] = "none" /\ call[k] = "idle" /\ number' = number /\ tx' = tx
  BY DEF SaveFor, StartSave, IInv, Stages
<1>3. number[k] \in {0, 1}
  BY <1>2 DEF InStep
<1>4. InStep'
  BY DEF SaveFor, StartSave, InStep, SelectsNothing, session, IInv, TypeOK, creates
<1>5. OwnPipeline'
  BY <1>2, <1>3 DEF SaveFor, StartSave, OwnPipeline, session, IInv, TypeOK
<1>6. EventsNameSaved'
  BY <1>2 DEF SaveFor, StartSave, EventsNameSaved, session, SessionTypeOK, IInv, TypeOK
<1> QED
  BY <1>1, <1>4, <1>5, <1>6

LEMMA RecordEventKeeps ==
    ASSUME SessionIInv, IInv', NEW k \in Saves, RecordEvent(k)
    PROVE  SessionIInv'
<1> USE DEF SessionIInv
<1>1. OwnPipeline'
  BY DEF RecordEvent, OwnPipeline, vars, saves
<1>2. InStep'
  BY DEF RecordEvent, At, InStep, SelectsNothing, vars, saves, creates, SessionTypeOK
<1>3. PICK source : /\ source = IF run[k].asked = "save" THEN PipelineOf[k] ELSE run[k].host
                    /\ events' \in {events, events \cup {[run |-> k, source |-> source]}}
  BY DEF RecordEvent
<1>4. source \in Hosts \cup Pipelines
  BY <1>3, SessionAssumption DEF RecordEvent, InStep, SessionAssumption
<1>5. SessionTypeOK'
  BY <1>3, <1>4 DEF RecordEvent, At, SessionTypeOK, Ended
<1>6. source \in Pipelines => tx[k] = "committed" /\ target[k] = source
  BY <1>3, SessionAssumption DEF RecordEvent, InStep, IInv, Stages, SessionAssumption
<1>7. EventsNameSaved'
  BY <1>3, <1>6 DEF RecordEvent, EventsNameSaved, vars, saves
<1> QED
  BY <1>1, <1>2, <1>5, <1>7

LEMMA KilledKeeps ==
    ASSUME SessionIInv, IInv', NEW k \in Saves, Killed(k)
    PROVE  SessionIInv'
<1> USE DEF SessionIInv
<1>1. SessionTypeOK'
  BY DEF Killed, At, SessionTypeOK, Ended
<1>2. /\ events' = events /\ run[k].at # "idle" /\ run' = [run EXCEPT ![k].at = "killed"]
  BY DEF Killed, At, Ended
<1>3. CASE GiveUp(k)
  BY <1>1, <1>2, <1>3 DEF GiveUp, OwnPipeline, EventsNameSaved, InStep, SelectsNothing,
     SessionTypeOK, IInv, TypeOK, Working, creates
<1>4. CASE GiveUpCreate(PipelineOf[k])
  <2>1. /\ UNCHANGED <<call, tx, target, draft, number>>
        /\ \A q \in Pipelines \ {PipelineOf[k]} : creation'[q] = creation[q]
    BY <1>4 DEF GiveUpCreate, IInv, TypeOK
  <2>2. \A j \in Saves : PipelineOf[j] \in Pipelines /\ (j # k => PipelineOf[j] # PipelineOf[k])
    BY SessionAssumption DEF SessionAssumption
  <2>3. InStep'
    BY <1>2, <2>1, <2>2 DEF InStep, SelectsNothing, SessionTypeOK
  <2> QED
    BY <1>1, <1>2, <2>1, <2>3 DEF OwnPipeline, EventsNameSaved
<1>5. CASE UNCHANGED vars
  BY <1>1, <1>2, <1>5 DEF OwnPipeline, EventsNameSaved, InStep, SelectsNothing, SessionTypeOK,
     vars, saves, creates
<1> QED
  BY <1>3, <1>4, <1>5 DEF Killed

LEMMA SessionStepIInv == SessionIInv /\ [SessionNext]_<<session, vars>> => SessionIInv'
<1> SUFFICES ASSUME SessionIInv, [SessionNext]_<<session, vars>> PROVE SessionIInv'
  OBVIOUS
<1>1. IInv'
  BY StepMaps, StepIInv DEF SessionIInv
<1>2. ASSUME NEW k \in Saves, RunStep(k)
      PROVE  SessionIInv'
  <2>1. CASE \/ \E asked \in Asked, host \in Hosts, name \in Names \cup {NoName},
                   recipe \in Drafts : StartRun(k, asked, host, name, recipe)
             \/ Resolves(k) \/ Fails(k) \/ CreateEnds(k) \/ SaveEnds(k)
    <3>1. UNCHANGED vars
      BY <2>1 DEF StartRun, Resolves, Fails, CreateEnds, SaveEnds
    <3> QED
      BY <1>1, <2>1, <3>1, QuietStepKeeps
  <2> QED
    BY <1>1, <1>2, <2>1, CreateForKeeps, SaveForKeeps, RecordEventKeeps, KilledKeeps
    DEF RunStep
<1>3. CASE Tick
  BY <1>1, <1>3, SessionAssumption DEF Tick, SessionIInv, SessionTypeOK, SessionAssumption,
     InStep, SelectsNothing, OwnPipeline, EventsNameSaved, vars, saves, creates
<1>4. CASE /\ \/ \E k \in Saves : SaveStep(k) \/ GiveUp(k) \/ ServerStep(k)
              \/ \E p \in Pipelines : CreateStep(p) \/ DeletePipeline(p)
           /\ UNCHANGED session
  BY <1>1, <1>4, StoreStepKeeps
<1>5. CASE UNCHANGED <<session, vars>>
  BY <1>1, <1>5 DEF session, vars, saves, creates, SessionIInv, SessionTypeOK, InStep,
     SelectsNothing, OwnPipeline, EventsNameSaved
<1> QED
  BY <1>2, <1>3, <1>4, <1>5 DEF SessionNext

LEMMA SessionInductive == SessionSpec => []SessionIInv
  BY SessionInitIInv, SessionStepIInv, PTL DEF SessionSpec

--------------------------------------------------------------------------------
\* Every variable of a run keeps its type.
THEOREM SessionTypes == SessionSpec => []SessionTypeOK
  BY SessionInductive, PTL DEF SessionIInv

\* The runs of the command use the repository as PipelineStore describes it, so
\* each of its theorems holds of them.
THEOREM RunsUseTheStore == SessionSpec => Spec
<1>1. SessionInit => Init
  BY DEF SessionInit
<1>2. SessionIInv /\ [SessionNext]_<<session, vars>> => [Next]_vars
  BY StepMaps
<1> QED
  BY <1>1, <1>2, SessionInductive, PTL DEF SessionSpec, Spec

\* A run never meets another in the pipeline it saves to.
THEOREM RunsOwnTheirPipelines == SessionSpec => []OwnPipeline
  BY SessionInductive, PTL DEF SessionIInv

\* A saving run with a selection that ends well has left its recipe as version 1 of its
\* pipeline, and any other run that ends well has left nothing, not even an empty pipeline.
THEOREM DoneRunsSaved == SessionSpec => []DoneMeansSaved
<1>1. SessionIInv => DoneMeansSaved
  <2> SUFFICES ASSUME SessionIInv, NEW k \in Saves, run[k].at \in {"recording", "done"},
                      NEW p, p = PipelineOf[k]
               PROVE  IF run[k].asked = "save" /\ ~SelectsNothing(k)
                      THEN /\ tx[k] = "committed" /\ target[k] = p
                           /\ number[k] = 1 /\ draft[k] = run[k].recipe
                           /\ insertion[p] = "committed" /\ (p \in pipelines => k \in rows)
                      ELSE call[k] = "idle" /\ insertion[p] = "none"
    BY DEF DoneMeansSaved
  <2>1. CASE run[k].asked = "save" /\ ~SelectsNothing(k)
    <3>1. call[k] = "saved" /\ target[k] = p /\ draft[k] = run[k].recipe
      BY <2>1 DEF SessionIInv, InStep
    <3>2. tx[k] = "committed" /\ (p \in pipelines => k \in rows) /\ insertion[p] = "committed"
      BY <3>1 DEF SessionIInv, IInv, Stages, RowStates, NoReturn
    <3>3. number[k] = 1
      BY <3>1, <3>2 DEF SessionIInv, OwnPipeline, IInv, Validated, ValidVersion
    <3> QED
      BY <2>1, <3>1, <3>2, <3>3
  <2>2. CASE ~(run[k].asked = "save" /\ ~SelectsNothing(k))
    <3>1. call[k] = "idle" /\ creation[p] = "idle" /\ p \in Pipelines
      BY <2>2, SessionAssumption DEF SessionIInv, InStep, SessionAssumption
    <3> QED
      BY <2>2, <3>1 DEF SessionIInv, IInv, Creations
  <2> QED
    BY <2>1, <2>2
<1> QED
  BY <1>1, SessionInductive, PTL

\* The audit trail only names pipelines whose version was saved.
THEOREM EventsAreOfSaved == SessionSpec => []EventsNameSaved
  BY SessionInductive, PTL DEF SessionIInv
================================================================================
