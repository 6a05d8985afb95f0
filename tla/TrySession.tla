------------------------------- MODULE TrySession -------------------------------
(***************************************************************************)
(* Runs of the pipelinetry command (cmd/pipelinetry): discover, render, or *)
(* render and save.  A saving run drives the repository of PipelineStore   *)
(* in two transactions, CreatePipeline and then SaveDraftVersion, and any  *)
(* run may be killed in between.  Each run is one process; run k makes the *)
(* save k and, when it gets that far, the pipeline PipelineOf[k].  A run   *)
(* has a pool of its own and one statement in flight, so MaxConns is large *)
(* enough never to hold one back.  Runs that -load are not modelled here.  *)
(***************************************************************************)
EXTENDS PipelineStore

CONSTANTS
    PipelineOf,   \* the CreatePipeline call of each run
    NoName,       \* the value of -name when it is not given
    Hosts,        \* hosts of imported URLs
    DefaultName,  \* the name built from a host and a second
    ClockBound    \* bound: how many seconds pass

ASSUME SessionAssumption ==
    /\ PipelineOf \in [Saves -> Pipelines]
    /\ \A j, k \in Saves : PipelineOf[j] = PipelineOf[k] => j = k
    /\ ClockBound \in Nat
    /\ DefaultName \in [Hosts -> [0..ClockBound -> Names]]
    /\ NoName \notin Names
    /\ Hosts \cap Pipelines = {}

VARIABLES
    run,      \* where each run is, and its options
    now,      \* time.Now().Unix()
    events    \* rows of render_events

session == <<run, now, events>>

Asked == {"discover", "render", "save"}
Ended == {"done", "failed", "killed"}
NoHost == "none"
NoRun == [at |-> "idle", asked |-> "discover", host |-> NoHost, name |-> NoName,
          recipe |-> NoDraft]

SessionInit ==
    /\ Init
    /\ run = [k \in Saves |-> NoRun]
    /\ now = 0
    /\ events = {}

At(k, place) == run' = [run EXCEPT ![k].at = place]

--------------------------------------------------------------------------------
\* The command line is read and the cURL command imported.
StartRun(k, asked, host, name, recipe) ==
    /\ run[k].at = "idle"
    /\ run' = [run EXCEPT ![k] = [at |-> "resolving", asked |-> asked, host |-> host,
                                  name |-> name, recipe |-> recipe]]
    /\ UNCHANGED <<now, events, vars>>

\* No selection comes out of the command line: there is no -map, or parseMappings finds
\* only blank entries in it, which also passes the check that -save has a -map.
SelectsNothing(k) == run[k].asked = "discover" \/ run[k].recipe.fields = <<>>

\* Resolve: the run stops at discovery, or the partner's answer fits the selection ...
Resolves(k) ==
    /\ run[k].at = "resolving"
    /\ SelectsNothing(k) \/ ValidSet(run[k].recipe.fields)
    /\ At(k, IF SelectsNothing(k) THEN "done"
             ELSE IF run[k].asked = "save" THEN "creating" ELSE "recording")
    /\ UNCHANGED <<now, events, vars>>

\* ... or it does not, or there is none; or the store cannot be opened.
Fails(k) ==
    /\ run[k].at \in {"resolving", "creating"}
    /\ creation[PipelineOf[k]] = "idle"
    /\ At(k, "failed")
    /\ UNCHANGED <<now, events, vars>>

NameOf(k) == IF run[k].name = NoName THEN DefaultName[run[k].host][now] ELSE run[k].name

\* saveToDB's first transaction.
CreateFor(k, tenant) ==
    /\ run[k].at = "creating"
    /\ CreatePipeline(PipelineOf[k], tenant, NameOf(k))
    /\ UNCHANGED session

CreateEnds(k) ==
    /\ run[k].at = "creating"
    /\ creation[PipelineOf[k]] \notin {"idle", "inserting"}
    /\ At(k, IF creation[PipelineOf[k]] = "created" THEN "saving" ELSE "failed")
    /\ UNCHANGED <<now, events, vars>>

\* Mutant: the draft goes into whichever pipeline the list shows first.
SaveForAny(k) ==
    /\ run[k].at = "saving"
    /\ \E p \in pipelines : StartSave(k, p, run[k].recipe)
    /\ UNCHANGED session

\* Its second transaction, into the pipeline that the first returned.
SaveFor(k) ==
    /\ run[k].at = "saving"
    /\ StartSave(k, PipelineOf[k], run[k].recipe)
    /\ UNCHANGED session

\* Mutant: the error of SaveDraftVersion is dropped.
SaveEndsUnchecked(k) ==
    /\ run[k].at = "saving"
    /\ call[k] \in Returned
    /\ At(k, "recording")
    /\ UNCHANGED <<now, events, vars>>

SaveEnds(k) ==
    /\ run[k].at = "saving"
    /\ call[k] \in Returned
    /\ At(k, IF call[k] = "saved" THEN "recording" ELSE "failed")
    /\ UNCHANGED <<now, events, vars>>

\* recordEvent: a failed insert is reported and ignored.  The source of a run
\* that saved is its pipeline, of any other the URL it imported.
RecordEvent(k) ==
    /\ run[k].at = "recording"
    /\ At(k, "done")
    /\ LET source == IF run[k].asked = "save" THEN PipelineOf[k] ELSE run[k].host
       IN  events' \in {events, events \cup {[run |-> k, source |-> source]}}
    /\ UNCHANGED <<now, vars>>

\* The process dies; its call, if it is in the middle of one, is given up.
Killed(k) ==
    /\ run[k].at \notin Ended \cup {"idle"}
    /\ At(k, "killed")
    /\ CASE creation[PipelineOf[k]] = "inserting"       -> GiveUpCreate(PipelineOf[k])
         [] call[k] \in Working \cup {"acquiring"} -> GiveUp(k)
         [] OTHER                                    -> UNCHANGED vars
    /\ UNCHANGED <<now, events>>

Tick ==
    /\ now < ClockBound
    /\ now' = now + 1
    /\ UNCHANGED <<run, events, vars>>

RunStep(k) ==
    \/ \E asked \in Asked, host \in Hosts, name \in Names \cup {NoName}, recipe \in Drafts :
          StartRun(k, asked, host, name, recipe)
    \/ Resolves(k) \/ Fails(k)
    \/ \E tenant \in Tenants \cup {NilId} : CreateFor(k, tenant)
    \/ CreateEnds(k) \/ SaveFor(k) \/ SaveEnds(k)
    \/ RecordEvent(k)
    \/ Killed(k)

SessionNext ==
    \/ \E k \in Saves : RunStep(k)
    \/ Tick
    \/ /\ \/ \E k \in Saves : SaveStep(k) \/ GiveUp(k) \/ ServerStep(k)
          \/ \E p \in Pipelines : CreateStep(p) \/ DeletePipeline(p)
       /\ UNCHANGED session

SessionSpec == SessionInit /\ [][SessionNext]_<<session, vars>>

--------------------------------------------------------------------------------
(* Properties.                                                             *)

\* Every variable of a run has its type.
SessionTypeOK ==
    /\ run \in [Saves -> [at : Ended \cup {"idle", "resolving", "creating", "saving", "recording"},
                          asked : Asked, host : Hosts \cup {NoHost},
                          name : Names \cup {NoName}, recipe : Drafts \cup {NoDraft}]]
    /\ now \in 0..ClockBound
    /\ events \subseteq [run : Saves, source : Hosts \cup Pipelines]

\* A run only saves into the pipeline it has just created, so what it saves is
\* version 1 and it never meets another save (saveToDB prints a version number
\* and a command that loads it back).
OwnPipeline ==
    \A k \in Saves : call[k] # "idle" =>
        /\ target[k] = PipelineOf[k]
        /\ number[k] \in {0, 1}
        /\ call[k] # "ErrVersionConflict"

\* A run that selected fields and asked for them to be saved ends well only if its
\* recipe is committed, as version 1 of the pipeline it created, and there until an
\* operator deletes it.  Any other run that ends well has left nothing behind: not the
\* one that asks to save with a -map of blank entries, which stops at discovery
\* (run), and no run leaves its pipeline empty, holding its name, but one that was killed or
\* has told of a failure.
DoneMeansSaved ==
    \A k \in Saves : run[k].at \in {"recording", "done"} =>
        LET p == PipelineOf[k]
        IN  IF run[k].asked = "save" /\ ~SelectsNothing(k)
            THEN /\ tx[k] = "committed" /\ target[k] = p
                 /\ number[k] = 1 /\ draft[k] = run[k].recipe
                 /\ insertion[p] = "committed" /\ (p \in pipelines => k \in rows)
            ELSE call[k] = "idle" /\ insertion[p] = "none"

\* A row of render_events with a pipeline for its source tells of a version that
\* was saved: the audit trail never names a pipeline that was left empty.
EventsNameSaved ==
    \A e \in events : e.source \in Pipelines => tx[e.run] = "committed" /\ target[e.run] = e.source

\* "Unique by construction" (saveToDB): as long as every run makes up its own
\* name, none is refused as a duplicate.
MadeUpNamesAreNew ==
    (\A k \in Saves : run[k].name = NoName) =>
        \A k \in Saves : creation[PipelineOf[k]] # "ErrDuplicateName"

--------------------------------------------------------------------------------
(* The inductive invariant, on top of PipelineStore's own.                 *)

\* A run and its save agree on how far they have come.
InStep ==
    \A k \in Saves :
        /\ run[k].at # "idle" => run[k].host \in Hosts /\ run[k].recipe \in Drafts
        /\ run[k].at \in {"idle", "resolving"} => creation[PipelineOf[k]] = "idle"
        /\ run[k].at \in {"idle", "resolving", "creating"} => call[k] = "idle"
        /\ run[k].at \in {"creating", "saving"} => run[k].asked = "save" /\ ~SelectsNothing(k)
        /\ call[k] = "idle" => number[k] = 0
        /\ call[k] # "idle" => target[k] = PipelineOf[k] /\ draft[k] = run[k].recipe
        /\ run[k].at = "recording" => ~SelectsNothing(k)
        /\ run[k].at \in {"recording", "done"} =>
              IF run[k].asked = "save" /\ ~SelectsNothing(k) THEN call[k] = "saved"
              ELSE call[k] = "idle" /\ creation[PipelineOf[k]] = "idle"

SessionIInv == IInv /\ SessionTypeOK /\ InStep /\ OwnPipeline /\ EventsNameSaved
================================================================================
