-------------------------------- MODULE Renderd --------------------------------
(* The render service as a process (cmd/renderd, internal/config,            *)
(* internal/api): it starts, serves requests over the stored versions of one *)
(* pipeline, and ends by a signal, by the death of its listener or by a      *)
(* start that fails.  Meanwhile other processes append versions, and an      *)
(* operator may delete the pipeline.                                         *)
(*                                                                           *)
(* What a recipe makes of a partner's answer is the operator Resolve, which  *)
(* module Rendering defines.                                                 *)
EXTENDS Naturals, Sequences

CONSTANTS
    Requests,
    Recipes,             \* what a version holds: request, parameters, selection
    Answers,             \* what the partner may answer, failures included
    ParamSets,           \* sets of parameter names a query string may give
    MaxVersions,         \* bound on the versions saved
    NeedsSecret(_),      \* the recipe refers to a credential
    Builds(_, _),        \* a request can be built of a recipe and parameters
    Resolve(_, _),       \* what becomes of a recipe and an answer: [err, output]
    Unselected(_),       \* the recipe with a nil selection
    NoRecipe, NoAnswer, NoOutput

ASSUME BoundAssumption == MaxVersions \in Nat \ {0}
ASSUME ParamAssumption == {} \in ParamSets
ASSUME NoneAssumption == NoAnswer \notin Answers /\ NoRecipe \notin Recipes

VARIABLES
    proc,         \* "loading", "connecting", "serving", "draining" or "exited"
    exit,         \* "clean" (0), "failed" (1), "killed", or "none" while it lives
    signalled,    \* SIGINT or SIGTERM has arrived since NotifyContext
    listener,     \* the goroutine of ListenAndServe
    env,          \* ENV
    database,     \* the database connected to: the configured one or the default
    stored,       \* the versions that were committed, by number
    gone,         \* the pipeline has been deleted, and they with it
    req           \* the requests

process == <<proc, exit, signalled, listener, env, database>>
tables == <<stored, gone>>
vars == <<process, tables, req>>

Kinds    == {"render", "version", "versions", "list", "ready", "health", "legacy"}
Active   == {"reading", "selecting", "resolving"}
Statuses == {200, 400, 404, 500, 501, 502, 503}

Idle == [at |-> "idle", kind |-> "health", number |-> 1, params |-> {}, recipe |-> NoRecipe,
         answer |-> NoAnswer, status |-> 0, output |-> NoOutput]

Init ==
    /\ proc = "loading" /\ exit = "none" /\ signalled = FALSE /\ listener = "unstarted"
    /\ env = "dev" /\ database = "none"
    /\ stored = <<>> /\ gone = FALSE
    /\ req = [r \in Requests |-> Idle]

--------------------------------------------------------------------------------
(* The process.                                                              *)

\* Whoever is being served when the process ends gets no answer, and the listener ends
\* with it.
Cut == req' = [r \in Requests |-> IF req[r].at \in Active THEN [Idle EXCEPT !.at = "lost"]
                                  ELSE req[r]]

Exits(code) == proc' = "exited" /\ exit' = code /\ listener' = "closed" /\ Cut

\* Mutant: the default database is applied before the check.
LoadsDefaulted(e, url, durations) == durations

\* config.Load succeeds: production has no default database.
Loads(e, url, durations) == durations /\ (url = "set" \/ e # "prod")

\* The environment is read and checked before anything else is started.
LoadConfig(e, url, durations) ==
    /\ proc = "loading"
    /\ env' = e
    /\ IF Loads(e, url, durations)
       THEN /\ proc' = "connecting"
            /\ database' = IF url = "set" THEN "configured" ELSE "default"
            /\ UNCHANGED <<exit, signalled, listener, tables, req>>
       ELSE Exits("failed") /\ UNCHANGED <<signalled, database, tables>>

\* store.New within ten seconds, then NewServer and the goroutine that listens.
Connect ==
    /\ proc = "connecting"
    /\ \/ proc' = "serving" /\ listener' = "starting" /\ UNCHANGED <<exit, req>>
       \/ Exits("failed")
    /\ UNCHANGED <<signalled, env, database, tables>>

\* ListenAndServe: it binds, or cannot.
Listen ==
    /\ listener = "starting" /\ proc = "serving"
    /\ listener' \in {"up", "failed"}
    /\ UNCHANGED <<proc, exit, signalled, env, database, tables, req>>

ListenerDies ==
    /\ listener = "up" /\ proc = "serving"
    /\ listener' = "failed"
    /\ UNCHANGED <<proc, exit, signalled, env, database, tables, req>>

\* Before NotifyContext a signal ends the process at once; after it, the first
\* is noted and further ones change nothing.
Signal ==
    /\ proc # "exited" /\ ~signalled
    /\ IF proc \in {"loading", "connecting"}
       THEN Exits("killed") /\ UNCHANGED signalled
       ELSE signalled' = TRUE /\ UNCHANGED <<proc, exit, listener, req>>
    /\ UNCHANGED <<env, database, tables>>

\* main's select: with both channels ready it takes either.  Shutdown closes a listener
\* that is up and keeps another from binding; what it reports is not read any more.
SelectSignal ==
    /\ proc = "serving" /\ signalled
    /\ proc' = "draining"
    /\ listener' = "closed"
    /\ UNCHANGED <<exit, signalled, env, database, tables, req>>

SelectCrash ==
    /\ proc = "serving" /\ listener = "failed"
    /\ Exits("failed")
    /\ UNCHANGED <<signalled, env, database, tables>>

Busy == \E r \in Requests : req[r].at \in Active

\* Mutant: Shutdown closes the listener and does not wait.
DrainedAtOnce ==
    /\ proc = "draining"
    /\ Exits("clean")
    /\ UNCHANGED <<signalled, env, database, tables>>

\* Shutdown waits for the requests ...
Drained ==
    /\ proc = "draining" /\ ~Busy
    /\ Exits("clean")
    /\ UNCHANGED <<signalled, env, database, tables>>

\* Mutant: there is no limit to the wait.
DrainNeverExpires == FALSE /\ UNCHANGED vars

\* ... for ten seconds at most.
DrainExpires ==
    /\ proc = "draining" /\ Busy
    /\ Exits("failed")
    /\ UNCHANGED <<signalled, env, database, tables>>

--------------------------------------------------------------------------------
(* The requests.                                                             *)

\* A handler that answers before the partner is called leaves nothing it worked on.
Settled(kind, status) == [Idle EXCEPT !.at = "answered", !.kind = kind, !.status = status]

Answer(r, status) == req' = [req EXCEPT ![r] = Settled(req[r].kind, status)]

\* A request comes in and is routed, up to the first thing it waits for.
\* "list" is listPipelines and index, which are devOnly.  The number 0 stands for
\* whatever is not a positive integer, the pipeline's id not being one included;
\* a render without a number has number 1.
Arrive(r, kind, number, params) ==
    /\ proc = "serving" /\ listener = "up"
    /\ req[r].at = "idle"
    /\ kind \in {"render", "version"} \/ number = 1 \/ (kind = "versions" /\ number = 0)
    /\ kind = "render" \/ params = {}
    /\ LET status == CASE kind = "health" -> 200
                       [] kind = "legacy" -> 501
                       [] kind = "list" /\ env = "prod" -> 404
                       [] kind \in {"version", "versions", "render"} /\ number = 0 -> 400
                       [] OTHER -> 0
       IN  req' = [req EXCEPT ![r] =
                      IF status # 0 THEN Settled(kind, status)
                      ELSE [Idle EXCEPT !.at = "reading", !.kind = kind,
                                        !.number = number, !.params = params]]
    /\ UNCHANGED <<process, tables>>

\* Mutant: an error that has no name is not written.
FailedReadSilent(kind) == IF kind = "ready" THEN 503 ELSE 0

\* The status when the database fails or is away.
FailedRead(kind) == IF kind = "ready" THEN 503 ELSE 500

\* Mutant: the newest version is served.
FoundNewest(number) == stored[Len(stored)]

Found(number) == stored[number]

\* The handler's query: a listing, a ping, or the first of the two of GetVersion, which
\* finds the version asked for or none.
Read(r) ==
    /\ proc \in {"serving", "draining"} /\ req[r].at = "reading"
    /\ UNCHANGED <<process, tables>>
    /\ \/ Answer(r, FailedRead(req[r].kind))
       \/ /\ req[r].kind \in {"list", "versions", "ready"}
          /\ Answer(r, 200)
       \/ /\ req[r].kind \in {"version", "render"}
          /\ gone \/ req[r].number > Len(stored)
          /\ Answer(r, 404)
       \/ /\ req[r].kind \in {"version", "render"}
          /\ ~gone /\ req[r].number <= Len(stored)
          /\ req' = [req EXCEPT ![r].at = "selecting", ![r].recipe = Found(req[r].number)]

\* The second query of GetVersion, fieldMappings, which finds no rows once the pipeline
\* has gone.  renderd has no credentials, so a recipe that refers to one stops here,
\* and so does one that cannot be built; otherwise the partner is called.
Select(r) ==
    /\ proc \in {"serving", "draining"} /\ req[r].at = "selecting"
    /\ UNCHANGED <<process, tables>>
    /\ \/ Answer(r, FailedRead(req[r].kind))
       \/ req[r].kind = "version" /\ Answer(r, 200)
       \/ /\ req[r].kind = "render"
          /\ LET recipe == IF gone THEN Unselected(req[r].recipe) ELSE req[r].recipe
             IN  IF NeedsSecret(recipe) THEN Answer(r, 400)
                 ELSE IF ~Builds(recipe, req[r].params) THEN Answer(r, 502)
                 ELSE req' = [req EXCEPT ![r].at = "resolving", ![r].recipe = recipe]

\* The partner answers and the recipe is applied, or fails; every failure is a
\* bad gateway.
Respond(r, answer) ==
    /\ proc \in {"serving", "draining"} /\ req[r].at = "resolving"
    /\ LET res == Resolve(req[r].recipe, answer)
       IN  req' = [req EXCEPT ![r] =
                     [@ EXCEPT !.at = "answered", !.answer = answer,
                               !.status = IF res.err = "ok" THEN 200 ELSE 502,
                               !.output = IF res.err = "ok" THEN res.output ELSE NoOutput]]
    /\ UNCHANGED <<process, tables>>

\* What the command that saves could render: it saves nothing else.
Savable == {recipe \in Recipes :
               \E answer \in Answers : Resolve(recipe, answer).err = "ok"}

\* Another process saves a recipe.
Save(recipe) ==
    /\ ~gone /\ Len(stored) < MaxVersions
    /\ stored' = Append(stored, recipe)
    /\ UNCHANGED <<process, gone, req>>

\* An operator deletes the pipeline, in SQL.
Delete ==
    /\ ~gone
    /\ gone' = TRUE
    /\ UNCHANGED <<process, stored, req>>

\* What main itself does while it serves and drains.
MainStep == SelectSignal \/ SelectCrash \/ Drained \/ DrainExpires

ProcessStep ==
    \/ \E e \in {"dev", "prod"}, url \in {"set", "unset"}, durations \in BOOLEAN :
          LoadConfig(e, url, durations)
    \/ Connect \/ Listen \/ ListenerDies \/ Signal
    \/ MainStep

RequestStep(r) ==
    \/ \E kind \in Kinds, number \in 0..MaxVersions, params \in ParamSets :
          Arrive(r, kind, number, params)
    \/ Read(r) \/ Select(r)
    \/ \E answer \in Answers : Respond(r, answer)

Next ==
    \/ ProcessStep
    \/ \E r \in Requests : RequestStep(r)
    \/ \E recipe \in Savable : Save(recipe)
    \/ Delete

Spec == Init /\ [][Next]_vars

\* main goes on, from its select to the end of the drain, which its timer bounds; a
\* handler may hang on the database, whose queries have no deadline but the client's.
FairSpec == Spec /\ WF_vars(MainStep)

--------------------------------------------------------------------------------
(* Properties.                                                               *)

\* What GetVersion may make of a version.
Loaded == Recipes \cup {Unselected(recipe) : recipe \in Recipes}

Outputs == {NoOutput} \cup {Resolve(recipe, answer).output : recipe \in Loaded, answer \in Answers}

Request == [at     : Active \cup {"idle", "answered", "lost"},
            kind   : Kinds,
            number : 0..MaxVersions,
            params : ParamSets,
            recipe : Loaded \cup {NoRecipe},
            answer : Answers \cup {NoAnswer},
            status : Statuses \cup {0},
            output : Outputs]

\* Every variable has its type, and whoever is answered is told a status.
TypeOK ==
    /\ proc \in {"loading", "connecting", "serving", "draining", "exited"}
    /\ exit \in {"clean", "failed", "killed", "none"}
    /\ signalled \in BOOLEAN
    /\ listener \in {"unstarted", "starting", "up", "failed", "closed"}
    /\ env \in {"dev", "prod"}
    /\ database \in {"none", "configured", "default"}
    /\ stored \in Seq(Recipes) /\ Len(stored) <= MaxVersions /\ gone \in BOOLEAN
    /\ req \in [Requests -> Request]
    /\ \A r \in Requests : req[r].at = "answered" <=> req[r].status # 0

\* "Give in-flight requests up to 10s to finish" (main): exit code 0 says that a
\* signal asked for the end and that every request that came in was answered.
CleanExit == exit = "clean" => signalled /\ \A r \in Requests : req[r].at \in {"idle", "answered"}

\* The pipeline was deleted between the two queries of GetVersion: the request has a
\* version and none of its selection.
Emptied(r) == gone /\ req[r].recipe = Unselected(stored[req[r].number])

\* A version is rendered as it was saved, whatever is saved, fails or ends around
\* it: two renders of one number with the same parameters that the partner
\* answered alike have been answered alike, unless the deletion of the pipeline fell
\* between the two queries of one of them.
SameVersionSameResult ==
    \A r, s \in Requests :
        /\ req[r].answer # NoAnswer /\ req[s].answer # NoAnswer
        /\ req[r].number = req[s].number
        /\ req[r].params = req[s].params
        /\ req[r].answer = req[s].answer
        /\ Emptied(r) <=> Emptied(s)
        => req[r].status = req[s].status /\ req[r].output = req[s].output

\* Production never runs on the development database, and never shows a view
\* that is not one tenant's (config.Load, devOnly).
ProductionGuarded ==
    env = "prod" =>
        /\ database # "default"
        /\ \A r \in Requests : req[r].kind = "list" => req[r].status \in {0, 404}

\* Once asked to stop the process stops, also when a handler hangs and when the
\* listener dies at the same time.
SignalEnds == signalled ~> (proc = "exited")

--------------------------------------------------------------------------------
(* The inductive invariant behind the safety properties.                     *)

\* The process goes from stage to stage: requests come only while it serves, it
\* drains only when signalled, and cuts off whoever is being served when it ends.
Stages ==
    /\ proc \in {"loading", "connecting"} => req = [r \in Requests |-> Idle]
    /\ proc \in {"loading", "connecting"} => listener = "unstarted"
    /\ proc = "loading" => database = "none"
    /\ proc = "draining" => signalled
    /\ proc = "exited" <=> exit # "none"
    /\ IF proc = "exited" THEN ~Busy ELSE \A r \in Requests : req[r].at # "lost"

\* A request that waits may: a number that is none, and a listing in production,
\* have been turned away.
Routed ==
    \A r \in Requests :
        /\ req[r].at = "resolving" => req[r].kind = "render"
        /\ req[r].at = "selecting" => req[r].kind \in {"version", "render"}
        /\ req[r].at = "reading" /\ req[r].kind \in {"version", "render"} => req[r].number # 0
        /\ env = "prod" /\ req[r].kind = "list" => req[r].at # "reading"

\* What a request works on is the stored version of its number, and what it was
\* answered is what that version makes of the partner's answer.
OfVersion ==
    \A r \in Requests :
        /\ req[r].at # "answered" => req[r].answer = NoAnswer
        /\ req[r].at \in {"selecting", "resolving"} \/ req[r].answer # NoAnswer =>
              /\ req[r].number \in DOMAIN stored
              /\ req[r].recipe = stored[req[r].number] \/ Emptied(r)
        /\ req[r].at = "selecting" => req[r].recipe = stored[req[r].number]
        /\ req[r].answer # NoAnswer =>
              LET res == Resolve(req[r].recipe, req[r].answer)
              IN  /\ req[r].status = IF res.err = "ok" THEN 200 ELSE 502
                  /\ req[r].output = IF res.err = "ok" THEN res.output ELSE NoOutput

IInv == TypeOK /\ Stages /\ Routed /\ OfVersion /\ CleanExit /\ ProductionGuarded
================================================================================
