------------------------------ MODULE RenderdProofs ----------------------------
(* The render service's safety properties, for any number of requests and     *)
(* versions and whatever recipes and answers are.                             *)
EXTENDS Renderd, TLAPS

LEMMA IdleIsRequest == Idle \in Request
BY BoundAssumption, ParamAssumption DEF Idle, Request, Active, Kinds, Statuses, Outputs

LEMMA InitInv == Init => IInv
<1> SUFFICES ASSUME Init PROVE IInv
  OBVIOUS
<1>1. stored \in Seq(Recipes) /\ Len(stored) <= MaxVersions
  BY BoundAssumption DEF Init
<1>2. TypeOK
  BY <1>1, IdleIsRequest DEF Init, TypeOK, Idle
<1>3. Stages /\ Routed /\ OfVersion /\ CleanExit /\ ProductionGuarded
  BY DEF Init, Stages, Routed, OfVersion, CleanExit, ProductionGuarded, Idle, Busy, Active
<1> QED
  BY <1>2, <1>3 DEF IInv

--------------------------------------------------------------------------------
(* Ending: whoever is being served is cut off.                                *)

LEMMA CutRequest ==
    ASSUME req \in [Requests -> Request], Cut, NEW r \in Requests
    PROVE  /\ req'[r] \in Request
           /\ req'[r].at \notin Active
           /\ \/ req[r].at \notin Active /\ req'[r] = req[r]
              \/ /\ req[r].at \in Active /\ req'[r].at = "lost"
                 /\ req'[r].kind = "health" /\ req'[r].status = 0
                 /\ req'[r].answer = NoAnswer
<1> DEFINE lost == [Idle EXCEPT !.at = "lost"]
<1>1. /\ lost \in Request /\ lost.at = "lost" /\ lost.kind = "health" /\ lost.status = 0
      /\ lost.answer = NoAnswer
  BY IdleIsRequest DEF Idle, Request
<1>2. req'[r] = IF req[r].at \in Active THEN lost ELSE req[r]
  BY DEF Cut
<1> HIDE DEF lost
<1> QED
  BY <1>1, <1>2 DEF Active

LEMMA CutOK ==
    ASSUME IInv, Cut, UNCHANGED tables
    PROVE  /\ req' \in [Requests -> Request]
           /\ \A r \in Requests : req'[r].at = "answered" <=> req'[r].status # 0
           /\ ~Busy'
           /\ OfVersion'
<1>1. req \in [Requests -> Request]
  BY DEF IInv, TypeOK
<1>2. req' \in [Requests -> Request]
  <2>1. DOMAIN req' = Requests /\ req' = [r \in Requests |-> req'[r]]
    BY DEF Cut
  <2> QED
    BY <1>1, <2>1, CutRequest
<1>3. \A r \in Requests : req'[r].at = "answered" <=> req'[r].status # 0
  BY <1>1, CutRequest DEF IInv, TypeOK
<1>4. ~Busy'
  BY <1>1, CutRequest DEF Busy
<1>5. OfVersion'
  <2> SUFFICES ASSUME NEW r \in Requests
               PROVE  OfVersion!(r)'
    BY DEF OfVersion
  <2>1. OfVersion!(r)
    BY DEF IInv, OfVersion
  <2>2. CASE req'[r] = req[r]
    BY <2>1, <2>2 DEF tables, Emptied
  <2>3. CASE req'[r].at = "lost" /\ req'[r].answer = NoAnswer
    BY <2>3
  <2> QED
    BY <1>1, <2>2, <2>3, CutRequest
<1> QED
  BY <1>2, <1>3, <1>4, <1>5

--------------------------------------------------------------------------------
(* One step of the process.                                                   *)

LEMMA LoadConfigInv ==
    ASSUME IInv, NEW e \in {"dev", "prod"}, NEW url \in {"set", "unset"}, NEW durations \in BOOLEAN, LoadConfig(e, url, durations)
    PROVE  IInv'
<1>1. TypeOK'
  BY CutOK DEF IInv, TypeOK, tables, LoadConfig, Loads, Exits, Cut
<1>2. Stages'
  BY CutOK DEF IInv, TypeOK, Stages, LoadConfig, Loads, Exits, Cut, Busy, Active
<1>3. Routed'
  BY CutRequest DEF IInv, TypeOK, Stages, Routed, LoadConfig, Loads, Exits, Cut, Active, Idle
<1>4. OfVersion'
  BY CutOK DEF IInv, OfVersion, Emptied, tables, LoadConfig, Loads, Exits, Cut
<1>5. CleanExit'
  BY CutRequest DEF IInv, TypeOK, Stages, CleanExit, LoadConfig, Loads, Exits, Cut, Busy, Active, Request
<1>6. ProductionGuarded'
  BY CutRequest DEF IInv, TypeOK, Stages, ProductionGuarded, LoadConfig, Loads, Exits, Cut, Idle
<1> QED
  BY <1>1, <1>2, <1>3, <1>4, <1>5, <1>6 DEF IInv

LEMMA ConnectInv ==
    ASSUME IInv, Connect
    PROVE  IInv'
<1>1. TypeOK'
  BY CutOK DEF IInv, TypeOK, tables, Connect, Exits, Cut
<1>2. Stages'
  BY CutOK DEF IInv, TypeOK, Stages, Connect, Exits, Cut, Busy, Active
<1>3. Routed'
  BY CutRequest DEF IInv, TypeOK, Stages, Routed, Connect, Exits, Cut, Active, Idle
<1>4. OfVersion'
  BY CutOK DEF IInv, OfVersion, Emptied, tables, Connect, Exits, Cut
<1>5. CleanExit'
  BY CutRequest DEF IInv, TypeOK, Stages, CleanExit, Connect, Exits, Cut, Busy, Active, Request
<1>6. ProductionGuarded'
  BY CutRequest DEF IInv, TypeOK, Stages, ProductionGuarded, Connect, Exits, Cut, Idle
<1> QED
  BY <1>1, <1>2, <1>3, <1>4, <1>5, <1>6 DEF IInv

LEMMA ListenInv ==
    ASSUME IInv, Listen
    PROVE  IInv'
<1>1. TypeOK'
  BY DEF IInv, TypeOK, tables, Listen
<1>2. Stages'
  BY DEF IInv, TypeOK, Stages, Listen, Busy, Active
<1>3. Routed'
  BY DEF IInv, TypeOK, Stages, Routed, Listen, Active, Idle
<1>4. OfVersion'
  BY DEF IInv, OfVersion, Emptied, tables, Listen
<1>5. CleanExit'
  BY DEF IInv, TypeOK, Stages, CleanExit, Listen, Busy, Active, Request
<1>6. ProductionGuarded'
  BY DEF IInv, TypeOK, Stages, ProductionGuarded, Listen, Idle
<1> QED
  BY <1>1, <1>2, <1>3, <1>4, <1>5, <1>6 DEF IInv

LEMMA ListenerDiesInv ==
    ASSUME IInv, ListenerDies
    PROVE  IInv'
<1>1. TypeOK'
  BY DEF IInv, TypeOK, tables, ListenerDies
<1>2. Stages'
  BY DEF IInv, TypeOK, Stages, ListenerDies, Busy, Active
<1>3. Routed'
  BY DEF IInv, TypeOK, Stages, Routed, ListenerDies, Active, Idle
<1>4. OfVersion'
  BY DEF IInv, OfVersion, Emptied, tables, ListenerDies
<1>5. CleanExit'
  BY DEF IInv, TypeOK, Stages, CleanExit, ListenerDies, Busy, Active, Request
<1>6. ProductionGuarded'
  BY DEF IInv, TypeOK, Stages, ProductionGuarded, ListenerDies, Idle
<1> QED
  BY <1>1, <1>2, <1>3, <1>4, <1>5, <1>6 DEF IInv

LEMMA SignalInv ==
    ASSUME IInv, Signal
    PROVE  IInv'
<1>1. TypeOK'
  <2>1. UNCHANGED tables /\ UNCHANGED <<env, database>>
    BY DEF Signal
  <2>2. CASE Exits("killed") /\ UNCHANGED signalled
    <3>1. /\ req' \in [Requests -> Request]
          /\ \A r \in Requests : req'[r].at = "answered" <=> req'[r].status # 0
      BY <2>1, <2>2, CutOK DEF Exits
    <3> QED
      BY <2>1, <2>2, <3>1 DEF IInv, TypeOK, tables, Exits
  <2>3. CASE signalled' = TRUE /\ UNCHANGED <<proc, exit, listener, req>>
    BY <2>1, <2>3 DEF IInv, TypeOK, tables
  <2> QED
    BY <2>2, <2>3 DEF Signal
<1>2. Stages'
  BY CutOK DEF IInv, TypeOK, Stages, Signal, Exits, Cut, Busy, Active
<1>3. Routed'
  BY CutRequest DEF IInv, TypeOK, Stages, Routed, Signal, Exits, Cut, Active, Idle
<1>4. OfVersion'
  BY CutOK DEF IInv, OfVersion, Emptied, tables, Signal, Exits, Cut
<1>5. CleanExit'
  BY CutRequest DEF IInv, TypeOK, Stages, CleanExit, Signal, Exits, Cut, Busy, Active, Request
<1>6. ProductionGuarded'
  BY CutRequest DEF IInv, TypeOK, Stages, ProductionGuarded, Signal, Exits, Cut, Idle
<1> QED
  BY <1>1, <1>2, <1>3, <1>4, <1>5, <1>6 DEF IInv

LEMMA SelectSignalInv ==
    ASSUME IInv, SelectSignal
    PROVE  IInv'
<1>1. TypeOK'
  BY DEF IInv, TypeOK, tables, SelectSignal
<1>2. Stages'
  BY DEF IInv, TypeOK, Stages, SelectSignal, Busy, Active
<1>3. Routed'
  BY DEF IInv, TypeOK, Stages, Routed, SelectSignal, Active, Idle
<1>4. OfVersion'
  BY DEF IInv, OfVersion, Emptied, tables, SelectSignal
<1>5. CleanExit'
  BY DEF IInv, TypeOK, Stages, CleanExit, SelectSignal, Busy, Active, Request
<1>6. ProductionGuarded'
  BY DEF IInv, TypeOK, Stages, ProductionGuarded, SelectSignal, Idle
<1> QED
  BY <1>1, <1>2, <1>3, <1>4, <1>5, <1>6 DEF IInv

LEMMA SelectCrashInv ==
    ASSUME IInv, SelectCrash
    PROVE  IInv'
<1>1. TypeOK'
  BY CutOK DEF IInv, TypeOK, tables, SelectCrash, Exits, Cut
<1>2. Stages'
  BY CutOK DEF IInv, TypeOK, Stages, SelectCrash, Exits, Cut, Busy, Active
<1>3. Routed'
  BY CutRequest DEF IInv, TypeOK, Stages, Routed, SelectCrash, Exits, Cut, Active, Idle
<1>4. OfVersion'
  BY CutOK DEF IInv, OfVersion, Emptied, tables, SelectCrash, Exits, Cut
<1>5. CleanExit'
  BY CutRequest DEF IInv, TypeOK, Stages, CleanExit, SelectCrash, Exits, Cut, Busy, Active, Request
<1>6. ProductionGuarded'
  BY CutRequest DEF IInv, TypeOK, Stages, ProductionGuarded, SelectCrash, Exits, Cut, Idle
<1> QED
  BY <1>1, <1>2, <1>3, <1>4, <1>5, <1>6 DEF IInv

LEMMA DrainedInv ==
    ASSUME IInv, Drained
    PROVE  IInv'
<1>1. TypeOK'
  BY CutOK DEF IInv, TypeOK, tables, Drained, Exits, Cut
<1>2. Stages'
  BY CutOK DEF IInv, TypeOK, Stages, Drained, Exits, Cut, Busy, Active
<1>3. Routed'
  BY CutRequest DEF IInv, TypeOK, Stages, Routed, Drained, Exits, Cut, Active, Idle
<1>4. OfVersion'
  BY CutOK DEF IInv, OfVersion, Emptied, tables, Drained, Exits, Cut
<1>5. CleanExit'
  BY CutRequest DEF IInv, TypeOK, Stages, CleanExit, Drained, Exits, Cut, Busy, Active, Request
<1>6. ProductionGuarded'
  BY CutRequest DEF IInv, TypeOK, Stages, ProductionGuarded, Drained, Exits, Cut, Idle
<1> QED
  BY <1>1, <1>2, <1>3, <1>4, <1>5, <1>6 DEF IInv

LEMMA DrainExpiresInv ==
    ASSUME IInv, DrainExpires
    PROVE  IInv'
<1>1. TypeOK'
  BY CutOK DEF IInv, TypeOK, tables, DrainExpires, Exits, Cut
<1>2. Stages'
  BY CutOK DEF IInv, TypeOK, Stages, DrainExpires, Exits, Cut, Busy, Active
<1>3. Routed'
  BY CutRequest DEF IInv, TypeOK, Stages, Routed, DrainExpires, Exits, Cut, Active, Idle
<1>4. OfVersion'
  BY CutOK DEF IInv, OfVersion, Emptied, tables, DrainExpires, Exits, Cut
<1>5. CleanExit'
  BY CutRequest DEF IInv, TypeOK, Stages, CleanExit, DrainExpires, Exits, Cut, Busy, Active, Request
<1>6. ProductionGuarded'
  BY CutRequest DEF IInv, TypeOK, Stages, ProductionGuarded, DrainExpires, Exits, Cut, Idle
<1> QED
  BY <1>1, <1>2, <1>3, <1>4, <1>5, <1>6 DEF IInv

--------------------------------------------------------------------------------
(* One step of a request.                                                     *)

\* Steps that leave the process, the versions and all requests but one alone.
LEMMA OneRequest ==
    ASSUME IInv, UNCHANGED <<process, tables>>, proc \in {"serving", "draining"},
           NEW r \in Requests, NEW q \in Request, req' = [req EXCEPT ![r] = q],
           q.at \in Active \cup {"answered"},
           q.at = "answered" <=> q.status # 0,
           q.at = "resolving" => q.kind = "render",
           q.at = "selecting" => q.kind \in {"version", "render"},
           q.at = "reading" /\ q.kind \in {"version", "render"} => q.number # 0,
           env = "prod" /\ q.kind = "list" => q.at # "reading" /\ q.status \in {0, 404},
           q.at # "answered" => q.answer = NoAnswer,
           q.at \in {"selecting", "resolving"} \/ q.answer # NoAnswer =>
              /\ q.number \in DOMAIN stored
              /\ \/ q.recipe = stored[q.number]
                 \/ gone /\ q.recipe = Unselected(stored[q.number]),
           q.at = "selecting" => q.recipe = stored[q.number],
           q.answer # NoAnswer =>
              LET res == Resolve(q.recipe, q.answer)
              IN  /\ q.status = IF res.err = "ok" THEN 200 ELSE 502
                  /\ q.output = IF res.err = "ok" THEN res.output ELSE NoOutput
    PROVE  IInv'
<1>1. /\ req \in [Requests -> Request] /\ req' \in [Requests -> Request]
      /\ req'[r] = q
      /\ \A s \in Requests : s # r => req'[s] = req[s]
  BY DEF IInv, TypeOK
<1>2. TypeOK'
  BY <1>1 DEF IInv, TypeOK, process, tables
<1>3. Stages'
  BY <1>1 DEF IInv, TypeOK, Stages, process, Active
<1>4. Routed'
  BY <1>1 DEF IInv, Routed, process
<1>5. OfVersion'
  <2> SUFFICES ASSUME NEW s \in Requests
               PROVE  OfVersion!(s)'
    BY DEF OfVersion
  <2>1. CASE s = r
    BY <1>1, <2>1 DEF tables, Emptied
  <2>2. CASE s # r
    <3>1. req'[s] = req[s] /\ stored' = stored /\ gone' = gone
      BY <1>1, <2>2 DEF tables
    <3>2. OfVersion!(s)
      BY DEF IInv, OfVersion
    <3> QED
      BY <3>1, <3>2 DEF Emptied
  <2> QED
    BY <2>1, <2>2
<1>6. CleanExit'
  BY <1>1 DEF IInv, Stages, CleanExit, process
<1>7. ProductionGuarded'
  BY <1>1 DEF IInv, ProductionGuarded, process
<1> QED
  BY <1>2, <1>3, <1>4, <1>5, <1>6, <1>7 DEF IInv

LEMMA SettledIs ==
    ASSUME NEW kind \in Kinds, NEW status \in Statuses
    PROVE  LET q == Settled(kind, status)
           IN  /\ q \in Request /\ q.at = "answered" /\ q.kind = kind /\ q.status = status
               /\ q.status # 0 /\ q.answer = NoAnswer
<1>1. status # 0
  BY DEF Statuses
<1> QED
  BY <1>1, IdleIsRequest DEF Settled, Idle, Request

\* A handler's request becomes q, and nothing else happens.
Moves(r, q) ==
    /\ UNCHANGED <<process, tables>> /\ proc \in {"serving", "draining"}
    /\ req' = [req EXCEPT ![r] = q]

\* An answer before the partner is called.
LEMMA AnsweredInv ==
    ASSUME IInv, NEW r \in Requests, NEW q \in Request, Moves(r, q),
           q.at = "answered", q.status # 0, q.answer = NoAnswer,
           env = "prod" /\ q.kind = "list" => q.status = 404
    PROVE  IInv'
<1>1. /\ q.at \in Active \cup {"answered"}
      /\ q.at \notin {"reading", "selecting", "resolving"}
  OBVIOUS
<1>2. env = "prod" /\ q.kind = "list" => q.at # "reading" /\ q.status \in {0, 404}
  OBVIOUS
<1> QED
  BY <1>1, <1>2, OneRequest DEF Moves

LEMMA SettledInv ==
    ASSUME IInv, NEW r \in Requests, NEW kind \in Kinds, NEW status \in Statuses,
           Moves(r, Settled(kind, status)),
           env = "prod" /\ kind = "list" => status = 404
    PROVE  IInv'
<1> DEFINE q == Settled(kind, status)
<1>1. /\ q \in Request /\ q.kind = kind /\ q.status = status
      /\ q.at = "answered" /\ q.status # 0 /\ q.answer = NoAnswer
  BY SettledIs
<1>2. env = "prod" /\ q.kind = "list" => q.status = 404
  BY <1>1
<1>3. Moves(r, q)
  OBVIOUS
<1> HIDE DEF q
<1> QED
  BY <1>1, <1>2, <1>3, AnsweredInv

LEMMA ArriveInv ==
    ASSUME IInv, NEW r \in Requests, NEW kind \in Kinds, NEW number \in 0..MaxVersions,
           NEW params \in ParamSets, Arrive(r, kind, number, params)
    PROVE  IInv'
<1> DEFINE status == CASE kind = "health" -> 200
                       [] kind = "legacy" -> 501
                       [] kind = "list" /\ env = "prod" -> 404
                       [] kind \in {"version", "versions", "render"} /\ number = 0 -> 400
                       [] OTHER -> 0
           q == [Idle EXCEPT !.at = "reading", !.kind = kind,
                             !.number = number, !.params = params]
<1>1. /\ proc = "serving" /\ UNCHANGED <<process, tables>>
      /\ req' = [req EXCEPT ![r] = IF status # 0 THEN Settled(kind, status) ELSE q]
  BY DEF Arrive
<1>2. /\ status \in Statuses \cup {0}
      /\ kind \in {"version", "render"} /\ number = 0 => status # 0
      /\ env = "prod" /\ kind = "list" => status = 404
  BY DEF Kinds, Statuses
<1>3. /\ q \in Request /\ q.at = "reading" /\ q.kind = kind /\ q.number = number
      /\ q.status = 0 /\ q.answer = NoAnswer
  BY IdleIsRequest DEF Idle, Request, Active
<1> HIDE DEF q, status
<1>4. CASE status # 0
  <2>1. status \in Statuses /\ req' = [req EXCEPT ![r] = Settled(kind, status)]
    BY <1>1, <1>2, <1>4
  <2> QED
    BY <1>1, <1>2, <2>1, SettledInv DEF Moves
<1>5. CASE status = 0
  <2>1. req' = [req EXCEPT ![r] = q] /\ "reading" \in Active
    BY <1>1, <1>5 DEF Active
  <2>2. /\ q.kind \in {"version", "render"} => q.number # 0
        /\ ~(env = "prod" /\ q.kind = "list")
    BY <1>2, <1>3, <1>5
  <2> QED
    BY <1>1, <1>3, <2>1, <2>2, OneRequest
<1> QED
  BY <1>4, <1>5

LEMMA ReadInv ==
    ASSUME IInv, NEW r \in Requests, Read(r)
    PROVE  IInv'
<1> DEFINE o == req[r]
<1>1. /\ o \in Request /\ o.at = "reading" /\ o.status = 0 /\ o.answer = NoAnswer
      /\ o.kind \in {"version", "render"} => o.number # 0
      /\ env = "prod" => o.kind # "list"
      /\ proc \in {"serving", "draining"} /\ UNCHANGED <<process, tables>>
  BY DEF IInv, TypeOK, Routed, OfVersion, Read
<1>2. ASSUME NEW status \in Statuses, Answer(r, status)
      PROVE  IInv'
  <2>1. req' = [req EXCEPT ![r] = Settled(o.kind, status)] /\ o.kind \in Kinds
    BY <1>1, <1>2 DEF Answer, Request
  <2> HIDE DEF o
  <2> QED
    BY <1>1, <2>1, SettledInv DEF Moves
<1>3. ASSUME o.kind \in {"version", "render"}, o.number <= Len(stored),
             req' = [req EXCEPT ![r].at = "selecting", ![r].recipe = Found(o.number)]
      PROVE  IInv'
  <2> DEFINE q == [o EXCEPT !.at = "selecting", !.recipe = Found(o.number)]
  <2>1. req' = [req EXCEPT ![r] = q]
    BY <1>3 DEF IInv, TypeOK
  <2>2. o.number \in DOMAIN stored /\ stored[o.number] \in Recipes
    BY <1>1, <1>3, BoundAssumption DEF IInv, TypeOK, Request
  <2>3. /\ q \in Request /\ q.at = "selecting" /\ q.status = 0
        /\ q.kind \in {"version", "render"} /\ q.answer = NoAnswer
        /\ q.number = o.number /\ q.recipe = stored[q.number]
    BY <1>1, <1>3, <2>2 DEF Request, Active, Found, Loaded
  <2>4. "selecting" \in Active
    BY DEF Active
  <2> HIDE DEF q
  <2> QED
    BY <1>1, <2>1, <2>2, <2>3, <2>4, OneRequest
<1>4. FailedRead(o.kind) \in Statuses
  BY DEF FailedRead, Statuses
<1>5. {200, 404} \subseteq Statuses
  BY DEF Statuses
<1> QED
  BY <1>2, <1>3, <1>4, <1>5 DEF Read

LEMMA SelectInv ==
    ASSUME IInv, NEW r \in Requests, Select(r)
    PROVE  IInv'
<1> DEFINE o      == req[r]
           recipe == IF gone THEN Unselected(o.recipe) ELSE o.recipe
           q      == [o EXCEPT !.at = "resolving", !.recipe = recipe]
<1>1. /\ o \in Request /\ o.at = "selecting" /\ o.status = 0 /\ o.answer = NoAnswer
      /\ o.kind \in {"version", "render"}
      /\ o.number \in DOMAIN stored /\ o.recipe = stored[o.number]
      /\ proc \in {"serving", "draining"} /\ UNCHANGED <<process, tables>>
  BY DEF IInv, TypeOK, Routed, OfVersion, Select
<1>2. ASSUME NEW status \in Statuses, Answer(r, status)
      PROVE  IInv'
  <2>1. req' = [req EXCEPT ![r] = Settled(o.kind, status)] /\ o.kind \in Kinds
    BY <1>1, <1>2 DEF Answer, Request
  <2> HIDE DEF o
  <2> QED
    BY <1>1, <2>1, SettledInv DEF Moves
<1>3. ASSUME o.kind = "render", req' = [req EXCEPT ![r].at = "resolving", ![r].recipe = recipe]
      PROVE  IInv'
  <2>1. req' = [req EXCEPT ![r] = q]
    BY <1>3 DEF IInv, TypeOK
  <2>2. stored[o.number] \in Recipes
    BY <1>1 DEF IInv, TypeOK
  <2>3. /\ recipe \in Loaded
        /\ recipe = stored[o.number] \/ (gone /\ recipe = Unselected(stored[o.number]))
    BY <1>1, <2>2 DEF Loaded
  <2>4. /\ q \in Request /\ q.at = "resolving" /\ q.status = 0
        /\ q.kind = "render" /\ q.answer = NoAnswer
        /\ q.number = o.number /\ q.recipe = recipe
    <3> HIDE DEF o, recipe
    <3> QED
      BY <1>1, <1>3, <2>3 DEF Request, Active
  <2>5. "resolving" \in Active
    BY DEF Active
  <2> HIDE DEF q, recipe
  <2> QED
    BY <1>1, <2>1, <2>3, <2>4, <2>5, OneRequest
<1>4. FailedRead(o.kind) \in Statuses
  BY DEF FailedRead, Statuses
<1>5. {200, 400, 502} \subseteq Statuses
  BY DEF Statuses
<1> QED
  BY <1>2, <1>3, <1>4, <1>5 DEF Select

LEMMA RespondInv ==
    ASSUME IInv, NEW r \in Requests, NEW answer \in Answers, Respond(r, answer)
    PROVE  IInv'
<1> DEFINE o   == req[r]
           res == Resolve(o.recipe, answer)
           status == IF res.err = "ok" THEN 200 ELSE 502
           output == IF res.err = "ok" THEN res.output ELSE NoOutput
           q   == [o EXCEPT !.at = "answered", !.answer = answer,
                            !.status = status, !.output = output]
<1>1. /\ o \in Request /\ o.at = "resolving" /\ o.kind = "render"
      /\ o.number \in DOMAIN stored
      /\ o.recipe = stored[o.number] \/ (gone /\ o.recipe = Unselected(stored[o.number]))
      /\ proc \in {"serving", "draining"} /\ UNCHANGED <<process, tables>>
  BY DEF IInv, TypeOK, Routed, OfVersion, Emptied, Respond
<1>2. req' = [req EXCEPT ![r] = q]
  BY DEF Respond, IInv, TypeOK
<1>3. o.recipe \in Loaded
  <2>1. stored[o.number] \in Recipes
    BY <1>1 DEF IInv, TypeOK
  <2> QED
    BY <1>1, <2>1 DEF Loaded
<1>4. output \in Outputs /\ status \in Statuses \cup {0} /\ status # 0
  BY <1>3 DEF Outputs, Statuses
<1>5. /\ q \in Request /\ q.at = "answered" /\ q.answer = answer /\ q.kind = "render"
      /\ q.number = o.number /\ q.recipe = o.recipe
      /\ q.status = status /\ q.output = output
  <2> HIDE DEF status, output, o
  <2> QED
    BY <1>1, <1>4 DEF Request, Active
<1>6. Resolve(q.recipe, q.answer) = res
  BY <1>5
<1>7. LET result == Resolve(q.recipe, q.answer)
      IN  /\ q.status = IF result.err = "ok" THEN 200 ELSE 502
          /\ q.output = IF result.err = "ok" THEN result.output ELSE NoOutput
  <2> HIDE DEF q
  <2> QED
    BY <1>5, <1>6
<1>8. /\ q.at \in Active \cup {"answered"} /\ q.at \notin {"selecting", "resolving", "reading"}
      /\ q.at = "answered" <=> q.status # 0
      /\ q.number \in DOMAIN stored
      /\ q.recipe = stored[q.number] \/ (gone /\ q.recipe = Unselected(stored[q.number]))
      /\ env = "prod" /\ q.kind = "list" => q.at # "reading" /\ q.status \in {0, 404}
  <2> HIDE DEF q, o, status, output
  <2> QED
    BY <1>1, <1>4, <1>5
<1> QED
  <2> HIDE DEF q, o, res, status, output
  <2> QED
    BY <1>1, <1>2, <1>5, <1>7, <1>8, OneRequest

LEMMA SaveInv ==
    ASSUME IInv, NEW recipe \in Savable, Save(recipe)
    PROVE  IInv'
<1>1. /\ recipe \in Recipes /\ UNCHANGED <<process, req>>
      /\ stored \in Seq(Recipes) /\ Len(stored) < MaxVersions
      /\ stored' = Append(stored, recipe) /\ gone \in BOOLEAN /\ gone' = gone
  BY DEF Savable, Save, IInv, TypeOK
<1>2. /\ stored' \in Seq(Recipes) /\ Len(stored') <= MaxVersions
      /\ \A n \in DOMAIN stored : n \in DOMAIN stored' /\ stored'[n] = stored[n]
  BY <1>1, BoundAssumption
<1>3. TypeOK'
  BY <1>1, <1>2 DEF IInv, TypeOK, process
<1>4. OfVersion'
  <2> SUFFICES ASSUME NEW s \in Requests
               PROVE  OfVersion!(s)'
    BY DEF OfVersion
  <2>1. req'[s] = req[s]
    BY <1>1
  <2>2. OfVersion!(s)
    BY DEF IInv, OfVersion
  <2> QED
    BY <1>1, <1>2, <2>1, <2>2 DEF Emptied
<1>5. Stages' /\ Routed' /\ CleanExit' /\ ProductionGuarded'
  BY <1>1 DEF IInv, Stages, Routed, CleanExit, ProductionGuarded, process, Busy
<1> QED
  BY <1>3, <1>4, <1>5 DEF IInv

LEMMA DeleteInv ==
    ASSUME IInv, Delete
    PROVE  IInv'
<1>1. gone' = TRUE /\ UNCHANGED <<process, stored, req>>
  BY DEF Delete
<1>2. TypeOK'
  BY <1>1 DEF IInv, TypeOK, process
<1>3. OfVersion'
  <2> SUFFICES ASSUME NEW s \in Requests
               PROVE  OfVersion!(s)'
    BY DEF OfVersion
  <2>1. OfVersion!(s)
    BY DEF IInv, OfVersion
  <2> QED
    BY <1>1, <2>1 DEF Emptied
<1>4. Stages' /\ Routed' /\ CleanExit' /\ ProductionGuarded'
  BY <1>1 DEF IInv, Stages, Routed, CleanExit, ProductionGuarded, process, Busy
<1> QED
  BY <1>2, <1>3, <1>4 DEF IInv

--------------------------------------------------------------------------------

LEMMA StepInv == IInv /\ [Next]_vars => IInv'
<1> SUFFICES ASSUME IInv, [Next]_vars PROVE IInv'
  OBVIOUS
<1>1. CASE ProcessStep
  BY <1>1, LoadConfigInv, ConnectInv, ListenInv, ListenerDiesInv, SignalInv, SelectSignalInv,
     SelectCrashInv, DrainedInv, DrainExpiresInv DEF ProcessStep, MainStep
<1>2. ASSUME NEW r \in Requests, RequestStep(r) PROVE IInv'
  BY <1>2, ArriveInv, ReadInv, SelectInv, RespondInv DEF RequestStep
<1>3. CASE \E recipe \in Savable : Save(recipe)
  BY <1>3, SaveInv
<1>4. CASE UNCHANGED vars
  <2>1. OfVersion'
    BY <1>4 DEF IInv, OfVersion, Emptied, vars, tables
  <2> QED
    BY <1>4, <2>1 DEF IInv, TypeOK, Stages, Routed, CleanExit, ProductionGuarded, vars,
                      process, tables, Busy
<1>5. CASE Delete
  BY <1>5, DeleteInv
<1> QED
  BY <1>1, <1>2, <1>3, <1>4, <1>5 DEF Next

\* The inductive invariant holds of the service.
THEOREM Invariance == Spec => []IInv
BY InitInv, StepInv, PTL DEF Spec

\* Every variable has its type and every answer a status.
THEOREM TypeCorrect == Spec => []TypeOK
<1>1. IInv => TypeOK
  BY DEF IInv
<1> QED
  BY Invariance, <1>1, PTL

\* Exit code 0 means that a signal asked for the end and every request that came
\* in was answered, however many there were and whatever else happened.
THEOREM CleanExits == Spec => []CleanExit
<1>1. IInv => CleanExit
  BY DEF IInv
<1> QED
  BY Invariance, <1>1, PTL

\* Production never uses the development database and lists no pipelines.
THEOREM ProductionIsGuarded == Spec => []ProductionGuarded
<1>1. IInv => ProductionGuarded
  BY DEF IInv
<1> QED
  BY Invariance, <1>1, PTL

\* A version renders alike for ever: the saves around it do not matter, nor does the
\* deletion of its pipeline unless it fell between a request's two queries.
THEOREM VersionsRenderAlike == Spec => []SameVersionSameResult
<1>1. IInv => SameVersionSameResult
  <2> SUFFICES ASSUME IInv, NEW r \in Requests, NEW s \in Requests,
                      req[r].answer # NoAnswer, req[s].answer # NoAnswer,
                      req[r].number = req[s].number, req[r].answer = req[s].answer,
                      Emptied(r) <=> Emptied(s)
               PROVE  req[r].status = req[s].status /\ req[r].output = req[s].output
    BY DEF SameVersionSameResult
  <2>1. OfVersion!(r) /\ OfVersion!(s)
    BY DEF IInv, OfVersion
  <2>2. req[r].recipe = req[s].recipe
    BY <2>1 DEF Emptied
  <2>3. Resolve(req[r].recipe, req[r].answer) = Resolve(req[s].recipe, req[s].answer)
    BY <2>2
  <2> QED
    BY <2>1, <2>3
<1> QED
  BY Invariance, <1>1, PTL

================================================================================
