------------------------------- MODULE DraftImport -----------------------------
(* From a pasted cURL command to a configuration and back to a request:      *)
(* curlimport.Parse and Redacted, draft.FromImported and MakePathDynamic as  *)
(* pipelinetry runs them, and upstream.BuildRequest.  Several drafts are     *)
(* converted against one secret store, which may fail at any call.           *)
(*                                                                           *)
(* A command is the sequence of its options, without "curl" itself: records  *)
(* with flag and what it takes.  A bare URL is an option with flag "url".    *)
(* An option whose value is missing has nothing but its flag; a header or a  *)
(* user without a colon has text only.  A URL has scheme ("file" if its text *)
(* has file:// in it), login, base, path and query; data has file, whether   *)
(* it names one, text, pairs as url.ParseQuery reads it, wellformed, and     *)
(* json, the document it is, or NoBody.                                      *)
EXTENDS Integers, FiniteSets, Upstream

CONSTANTS
    Drafts,
    Commands(_),        \* what is pasted for a draft
    Stored(_),          \* the configurations that may be loaded for a draft
    ParamSets,          \* values given for the parameters of a loaded one
    Names,              \* names for dynamic parameters, the empty one too
    PathTexts,          \* what a segment of a path may be
    Rank(_),            \* a text's place in the order of strings
    Normalized(_),      \* a name in lower case, without separators
    HasText(_, _),      \* strings.Contains
    Escaped(_, _),      \* name=value, escaped
    Joined(_),          \* the document that several data are with & between, or NoBody
    NoCommand,
    MaxDynamics         \* bound: segments made dynamic in one draft

ASSUME StoredAssumption ==
    \A d \in Drafts : \A c \in Stored(d) :
        DOMAIN c = {"method", "base", "path", "entries", "params", "auth", "body"}

VARIABLES
    at,         \* how far each draft is
    command,    \* the command pasted for it
    todo,       \* headers, query parameters and login still to convert
    config,     \* its configuration
    values,     \* the parameter values it was built with
    built,      \* what came of that
    store       \* the secret store: values by reference

vars == <<at, command, todo, config, values, built, store>>

HeaderFlags == {"-H", "--header"}
UserFlags   == {"-u", "--user"}
MethodFlags == {"-X", "--request"}
DataFlags   == {"-d", "--data", "--data-raw"}
GetFlags    == {"-G", "--get"}
allowedFlags == MethodFlags \cup HeaderFlags \cup UserFlags \cup DataFlags \cup GetFlags
                \cup {"--url", "--data-urlencode"}

--------------------------------------------------------------------------------
(* What is sensitive.                                                        *)

nonSensitiveHeaderNames ==
    {"accept", "accept-charset", "accept-encoding", "accept-language", "cache-control",
     "connection", "content-length", "content-type", "expect", "host", "pragma", "te",
     "user-agent"}

isSensitiveHeader(name) == Lower(name) \notin nonSensitiveHeaderNames

credentialMarkers == {"apikey", "token", "secret", "password", "passwd", "signature",
                      "credential", "auth", "session"}

isSensitiveQueryParam(name) ==
    \/ Normalized(name) \in {"key", "sig", "pwd"}
    \/ \E marker \in credentialMarkers : HasText(Normalized(name), marker)

--------------------------------------------------------------------------------
(* Parse.                                                                    *)

Places(c, flags) == {i \in DOMAIN c : c[i].flag \in flags}
LastOf(places)   == CHOOSE i \in places : \A j \in places : j <= i
FirstOf(places)  == CHOOSE i \in places : \A j \in places : i <= j

IsGet(c) == Places(c, GetFlags) # {}

\* The last --url, or the first bare one.
URL(c) == IF Places(c, {"--url"}) # {} THEN c[LastOf(Places(c, {"--url"}))].url
          ELSE c[FirstOf(Places(c, {"url"}))].url

\* The data options, an escaped one as it is sent.
Data(c) ==
    [i \in Places(c, DataFlags \cup {"--data-urlencode"}) |->
        IF c[i].flag # "--data-urlencode" THEN c[i].data
        ELSE [c[i].data EXCEPT !.text = Escaped(c[i].data.pairs[1][1], c[i].data.pairs[1][2])]]

\* Parse returns no error: only known options, each with what it takes, no data from
\* a file, and a URL with a scheme that is allowed.  An escaped field's name may have
\* no & in it: it is not well-formed then.
Parses(c) ==
    /\ \A i \in DOMAIN c : c[i].flag \in allowedFlags \cup {"url"}
    /\ \A i \in DOMAIN c : c[i].flag \in GetFlags \/ DOMAIN c[i] # {"flag"}
    /\ \A i \in Places(c, HeaderFlags \cup UserFlags) : "text" \notin DOMAIN c[i]
    /\ \A i \in DOMAIN Data(c) :
          /\ ~c[i].data.file
          /\ IsGet(c) \/ c[i].flag = "--data-urlencode" => c[i].data.wellformed
    /\ Places(c, {"url", "--url"}) # {}
    /\ URL(c).scheme \in {"http", "https"}

Pairs(sequence) == {sequence[i] : i \in DOMAIN sequence}

\* Paths are sequences of texts, and decoding a text makes such a sequence.
ASSUME PathAssumption ==
    /\ \A text \in PathTexts : Decode(text) \in Seq(PathTexts)
    /\ \A name \in Names : Braced(name) \in PathTexts
    /\ \A d \in Drafts : /\ \A c \in Commands(d) : Parses(c) => URL(c).path \in Seq(PathTexts)
                         /\ \A c \in Stored(d) : c.path \in Seq(PathTexts)

\* A command is a sequence of options, of which data without text is no document.
ASSUME CommandAssumption ==
    \A d \in Drafts : \A c \in Commands(d) :
        /\ c \in Seq(Pairs(c))
        /\ Parses(c) => \A i \in DOMAIN Data(c) : Data(c)[i].text = "" => Data(c)[i].json = NoBody

\* What the texts are by which the program goes.
ASSUME TextAssumption ==
    /\ \A method \in allowedMethods : Upper(method) = method
    /\ Lower("Authorization") = "authorization"
    /\ \A name \in Names : HoldsPlaceholder(Braced(name)) /\ Braced(name) # ""
    /\ \A m, n \in Names : Braced(m) = Braced(n) => m = n

\* Mutant: the user in the URL is dropped, as u.Host drops it.
OptionLogin(c) == IF Places(c, UserFlags) # {} THEN c[LastOf(Places(c, UserFlags))].login
                  ELSE <<>>

Login(c) == IF Places(c, UserFlags) # {} THEN c[LastOf(Places(c, UserFlags))].login
            ELSE URL(c).login

QueryPairs(c) ==
    Pairs(URL(c).query)
    \cup IF IsGet(c) THEN UNION {Pairs(Data(c)[i].pairs) : i \in DOMAIN Data(c)} ELSE {}

HasBody(c) == DOMAIN Data(c) # {} /\ ~IsGet(c)

ParsedMethod(c) ==
    IF Places(c, MethodFlags) # {} THEN Upper(c[LastOf(Places(c, MethodFlags))].method)
    ELSE IF HasBody(c) THEN "POST" ELSE "GET"

Entry(place, nth, name, value, sensitive) ==
    [place |-> place, nth |-> nth, name |-> name, value |-> value, sensitive |-> sensitive]

Headers(c) == {Entry("header", i, c[i].name, c[i].value, isSensitiveHeader(c[i].name)) :
                   i \in Places(c, HeaderFlags)}
Query(c)   == {Entry("query", 0, p[1], p[2], isSensitiveQueryParam(p[1])) : p \in QueryPairs(c)}
Auth(c)    == {Entry("auth", 0, "auth", l[1] \o ":" \o l[2], TRUE) : l \in {Login(c)} \ {<<>>}}

\* The path as url.Parse reads it.
ReadPath(path) == FlattenSeq([i \in DOMAIN path |-> Decode(path[i])])

\* The one document that the data is, if it is one.
Document(c) ==
    IF \E i \in DOMAIN Data(c) : DOMAIN Data(c) = {i}
    THEN Data(c)[CHOOSE i \in DOMAIN Data(c) : TRUE].json
    ELSE Joined(Data(c))

\* Redacted: the texts of what is printed before the conversion.  Only values of headers
\* and query parameters are looked at and a password is masked: the rest of the record,
\* with the path and the body, is printed as it is.
Redacted(c) ==
    {IF e.sensitive THEN "masked" ELSE e.value : e \in Headers(c) \cup Query(c)}
    \cup {e.name : e \in Headers(c) \cup Query(c)}
    \cup {l[1] : l \in {Login(c)} \ {<<>>}} \cup {"masked"}
    \cup {ParsedMethod(c), URL(c).base} \cup Pairs(ReadPath(URL(c).path))
    \cup IF HasBody(c) THEN {Data(c)[i].text : i \in DOMAIN Data(c)} ELSE {}

--------------------------------------------------------------------------------
(* FromImported.                                                             *)

Step == [header |-> 1, query |-> 2, auth |-> 3]

\* The order of conversion: headers as given, then the query by name and value.
Before(e, f) ==
    \/ Step[e.place] < Step[f.place]
    \/ /\ e.place = f.place
       /\ \/ e.nth < f.nth
          \/ e.nth = f.nth /\ Rank(e.name) < Rank(f.name)
          \/ e.nth = f.nth /\ e.name = f.name /\ Rank(e.value) < Rank(f.value)

\* Mutant: references that leave the origin out.
ReferenceByName(d, e) == << d, "secret", e.name >>

Reference(d, e) == << d, e.place, e.name >>

Static(e)    == [place |-> e.place, name |-> e.name, source |-> "static", value |-> e.value,
                 format |-> "", ref |-> NoRef]
Secret(d, e) == [place |-> e.place, name |-> e.name, source |-> "secret", value |-> "",
                 format |-> "", ref |-> Reference(d, e)]

NoConfig == [method |-> "", base |-> "", path |-> <<>>, entries |-> <<>>, params |-> NoParams,
             auth |-> NoAuth, body |-> NoBody]
NotBuilt == [err |-> "none"]

Init ==
    /\ at      = [d \in Drafts |-> "idle"]
    /\ command = [d \in Drafts |-> NoCommand]
    /\ todo    = [d \in Drafts |-> {}]
    /\ config  = [d \in Drafts |-> NoConfig]
    /\ values  = [d \in Drafts |-> NoParams]
    /\ built   = [d \in Drafts |-> NotBuilt]
    /\ store   = <<>>

\* importFromCurl: Parse, and FromImported up to its first header.
Refuse(d, c) ==
    /\ ~(Parses(c) /\ ParsedMethod(c) \in allowedMethods)
    /\ at' = [at EXCEPT ![d] = "refused"]
    /\ UNCHANGED <<todo, config>>

Blank(c) == [NoConfig EXCEPT !.method = ParsedMethod(c), !.base = URL(c).base,
                             !.path = ReadPath(URL(c).path)]

Convert(d, c) ==
    /\ Parses(c) /\ ParsedMethod(c) \in allowedMethods
    /\ at' = [at EXCEPT ![d] = "converting"]
    /\ todo' = [todo EXCEPT ![d] = Headers(c) \cup Query(c) \cup Auth(c)]
    /\ config' = [config EXCEPT ![d] = Blank(c)]

Paste(d) ==
    /\ at[d] = "idle"
    /\ \E c \in Commands(d) :
          /\ command' = [command EXCEPT ![d] = c]
          /\ Refuse(d, c) \/ Convert(d, c)
    /\ UNCHANGED <<values, built, store>>

\* The next one to convert.
IsNext(d, e) == at[d] = "converting" /\ e \in todo[d] /\ \A f \in todo[d] : ~Before(f, e)

\* Mutant: a sensitive query parameter is kept like the others.
KeepsOrdinary(e) == e.place = "query" \/ ~e.sensitive
Keeps(e) == ~e.sensitive

Keep(d) ==
    /\ \E e \in todo[d] :
          /\ IsNext(d, e) /\ Keeps(e)
          /\ config' = [config EXCEPT ![d].entries = Append(@, Static(e))]
          /\ todo' = [todo EXCEPT ![d] = @ \ {e}]
    /\ UNCHANGED <<at, command, values, built, store>>

Lift(d) ==
    /\ \E e \in todo[d] :
          /\ IsNext(d, e) /\ ~Keeps(e)
          /\ store' = Put(store, Reference(d, e), e.value)
          /\ config' = IF e.place = "auth"
                       THEN [config EXCEPT ![d].auth = [type |-> "basic", ref |-> Reference(d, e),
                                                        header |-> ""]]
                       ELSE [config EXCEPT ![d].entries = Append(@, Secret(d, e))]
          /\ todo' = [todo EXCEPT ![d] = @ \ {e}]
    /\ UNCHANGED <<at, command, values, built>>

\* The store does not take a secret: no configuration, and what it took before stays.
StoreFails(d) ==
    /\ \E e \in todo[d] : IsNext(d, e) /\ ~Keeps(e)
    /\ at' = [at EXCEPT ![d] = "failed"]
    /\ config' = [config EXCEPT ![d] = NoConfig]
    /\ todo' = [todo EXCEPT ![d] = {}]
    /\ UNCHANGED <<command, values, built, store>>

\* The body last: none, or the document that the data is.
Body(c) ==
    IF ~HasBody(c) \/ \E i \in DOMAIN Data(c) : DOMAIN Data(c) = {i} /\ Data(c)[i].text = ""
    THEN {NoBody}
    ELSE {Document(c)} \ {NoBody}

ConvertBody(d) ==
    /\ at[d] = "converting" /\ todo[d] = {}
    /\ \/ /\ Body(command[d]) = {}
          /\ at' = [at EXCEPT ![d] = "failed"]
          /\ config' = [config EXCEPT ![d] = NoConfig]
       \/ /\ \E body \in Body(command[d]) : config' = [config EXCEPT ![d].body = body]
          /\ at' = [at EXCEPT ![d] = "ready"]
    /\ UNCHANGED <<command, todo, values, built, store>>

--------------------------------------------------------------------------------
(* MakePathDynamic.                                                          *)

\* A path without the slashes around it.
Trimmed(path) ==
    LET full == {i \in DOMAIN path : path[i] # ""}
    IN  IF full = {} THEN <<>> ELSE SubSeq(path, FirstOf(full), LastOf(full))

\* The path of the template, read once more.
Segments(d) == Trimmed(ReadPath(config[d].path))

Unreadable(d) == \E i \in DOMAIN config[d].path : Decode(config[d].path[i]) = <<>>

PathParam(example) ==
    [location |-> "path", wire |-> "", type |-> "string", required |-> TRUE, default |-> "",
     example |-> example, allowed |-> {}, longest |-> 0, pattern |-> ""]

MakeDynamic(d, k, name) ==
    /\ name # "" /\ ~Unreadable(d) /\ k \in DOMAIN Segments(d)
    /\ name \notin DOMAIN config[d].params
    /\ config' = [config EXCEPT
            ![d].path = [Segments(d) EXCEPT ![k] = Braced(name)],
            ![d].params = Put(config[d].params, name, PathParam(Segments(d)[k]))]
    /\ UNCHANGED at

\* The command ends on an error; the configuration it had is as it was.
MakeDynamicFails(d, k, name) ==
    /\ \/ name = "" \/ Unreadable(d) \/ k \notin DOMAIN Segments(d)
       \/ name \in DOMAIN config[d].params
    /\ at' = [at EXCEPT ![d] = "refused"]
    /\ UNCHANGED config

MakePathDynamic(d) ==
    /\ at[d] = "ready" /\ command[d] # NoCommand
    /\ Cardinality(DOMAIN config[d].params) < MaxDynamics
    /\ \E k \in 0..(Len(config[d].path) + 1), name \in Names :
          MakeDynamic(d, k, name) \/ MakeDynamicFails(d, k, name)
    /\ UNCHANGED <<command, todo, values, built, store>>

--------------------------------------------------------------------------------
(* Loading a stored configuration, and the request.                          *)

Load(d) ==
    /\ at[d] = "idle"
    /\ at' = [at EXCEPT ![d] = "ready"]
    /\ \E c \in Stored(d) : config' = [config EXCEPT ![d] = c]
    /\ UNCHANGED <<command, todo, values, built, store>>

Examples(params) == [p \in DOMAIN params |-> params[p].example]

Build(d) ==
    /\ at[d] = "ready"
    /\ at' = [at EXCEPT ![d] = "built"]
    /\ \E given \in {Examples(config[d].params)} \cup ParamSets :
          /\ values' = [values EXCEPT ![d] = given]
          /\ \E outcome \in Outcomes(config[d], given, store) :
                built' = [built EXCEPT ![d] = outcome]
    /\ UNCHANGED <<command, todo, config, store>>

Next == \E d \in Drafts : \/ Paste(d) \/ Keep(d) \/ Lift(d) \/ StoreFails(d) \/ ConvertBody(d)
                          \/ MakePathDynamic(d) \/ Load(d) \/ Build(d)

Spec == Init /\ [][Next]_vars

--------------------------------------------------------------------------------

Given(c) == Headers(c) \cup Query(c) \cup Auth(c)

\* A draft has something left to convert only while it is converted.
TypeOK ==
    /\ at \in [Drafts -> {"idle", "refused", "converting", "failed", "ready", "built"}]
    /\ command = [d \in Drafts |-> command[d]] /\ todo = [d \in Drafts |-> todo[d]]
    /\ config = [d \in Drafts |-> config[d]]
    /\ \A d \in Drafts : DOMAIN config[d] = DOMAIN NoConfig
    /\ \A d \in Drafts :
          todo[d] \subseteq IF at[d] = "converting" THEN Given(command[d]) ELSE {}

Alike(e, f) == e.place = f.place /\ e.name = f.name

\* The texts of a document: its leaves' and the names of its fields.
BodyTexts(body) ==
    DOMAIN body \cup UNION {{body[p].parts[n].text : n \in DOMAIN body[p].parts} : p \in DOMAIN body}

\* The texts of a configuration that is printed and saved.
Texts(cfg) ==
    (UNION {{cfg.entries[i].name, cfg.entries[i].value} : i \in DOMAIN cfg.entries})
    \cup {cfg.method, cfg.base} \cup Pairs(cfg.path)
    \cup DOMAIN cfg.params \cup {cfg.params[p].example : p \in DOMAIN cfg.params}
    \cup BodyTexts(cfg.body)

Credentials(c) ==
    {c[i].value : i \in {j \in Places(c, HeaderFlags) :
                            Lower(c[j].name) \notin nonSensitiveHeaderNames}}
    \cup {p[2] : p \in {q \in QueryPairs(c) : isSensitiveQueryParam(q[1])}}
    \cup {l[2] : l \in {Login(c)} \ {<<>>}}

Ordinary(c) ==
    {c[i].value : i \in {j \in Places(c, HeaderFlags) :
                            Lower(c[j].name) \in nonSensitiveHeaderNames}}
    \cup {p[2] : p \in {q \in QueryPairs(c) : ~isSensitiveQueryParam(q[1])}}
    \cup {e.name : e \in Headers(c) \cup Query(c)}
    \cup {l[1] : l \in {Login(c)} \ {<<>>}} \cup {"", "masked"}

\* What a text of a path may come to by being read, however often.
ReadSets == {S \in SUBSET PathTexts : \A text \in S : Pairs(Decode(text)) \subseteq S}
ReadFrom == [text \in PathTexts |->
                {t \in PathTexts : \A S \in ReadSets : text \in S => t \in S}]

\* The texts of a command's path, and of placeholders put into it.
PathReadings(c) ==
    UNION {ReadFrom[text] : text \in Pairs(URL(c).path) \cup {Braced(name) : name \in Names}}

\* What is not searched for credentials: the method, the URL without its query, the
\* names of dynamic parameters, and the body.
Verbatim(c) ==
    {ParsedMethod(c), URL(c).base} \cup PathReadings(c) \cup Names
    \cup IF HasBody(c) THEN {Data(c)[i].text : i \in DOMAIN Data(c)} \cup BodyTexts(Document(c))
         ELSE {}

\* "What it returns is safe to persist: references, never values" (draft), and
\* Redacted is "safe to serialize outward": a value given for a sensitive header or
\* query parameter, and a password, is in neither, unless it was also given for
\* something else.  One that stands in the path or in the body is kept and printed as
\* it is (redact.go, convert.go): there the two claims say more than the code does.
NoCredentialLeaves ==
    \A d \in Drafts : command[d] # NoCommand /\ Parses(command[d]) =>
        (Texts(config[d]) \cup Redacted(command[d])) \cap Credentials(command[d])
            \subseteq Ordinary(command[d]) \cup Verbatim(command[d])

\* "Secret names are namespaced by origin so a header and a query parameter sharing
\* a name cannot overwrite each other's credential", nor can another draft: once a
\* draft is converted, each of its references yields the value it was made for, the
\* last of a name, whatever is converted or fails meanwhile.
RefsAreOwn ==
    \A d \in Drafts : command[d] # NoCommand /\ at[d] \in {"ready", "built"} =>
        LET Yields(place, name, ref) ==
                /\ ref \in DOMAIN store
                /\ \E e \in Given(command[d]) :
                      /\ e.place = place /\ e.name = name /\ store[ref] = e.value
                      /\ \A f \in Given(command[d]) \ {e} : Alike(e, f) => ~Before(e, f)
        IN  /\ \A i \in DOMAIN config[d].entries : config[d].entries[i].source = "secret" =>
                  Yields(config[d].entries[i].place, config[d].entries[i].name,
                         config[d].entries[i].ref)
            /\ config[d].auth # NoAuth => Yields("auth", "auth", config[d].auth.ref)

\* The inductive invariant.  What was converted of a draft, in order, is in its
\* configuration, as it is or as a reference of its own; and each of these yields
\* the last value converted under its name.
Converted(d) == Given(command[d]) \ todo[d]

InProgress == {"converting", "ready", "built"}

Started ==
    \A d \in Drafts :
        /\ at[d] = "idle" => command[d] = NoCommand /\ config[d] = NoConfig
        /\ at[d] \in InProgress /\ command[d] # NoCommand => Parses(command[d])

Forms(d) == {Static(e) : e \in {x \in Given(command[d]) : ~x.sensitive}}
            \cup {Secret(d, e) : e \in {x \in Converted(d) : x.sensitive /\ x.place # "auth"}}

Lifted ==
    \A d \in Drafts : command[d] # NoCommand /\ Parses(command[d]) =>
        /\ config[d].entries \in Seq(Forms(d))
        /\ config[d].auth = NoAuth
             \/ \E e \in Converted(d) : /\ e.sensitive /\ e.place = "auth" /\ e.name = "auth"
                                        /\ config[d].auth.ref = Reference(d, e)

Ordered ==
    \A d \in Drafts : at[d] = "converting" =>
        \A e \in Converted(d), f \in todo[d] : ~Before(f, e)

LastOfName(f, d) == \A g \in Converted(d) \ {f} : Alike(f, g) => ~Before(f, g)

Held ==
    \A d \in Drafts : command[d] # NoCommand /\ at[d] \in InProgress =>
        \A e \in Converted(d) : e.sensitive =>
            /\ Reference(d, e) \in DOMAIN store
            /\ \E f \in Converted(d) : /\ Alike(e, f) /\ LastOfName(f, d)
                                       /\ store[Reference(d, e)] = f.value

IInv == TypeOK /\ Started /\ Lifted /\ Ordered /\ Held

\* The example of no parameter is the placeholder of another.
Concrete(params) == \A p \in DOMAIN params : \A q \in DOMAIN params : params[p].example # Braced(q)

\* Nothing in a path is written in another way, or may stand for something else.
Plain(c, params) ==
    /\ \A i \in DOMAIN URL(c).path : /\ Decode(URL(c).path[i]) = << URL(c).path[i] >>
                                     /\ ~HoldsPlaceholder(URL(c).path[i])
    /\ \A p \in DOMAIN params : Decode(Braced(p)) = << Braced(p) >>

Logins(c) == (IF Places(c, UserFlags) # {} THEN {c[LastOf(Places(c, UserFlags))].login}
              ELSE {URL(c).login}) \ {<<>>}

SamePath(c, params, request) ==
    /\ request.base = URL(c).base
    /\ request.path = IF DOMAIN params = {} THEN URL(c).path ELSE Trimmed(URL(c).path)

SameQuery(c, request) ==
    /\ DOMAIN request.query = {p[1] : p \in QueryPairs(c)}
    /\ \A k \in DOMAIN request.query :
          \E p \in QueryPairs(c) : p[1] = k /\ p[2] = request.query[k]

SameHeaders(c, request) ==
    LET Named(k) == {i \in Places(c, HeaderFlags) : Lower(c[i].name) = k}
    IN  /\ \A l \in Logins(c) :
              /\ "authorization" \in DOMAIN request.headers
              /\ request.headers["authorization"] = "Basic " \o Base64(l[1] \o ":" \o l[2])
        /\ \A k \in DOMAIN request.headers :
              \/ k = "authorization" /\ Logins(c) # {}
              \/ Named(k) # {} /\ request.headers[k] = c[LastOf(Named(k))].value
        /\ \A i \in Places(c, HeaderFlags) : Lower(c[i].name) \in DOMAIN request.headers

SameBody(c, request) ==
    HasBody(c) =>
        /\ DOMAIN request.body = DOMAIN Document(c)
        /\ \A p \in DOMAIN request.body :
              LET parts == Document(c)[p].parts
              IN  request.body[p].text = [n \in DOMAIN parts |-> parts[n].text]

\* The request that was pasted is the one that is sent: built with the examples, it
\* has the method, the path, a value given for each query parameter, the last value
\* of each header, the login of the option or else of the URL, and the document.
\* Escapes and braces in the path or in a parameter's name, and a segment made
\* dynamic twice, are out of it; a path that is made dynamic loses a slash at its
\* end; a login is what becomes of an Authorization header.
SameRequest ==
    \A d \in Drafts :
        LET c       == command[d]
            params  == config[d].params
            request == built[d]
        IN  /\ request.err = "ok" /\ c # NoCommand
            /\ values[d] = Examples(params) /\ Concrete(params) /\ Plain(c, params)
            => /\ Places(c, MethodFlags) # {} =>
                     request.method = Upper(c[LastOf(Places(c, MethodFlags))].method)
               /\ SamePath(c, params, request) /\ SameQuery(c, request)
               /\ SameHeaders(c, request) /\ SameBody(c, request)

\* A segment that is no placeholder is as it was, a body has the positions it had, and
\* what was one placeholder has the type declared for it.
PathInPlace(cfg, request) ==
    (\A i \in DOMAIN cfg.path : Len(Decode(cfg.path[i])) = 1) =>
        /\ Len(request.path) = Len(cfg.path)
        /\ \A i \in DOMAIN cfg.path :
              \/ \E p \in DOMAIN cfg.params : cfg.path[i] = Braced(p)
              \/ << request.path[i] >> = Decode(cfg.path[i])

BodyInPlace(cfg, request) ==
    /\ DOMAIN request.body = DOMAIN cfg.body
    /\ \A place \in DOMAIN cfg.body : Whole(cfg.body[place]) =>
          LET def == cfg.params[cfg.body[place].parts[1].text]
          IN  request.body[place].type = IF def.type = "" THEN "string" ELSE def.type

\* "A productId of foo/bar would inject an extra path segment and reach a different
\* endpoint" (substitutePath), and a parameter is "structurally unable to introduce
\* fields it was never declared to fill" and arrives with its declared type
\* (substituteBody): whatever the values, the request has the template's shape.
FilledInPlace ==
    \A d \in Drafts : built[d].err = "ok" =>
        PathInPlace(config[d], built[d]) /\ BodyInPlace(config[d], built[d])

\* "The concrete value from the pasted command becomes the parameter's example"
\* (MakePathDynamic).
ExampleIsConcrete == \A d \in Drafts : command[d] # NoCommand => Concrete(config[d].params)
================================================================================
