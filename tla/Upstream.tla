-------------------------------- MODULE Upstream -------------------------------
(* BuildRequest: a stored configuration, the values of its parameters and a  *)
(* secret store make one HTTP request, or an error (internal/upstream).      *)
(*                                                                           *)
(* A configuration is a record with method; base, the scheme and host; path, *)
(* the segments of the URL template; entries, its headers and query          *)
(* parameters in order; params, its parameters' definitions by name; auth;   *)
(* and body.  A body is a document as a function from its positions to their *)
(* values: a leaf has quoted, whether it is a string, and parts, the text    *)
(* and the placeholders it is made of.  A placeholder is a whole segment,    *)
(* and the template has no query of its own, as FromImported and             *)
(* MakePathDynamic make it.  Which of several errors of one stage is         *)
(* reported is left open, as Go's map iteration leaves it.                   *)
EXTENDS Naturals, SequencesExt

CONSTANTS
    Lower(_),           \* strings.ToLower
    Upper(_),           \* strings.ToUpper
    Braced(_),          \* the placeholder of a parameter
    HoldsPlaceholder(_),
    Decode(_),          \* the segments url.Parse reads from one, none on an error
    Base64(_),
    Formatted(_, _),    \* a format with each {{secret}} in it replaced
    Reads(_, _),        \* whether strconv reads a text as a type
    JSONNumber(_),      \* whether encoding/json writes a text as a number
    Length(_),          \* a text's length in characters
    Matches(_, _)       \* whether a text matches a pattern

NoRef    == <<>>
NoAuth   == [type |-> "none", ref |-> NoRef, header |-> ""]
NoBody   == <<>>
NoParams == <<>>

allowedMethods == {"GET", "POST"}

--------------------------------------------------------------------------------
(* The parameters.                                                           *)

\* validateValue: a known type, length in characters (0: any), pattern, allowed values.
Accepts(def, value) ==
    /\ \/ def.type \in {"", "string"}
       \/ def.type \in {"integer", "number", "boolean"} /\ Reads(def.type, value)
    /\ def.longest = 0 \/ Length(value) <= def.longest
    /\ def.pattern = "" \/ Matches(def.pattern, value)
    /\ def.allowed = {} \/ value \in def.allowed

Resolved(params, values) ==
    [p \in {p \in DOMAIN params : p \in DOMAIN values \/ params[p].default # ""} |->
        IF p \in DOMAIN values THEN values[p] ELSE params[p].default]

\* ResolveParameters: a required one must be given even if it has a default, each
\* value must be accepted, and none may be unknown.
ParameterErrors(params, values) ==
    LET known == {p \in DOMAIN params : params[p].required /\ p \notin DOMAIN values}
        bad   == {p \in DOMAIN Resolved(params, values) :
                     ~Accepts(params[p], Resolved(params, values)[p])}
    IN  IF known \cup bad # {}
        THEN {"ErrMissingParameter" : p \in known} \cup {"ErrInvalidParameter" : p \in bad}
        ELSE {"ErrUnknownParameter" : p \in DOMAIN values \ DOMAIN params}

--------------------------------------------------------------------------------
(* The path: a segment is a placeholder, or text that is read once more.     *)

Located(params, place) == {p \in DOMAIN params : params[p].location = place}

\* The path parameter that a segment is the placeholder of, if it is one.
HeldBy(params, segment) == {p \in Located(params, "path") : segment = Braced(p)}

Literal(params, segment) == HeldBy(params, segment) = {}

\* Mutant: substitutePath without PathEscape.
FilledRaw(params, resolved, segment) ==
    IF Literal(params, segment) THEN Decode(segment)
    ELSE Decode(resolved[CHOOSE p \in HeldBy(params, segment) : TRUE])

\* A value is escaped, so it stays one segment whatever it holds.
Filled(params, resolved, segment) ==
    IF Literal(params, segment) THEN Decode(segment)
    ELSE << resolved[CHOOSE p \in HeldBy(params, segment) : TRUE] >>

substitutePath(config, resolved) ==
    FlattenSeq([i \in DOMAIN config.path |-> Filled(config.params, resolved, config.path[i])])

PathErrors(config, resolved) ==
    LET segments == {config.path[i] : i \in DOMAIN config.path}
        missing  == {s \in segments : HeldBy(config.params, s) \ DOMAIN resolved # {}}
        invalid  == {s \in segments : Literal(config.params, s)
                                        /\ (HoldsPlaceholder(s) \/ Decode(s) = <<>>)}
    IN  IF missing # {} THEN {"ErrMissingParameter"}
        ELSE {"ErrInvalidURL" : s \in invalid}

--------------------------------------------------------------------------------
(* The body: filled at value positions of the decoded document.              *)

\* A string that is one placeholder takes the parameter's type, any other text
\* is put together from its parts.
typedBodyValue(def, value) ==
    CASE def.type = "boolean" ->
            [type |-> "boolean",
             text |-> IF value \in {"1", "t", "T", "TRUE", "true", "True"} THEN <<"true">>
                      ELSE <<"false">>]
      [] def.type \in {"integer", "number"} -> [type |-> def.type, text |-> <<value>>]
      [] OTHER -> [type |-> "string", text |-> <<value>>]

Whole(leaf) == leaf.quoted /\ Len(leaf.parts) = 1 /\ leaf.parts[1].hole

substituteValue(leaf, params, resolved) ==
    IF Whole(leaf) THEN typedBodyValue(params[leaf.parts[1].text], resolved[leaf.parts[1].text])
    ELSE [type |-> IF leaf.quoted THEN "string" ELSE "as it is",
          text |-> [i \in DOMAIN leaf.parts |->
                       IF leaf.parts[i].hole THEN resolved[leaf.parts[i].text]
                       ELSE leaf.parts[i].text]]

substituteBody(config, resolved) ==
    [at \in DOMAIN config.body |-> substituteValue(config.body[at], config.params, resolved)]

\* A field may not be named by a placeholder, a placeholder must be a declared
\* body parameter with a value, and what is written as a number must be one.
BodyErrors(config, resolved) ==
    LET leaves   == {config.body[at] : at \in DOMAIN config.body}
        used     == UNION {{leaf.parts[i].text : i \in {j \in DOMAIN leaf.parts : leaf.parts[j].hole}}
                           : leaf \in leaves}
        declared == Located(config.params, "body")
        numbers  == {leaf.parts[1].text : leaf \in {l \in leaves : Whole(l)}} \cap declared
    IN  {"ErrInvalidBody" : at \in {x \in DOMAIN config.body : HoldsPlaceholder(x)}}
        \cup {"ErrInvalidBody" : p \in used \ declared}
        \cup {"ErrMissingParameter" : p \in (used \cap declared) \ DOMAIN resolved}
        \cup {"ErrInvalidBody" : p \in {q \in numbers \cap DOMAIN resolved :
                                           /\ config.params[q].type \in {"integer", "number"}
                                           /\ ~JSONNumber(resolved[q])}}

--------------------------------------------------------------------------------
(* Query and headers: entries in order, the last of a name wins.             *)

\* What an entry says: its value, or the credential it refers to, in its format if it
\* is a header that has one.
Value(entry, store) ==
    IF entry.source # "secret" THEN entry.value
    ELSE IF entry.place = "query" \/ entry.format = "" THEN store[entry.ref]
    ELSE Formatted(entry.format, store[entry.ref])

\* A query parameter without a source is a static one, a header is not.
Sources(place) == IF place = "query" THEN {"", "static", "secret"} ELSE {"static", "secret"}

EntryErrors(entries, store, error) ==
    {error : e \in {x \in entries : x.source \notin Sources(x.place)}}
    \cup {"ErrSecretResolution" : e \in {x \in entries : x.source = "secret" /\ x.ref \notin DOMAIN store}}

LastValues(config, place, store, Key(_)) ==
    LET entries  == config.entries
        there    == {i \in DOMAIN entries : entries[i].place = place}
        Named(k) == {i \in there : Key(entries[i].name) = k}
    IN  [k \in {Key(entries[i].name) : i \in there} |->
            Value(entries[CHOOSE i \in Named(k) : \A j \in Named(k) : i >= j], store)]

Put(values, key, value) ==
    [k \in DOMAIN values \cup {key} |-> IF k = key THEN value ELSE values[k]]

\* The parameters of a place over the values so far: of two with one name on the
\* wire, either may come last.
Overridden(values, config, resolved, place, Key(_)) ==
    LET given   == Located(config.params, place) \cap DOMAIN resolved
        Wire(p) == Key(IF config.params[p].wire = "" THEN p ELSE config.params[p].wire)
        wires   == {Wire(p) : p \in given}
    IN  {[k \in DOMAIN values \cup wires |->
             IF k \in wires THEN resolved[last[k]] ELSE values[k]] :
         last \in {f \in [wires -> given] : \A k \in wires : Wire(f[k]) = k}}

Same(name) == name

AuthErrors(auth, store) ==
    CASE auth = NoAuth -> {}
      [] auth # NoAuth /\ auth.ref \notin DOMAIN store -> {"ErrSecretResolution"}
      [] OTHER -> {"ErrInvalidAuth" : bad \in {a \in {auth} :
                      \/ a.type \notin {"bearer_token", "basic", "api_key_header"}
                      \/ a.type = "api_key_header" /\ a.header = ""}}

applyAuthentication(headers, auth, store) ==
    CASE auth.type = "bearer_token" ->
            Put(headers, Lower("Authorization"), "Bearer " \o store[auth.ref])
      [] auth.type = "basic" ->
            Put(headers, Lower("Authorization"), "Basic " \o Base64(store[auth.ref]))
      [] auth.type = "api_key_header" -> Put(headers, Lower(auth.header), store[auth.ref])
      [] OTHER -> headers

--------------------------------------------------------------------------------
(* The errors of the stages, in their order, and the requests there are when *)
(* none has any.                                                             *)

Method(config) == IF config.method = "" THEN "GET" ELSE Upper(config.method)

EntriesOf(config, place) ==
    {e \in {config.entries[i] : i \in DOMAIN config.entries} : e.place = place}

Stages(config, values, store) ==
    LET resolved == Resolved(config.params, values)
    IN  << {"ErrUnsupportedMethod" : m \in {Method(config)} \ allowedMethods},
           ParameterErrors(config.params, values),
           PathErrors(config, resolved),
           EntryErrors(EntriesOf(config, "query"), store, "ErrInvalidQueryParam"),
           BodyErrors(config, resolved),
           EntryErrors(EntriesOf(config, "header"), store, "ErrInvalidHeader"),
           AuthErrors(config.auth, store) >>

BuildErrors(config, values, store) ==
    LET stages  == Stages(config, values, store)
        failing == {i \in DOMAIN stages : stages[i] # {}}
    IN  IF failing = {} THEN {}
        ELSE stages[CHOOSE i \in failing : \A j \in failing : i <= j]

\* BuildRequest: each outcome there may be.  Parameters come after the query's
\* entries, and after the headers' and the credential.
Outcomes(config, values, store) ==
    LET resolved == Resolved(config.params, values)
        query    == LastValues(config, "query", store, Same)
        headers  == applyAuthentication(LastValues(config, "header", store, Lower),
                                        config.auth, store)
        errors   == BuildErrors(config, values, store)
    IN  IF errors # {} THEN {[err |-> e] : e \in errors}
        ELSE {[err |-> "ok", method |-> Method(config), base |-> config.base,
               path |-> substitutePath(config, resolved), query |-> q, headers |-> h,
               body |-> substituteBody(config, resolved)] :
              q \in Overridden(query, config, resolved, "query", Same),
              h \in Overridden(headers, config, resolved, "header", Lower)}
================================================================================
