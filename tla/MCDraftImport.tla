----------------------------- MODULE MCDraftImport -----------------------------
(* A small instance of DraftImport: short commands against one partner.      *)
EXTENDS DraftImport

CONSTANTS d1, d2, none

--------------------------------------------------------------------------------
(* Texts.                                                                    *)

MCLower(name) == CASE name = "Token" -> "token" [] name = "Accept" -> "accept"
                   [] name = "Authorization" -> "authorization" [] OTHER -> name
MCUpper(method)    == IF method = "post" THEN "POST" ELSE method
MCBraced(name)     == "{" \o name \o "}"
MCHolds(text)      == text \in {"{typo}", "{}", "{id}", "{sku}"}
MCBase64(text)     == "base64(" \o text \o ")"
MCEscaped(n, v)    == n \o "=" \o v
MCFormatted(format, secret) == IF format = "Key {{secret}}" THEN "Key " \o secret ELSE format
MCNormalized(name) == MCLower(name)
MCHasText(text, part) ==
    \E i \in 1..(Len(text) - Len(part) + 1) : SubSeq(text, i, i + Len(part) - 1) = part
MCDecode(segment)  == CASE segment = "a%2Fb" -> <<"a", "b">> [] segment = "100%25" -> <<"100%">>
                        [] segment = "100%" -> <<>> [] segment = "foo/bar" -> <<"foo", "bar">>
                        [] OTHER -> <<segment>>
MCPathTexts        == {"", "v1", "42", "a", "b", "a%2Fb", "100%", "100%25",
                       "foo", "bar", "foo/bar", "{typo}", "{}", "{id}", "{sku}"}
MCReads(type, text) == CASE type = "integer" -> text \in {"5", "+5"}
                         [] type = "boolean" -> text \in {"1", "false"}
                         [] type = "number"  -> text \in {"5", "+5"}
                         [] OTHER -> FALSE
MCJSONNumber(text) == text = "5"
MCLength(text)     == Len(text)
MCMatches(pattern, text) == text \in {"5", "1"}

\* Values, so that their order is that of the strings.
MCRank(text) == CASE text = "page" -> 1 [] text = "sig" -> 2 [] text = "token" -> 3
                  [] text = "q1" -> 1 [] text = "q2" -> 2 [] OTHER -> 0

--------------------------------------------------------------------------------
(* What is pasted.                                                           *)

Page(login, path, query) ==
    [flag |-> "url", url |-> [scheme |-> "https", login |-> login, base |-> "https://partner",
                              path |-> path, query |-> query]]
Searched == Page(<<>>, <<"v1", "42">>, << <<"token", "q2">>, <<"token", "q1">>, <<"page", "q3">> >>)
LoggedIn == Page(<<"ann", "pw1">>, <<"v1", "42", "">>, <<>>)
Encoded  == Page(<<>>, <<"a%2Fb", "100%25">>, <<>>)
Local    == [Page(<<>>, <<>>, <<>>) EXCEPT !.url.scheme = "file"]
Option   == [flag |-> "--url", url |-> Page(<<>>, <<"">>, <<>>).url]

Header(flag, name, value) == [flag |-> flag, name |-> name, value |-> value]
Text(value)      == [quoted |-> TRUE, parts |-> << [hole |-> FALSE, text |-> value] >>]
Hole(name)       == [quoted |-> TRUE, parts |-> << [hole |-> TRUE, text |-> name] >>]
Order            == [x \in {"qty", "note"} |-> [Text("7") EXCEPT !.quoted = (x = "note")]]
Sent(flag, data) == [flag |-> flag, data |-> data]
Form(pairs)      == [file |-> FALSE, text |-> "form", pairs |-> pairs, wellformed |-> TRUE,
                     json |-> NoBody]

\* Two data that are a string when they are joined.
Halves        == [i \in 1..2 |-> [Form(<<>>) EXCEPT !.text = <<"'a", "b'">>[i]]]
MCJoined(data) ==
    IF {data[i].text : i \in DOMAIN data} = {half.text : half \in {Halves[1], Halves[2]}}
    THEN [x \in {""} |-> Text("a&b")] ELSE NoBody

Usual == { Header("-H", "token", "h1"), Header("--header", "Token", "h2"),
           Header("-H", "Accept", "h3"), Header("-H", "Authorization", "h4"),
           [flag |-> "-u", login |-> <<"bob", "pw2">>], [flag |-> "-X", method |-> "post"],
           [flag |-> "-G"], Option,
           Sent("-d", Form(<< <<"page", "q4">>, <<"token", "q5">> >>)),
           Sent("--data", [Form(<< <<"{..}", "">> >>) EXCEPT !.text = "{..}", !.json = Order]),
           Sent("--data-urlencode", Form(<< <<"sig", "q6">> >>)) }
Unusual == { [flag |-> "-x"], [flag |-> "-H"], [flag |-> "-H", text |-> "h5"],
             [flag |-> "--user", text |-> "bob"], [flag |-> "--request", method |-> "DELETE"],
             Sent("-d", [Form(<<>>) EXCEPT !.text = ""]),
             Sent("-d", [Form(<<>>) EXCEPT !.file = TRUE]),
             Sent("--data-urlencode", [Form(<< <<"a&b", "q7">> >>) EXCEPT !.wellformed = FALSE]),
             Sent("--data", [Form(<<>>) EXCEPT !.text = "{id}",
                                                !.json = [x \in {"id"} |-> Hole("id")]]) }

MCCommands(d) ==
    IF d = d2 THEN { << Page(<<>>, <<>>, << <<"token", "q8">> >>), Header("-H", "token", "h6") >> }
    ELSE { << Local >>, <<>>, << Encoded >> }
         \cup { << u >> \o s : u \in {Searched, LoggedIn}, s \in SeqOf(Usual, 2) }
         \cup { << x, LoggedIn >> : x \in Unusual }
         \cup { << Sent("-d", Halves[1]), Sent("-d", Halves[2]), LoggedIn >> }

--------------------------------------------------------------------------------
(* What is stored, such as the configuration of fetchtry.                    *)

Param(location, type) == [PathParam("5") EXCEPT !.location = location, !.type = type]

Written(params) == [NoConfig EXCEPT !.base = "https://partner", !.params = params]

MCStored(d) ==
    IF d = d2 THEN {}
    ELSE { [Written([p \in {"id"} |-> [Param("path", "") EXCEPT !.longest = 7]])
                EXCEPT !.path = << "v1", "{id}" >>],
           [Written([p \in {"id"} |-> [Param("body", "integer") EXCEPT !.required = FALSE]])
                EXCEPT !.body = [x \in {"id", "on"} |-> IF x = "id" THEN Hole("id") ELSE Text("7")]],
           [Written([p \in {"id"} |-> [Param("body", "boolean") EXCEPT !.default = "1"]])
                EXCEPT !.body = [x \in {"id"} |-> Hole("id")]],
           [Written([p \in {"id"} |-> [Param("query", "number") EXCEPT !.required = FALSE, !.default = "5",
                                          !.pattern = "digits", !.wire = "page"]])
                EXCEPT !.auth = [type |-> "bearer_token", ref |-> <<d2, "auth", "auth">>, header |-> ""]],
           [Written(NoParams)
                EXCEPT !.entries = << [place |-> "query", name |-> "page", source |-> "", value |-> "q0",
                                       format |-> "", ref |-> NoRef],
                                      [place |-> "header", name |-> "Token", source |-> "secret", value |-> "",
                                       format |-> "Key {{secret}}", ref |-> <<d2, "header", "token">>] >>],
           [Written([p \in {"id"} |-> Param("header", "number")])
                EXCEPT !.path = << "{typo}" >>] }

MCParamSets == { [p \in {"id"} |-> v] : v \in {"5", "+5", "foo/bar", "1"} }
               \cup { <<>>, [p \in {"id", "more"} |-> "5"] }
================================================================================
