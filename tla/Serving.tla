--------------------------------- MODULE Serving -------------------------------
(* The render service over real recipes and answers: Renderd's process and   *)
(* requests with Rendering's stages.                                         *)
EXTENDS Renderd, Rendering

\* What a version holds and what the partner sends, of which Resolve makes what the
\* resolver makes of them.
ASSUME ServingAssumption ==
    /\ \A recipe \in Recipes :
          /\ recipe = [set |-> recipe.set, needs |-> recipe.needs, secret |-> recipe.secret]
          /\ recipe.set # NilSet
          /\ recipe.set \in Seq({recipe.set[i] : i \in DOMAIN recipe.set})
          /\ \A i \in DOMAIN recipe.set : recipe.set[i].default \in Scalars \cup {NoDefault}
          /\ Unselected(recipe) = WithoutSelection(recipe)
    /\ \A answer \in Answers : IsDocument(answer.document)
    /\ \A recipe \in Loaded, answer \in Answers :
          Resolve(recipe, answer) = ResolveAnswer(recipe, answer)

Rendered(r) == req[r].kind = "render" /\ req[r].status = 200

\* A field that the output has is what the administrator's path leads to, or the default
\* where it leads nowhere; a field that is required, or that the answer has, is in it.
Honest(m, doc, output) ==
    LET live == ValuesAt(doc, m.path)
    IN  /\ m.required \/ live # {Null} => m.output \in DOMAIN output
        /\ m.output \in DOMAIN output =>
              \/ live = {output[m.output].of}
              \/ live = {Null} /\ output[m.output].of = m.default

\* What a template can rely on of the output a selection makes of an answer: an object
\* of selected names only, with every required field, each of its declared type; honest
\* of every field whose path is read back as it was selected; and nothing was read off
\* a document deeper than the bound, the last scalar counting as a level.
Promised(set, doc, output) ==
    /\ \A p \in DOMAIN doc : Len(p) <= MaxDepth
    /\ DOMAIN output \subseteq {set[i].output : i \in DOMAIN set}
    /\ \A i \in DOMAIN set :
          /\ set[i].required => set[i].output \in DOMAIN output
          /\ Legible(set[i].path) => Honest(set[i], doc, output)
          /\ set[i].output \in DOMAIN output =>
                LET value == output[set[i].output]
                IN  /\ value.type = set[i].type
                    /\ value.type = "integer" => value.of = Number("digits")
                    /\ value.type \in {"string", "boolean"} => value.of.kind = value.type
                    /\ value.type = "number" =>
                          value.of.kind = "number" /\ value.of.text \notin {"huge", "vast"}

\* A render that ends with 200 holds what was promised, or nothing at all if the
\* pipeline was deleted between the two queries of GetVersion.
RenderedAsPromised ==
    \A r \in Requests :
        Rendered(r) =>
            IF req[r].recipe.set = NilSet THEN gone /\ req[r].output = NilOutput
            ELSE Promised(req[r].recipe.set, req[r].answer.document, req[r].output)

\* "ValidateAgainstSchema confirms that every selected field really exists in the
\* discovered response" (validate.go), by the text of its path, which Apply evaluates:
\* a render that succeeds is honest of every field, whatever its key.
SelectedIsRendered ==
    \A r \in Requests :
        Rendered(r) /\ req[r].recipe.set # NilSet =>
            \A i \in DOMAIN req[r].recipe.set :
                Honest(req[r].recipe.set[i], req[r].answer.document, req[r].output)

\* The field tree tells the truth of the answer it was inferred from, at every
\* node: arrays of objects that differ, mixed types, explicit nulls included, and
\* never calls nullable what was there in each.
Truthful == [answer \in {a \in Answers : Usable(a)} |->
    LET tree == Infer(<< answer.document >>)
    IN  \A path \in DOMAIN tree :
            Describes(tree[path], ValuesAt(answer.document, path), ThereAt(answer.document, path))]

TreeDescribesAnswer ==
    \A r \in Requests : req[r].answer \in DOMAIN Truthful => Truthful[req[r].answer]

\* "The field is absent, or present and null.  Both mean 'no value', and the
\* mapping says what to do about it ... Omit the key entirely" (Apply), and "a
\* default says it can never be missing" (FieldMapping.Validate): a render fails
\* neither for an optional field nor for one with a default that this answer does
\* not have.
OptionalMayBeMissing ==
    \A r \in Requests :
        /\ req[r].status = 502 /\ req[r].answer # NoAnswer
        /\ Usable(req[r].answer)
        => \E i \in DOMAIN req[r].recipe.set :
              LET m == req[r].recipe.set[i]
              IN  m.required \/ ValuesAt(req[r].answer.document, m.path) # {Null}
================================================================================
