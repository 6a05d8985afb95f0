-------------------------------- MODULE Rendering ------------------------------
(* The stages of one render in their order (internal/resolver), over what the *)
(* partner answers, with the checks of the answer (fetcher.CheckJSON and      *)
(* responseparser.Decode).                                                    *)
(*                                                                            *)
(* An answer is a record with sent, whether the call came back at all;        *)
(* status; media, the content type; and body: "empty", "malformed", or        *)
(* "json" with its document.  A recipe has the parameters its request needs,  *)
(* whether it refers to a credential, and its selection.                      *)
EXTENDS Mappings

CONSTANTS
    NilSet,      \* a nil slice of mappings
    NilOutput    \* a nil map: "output": null

CheckJSON(answer) ==
    IF answer.status \notin 200..299 THEN "ErrUnexpectedStatus"
    ELSE IF answer.media \notin {"none", "json", "+json"} THEN "ErrUnexpectedType"
    ELSE "ok"

Decode(answer) ==
    CASE answer.body = "empty"     -> "ErrEmptyBody"
      [] answer.body = "malformed" -> "ErrInvalidJSON"
      [] OTHER -> Check(~TooDeep(answer.document), "ErrTooDeep")

Usable(answer) == answer.sent /\ CheckJSON(answer) = "ok" /\ Decode(answer) = "ok"

Failed(error) == [err |-> error, output |-> NoFields]

\* BuildRequest, as far as parameters go: each is required, and no other known.
BuildsWith(recipe, params) == params = recipe.needs

\* Resolve: without a selection it stops after discovery and succeeds; with one, the
\* selection is checked against this very answer before it is applied to it.
ResolveAnswer(recipe, answer) ==
    LET tree    == Infer(<< answer.document >>)
        refused == FirstError(<< ValidateSet(recipe.set),
                                 ValidateAgainstSchema(tree, recipe.set) >>)
    IN  IF ~answer.sent THEN Failed("ErrRequestFailed")
        ELSE IF CheckJSON(answer) # "ok" THEN Failed(CheckJSON(answer))
        ELSE IF Decode(answer) # "ok" THEN Failed(Decode(answer))
        ELSE IF recipe.set = NilSet THEN [err |-> "ok", output |-> NilOutput]
        ELSE IF refused # "ok" THEN Failed(refused)
        ELSE Apply(recipe.set, answer.document)

\* MissingSecrets, for a service without a secret store.
RefersToSecret(recipe) == recipe.secret

\* GetVersion, when the mapping rows of the version have gone since its first query.
WithoutSelection(recipe) == [recipe EXCEPT !.set = NilSet]

NoRendering == NilOutput
================================================================================
