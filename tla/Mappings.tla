-------------------------------- MODULE Mappings -------------------------------
(* The fields an administrator selected and what becomes of them: the checks *)
(* of a selection and its application to an answer (internal/mappings).      *)
(*                                                                           *)
(* A selection is a sequence of mappings, records with output, the name in   *)
(* the result; path; type; required; default, a scalar or NoDefault; order   *)
(* and label, "fits" or "long".                                              *)
EXTENDS Integers, Schema

CONSTANTS
    OutputNames,    \* names that fit the pattern and the length
    ReadAs,         \* the key that a key's text in an expression is read back as, or ...
    Unreadable      \* ... the expression does not parse

\* joinJMES escapes the quotes of a key and not its backslashes, and JMESPath reads
\* what is between quotes as JSON does: a backslash starts an escape, and neither an
\* unknown one nor a control character may stand there.
ASSUME ReadingAssumption ==
    ReadAs \in [Keys -> Keys \cup {Unreadable}] /\ Unreadable \notin Keys \cup {Item}

DataTypes == {"string", "integer", "number", "boolean"}
NoDefault == [kind |-> "none"]
NoValue   == [kind |-> "absent"]
NoFields  == [name \in {} |-> {}]

\* Int64 and Float64 read the text of a number.
Coerces(type, value) ==
    CASE type = "integer" -> value.kind = "number" /\ value.text = "digits"
      [] type = "number"  -> value.kind = "number" /\ value.text \notin {"huge", "vast"}
      [] OTHER -> type = value.kind

--------------------------------------------------------------------------------
(* Each check yields the name of the error it ends with, or "ok".            *)

Check(passes, error) == IF passes THEN "ok" ELSE error

\* The first error of a sequence of them, or "ok".
FirstError(errors) ==
    LET bad == {i \in DOMAIN errors : errors[i] # "ok"}
    IN  IF bad = {} THEN "ok" ELSE errors[CHOOSE i \in bad : \A j \in bad : i <= j]

Validate(m) == FirstError(<<
    Check(m.output \in OutputNames, "ErrInvalidOutputName"),
    Check(m.path # <<>>, "ErrEmptySourcePath"),
    Check(m.type \in DataTypes, "ErrInvalidDataType"),
    Check(m.label = "fits", "ErrDisplayLabelTooLong"),
    Check(m.order >= 0, "ErrNegativeSortOrder"),
    Check(~m.required \/ m.default = NoDefault, "ErrRequiredWithDefault"),
    Check(m.default = NoDefault \/ Coerces(m.type, m.default), "ErrBadDefault") >>)

ValidateSet(set) ==
    IF set = <<>> THEN "ErrEmptySet"
    ELSE FirstError([i \in DOMAIN set |->
            FirstError(<< Validate(set[i]),
                          Check(\A j \in 1..i-1 : set[j].output # set[i].output,
                                "ErrDuplicateOutputName") >>)])

typeMatches(declared, discovered) ==
    \/ declared = discovered
    \/ declared = "number" /\ discovered = "integer"

ValidateAgainstSchema(tree, set) ==
    FirstError([i \in DOMAIN set |->
        LET path == set[i].path
        IN  IF path \notin Flatten(tree) THEN "ErrUnknownSourcePath"
            ELSE IF tree[path].type = "null" THEN "ErrUntypedField"
            ELSE Check(typeMatches(set[i].type, tree[path].type), "ErrTypeMismatch")])

\* The path that the expression made of a path says.
Reading(path) == [i \in DOMAIN path |-> IF path[i] \in Keys THEN ReadAs[path[i]] ELSE path[i]]

Parses(path)  == \A i \in DOMAIN path : Reading(path)[i] # Unreadable
Legible(path) == Reading(path) = path

\* jmespath.Search for a path of keys whose expression parses: null where it leads nowhere.
Search(path, doc) == IF Reading(path) \in DOMAIN doc THEN doc[Reading(path)] ELSE Null

\* Mutant: a value that does not coerce is left out, as a missing one is.
AppliedLeniently(m, response) ==
    LET raw == Search(m.path, response)
    IN  [err |-> "ok",
         value |-> IF raw # Null /\ Coerces(m.type, raw) THEN [type |-> m.type, of |-> raw]
                   ELSE NoValue]

\* What Apply does with one mapping: the value it puts under its name, or none,
\* or the error.  A default and a live value come out as the same type.
Applied(m, response) ==
    LET raw == Search(m.path, response)
        Yields(value) == [err |-> "ok", value |-> value]
        Fails(error)  == [err |-> error, value |-> NoValue]
    IN  IF ~Parses(m.path) THEN Fails("ErrEvaluate")
        ELSE IF raw = Null
        THEN IF m.default # NoDefault THEN Yields([type |-> m.type, of |-> m.default])
             ELSE IF m.required THEN Fails("ErrRequiredFieldMissing")
             ELSE Yields(NoValue)
        ELSE IF Coerces(m.type, raw) THEN Yields([type |-> m.type, of |-> raw])
             ELSE Fails("ErrWrongRuntimeType")

Apply(set, response) ==
    LET done == [i \in DOMAIN set |-> Applied(set[i], response)]
        err  == FirstError([i \in DOMAIN set |-> done[i].err])
        held == {i \in DOMAIN set : done[i].value # NoValue}
    IN  [err |-> err,
         output |-> IF err # "ok" THEN NoFields
                    ELSE [name \in {set[i].output : i \in held} |->
                             done[CHOOSE i \in held : set[i].output = name].value]]
================================================================================
