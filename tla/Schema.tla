--------------------------------- MODULE Schema --------------------------------
(* What a partner's answer looks like and how it is described: the parser     *)
(* (internal/responseparser) and the schema inference (internal/schemainfer). *)
(*                                                                            *)
(* A decoded document is a function from its positions to what is there.  A   *)
(* position is the sequence of steps that lead to it from the root, a key     *)
(* into an object and a number into an array.  Scalars carry no value, for    *)
(* nothing in the pipeline looks at one, except that a number keeps what its  *)
(* text tells: whether it has a point or an exponent, whether it fits the 64   *)
(* bits of an integer, and whether a float can hold it.                        *)
EXTENDS Naturals, Sequences

CONSTANTS
    Keys,              \* names of fields, quoted where a path needs it
    Item,              \* "[]", the step of a path into every element of an array
    MaxDepth,          \* levels of nesting that Decode lets through
    MaxArraySamples    \* elements of an array that are looked at

ASSUME SchemaAssumption == MaxDepth \in Nat /\ MaxArraySamples \in Nat \ {0}
ASSUME StepAssumption == Item \notin Keys /\ \A step \in Keys \cup {Item} : step \notin Nat

Null == [kind |-> "null"]
Bool == [kind |-> "boolean"]
Text == [kind |-> "string"]

\* "wide" is too large for an integer, "huge" for a float as well, and "vast" is huge
\* and has an exponent.
NumberTexts == {"digits", "wide", "huge", "point", "vast"}
Number(text) == [kind |-> "number", text |-> text]

Scalars    == {Null, Bool, Text} \cup {Number(text) : text \in NumberTexts}
Containers == {[kind |-> "object"], [kind |-> "array"]}

Prefix(p, n) == SubSeq(p, 1, n)

\* Every step of a position leads from a container that is there; the elements of an
\* array are numbered without a gap.
IsDocument(doc) ==
    /\ doc \in [DOMAIN doc -> Scalars \cup Containers]
    /\ <<>> \in DOMAIN doc /\ DOMAIN doc \subseteq Seq(Keys \cup Nat)
    /\ \A p \in DOMAIN doc : \A n \in DOMAIN p :
          /\ Prefix(p, n - 1) \in DOMAIN doc
          /\ CASE doc[Prefix(p, n - 1)].kind = "object" -> p[n] \in Keys
               [] doc[Prefix(p, n - 1)].kind = "array"  ->
                     p[n] \in Nat \ {0} /\ \A i \in 1..p[n] : Append(Prefix(p, n - 1), i) \in DOMAIN doc
               [] OTHER -> FALSE

Parts(doc, p) == {q \in DOMAIN doc : Len(q) = Len(p) + 1 /\ Prefix(q, Len(p)) = p}

\* Mutant: the bound lets one level more through.
TooDeepByOne(doc) == \E p \in DOMAIN doc : Len(p) > MaxDepth + 1

\* checkDepth: every value is a level, scalars too.
TooDeep(doc) == \E p \in DOMAIN doc : Len(p) > MaxDepth

--------------------------------------------------------------------------------
(* SchemaNode.  A tree is a function from paths to nodes.  The children of a  *)
(* node are at its path and a key, the description of an array's elements at  *)
(* its path and Item.                                                         *)

Node(type) == [type |-> type, nullable |-> type = "null",
               selectable |-> type \notin {"object", "array"}, mixed |-> {}]

numberType(text) == IF text \in {"point", "vast"} THEN "number" ELSE "integer"

TypeOf(value) == IF value.kind = "number" THEN numberType(value.text) ELSE value.kind

unionTypes(a, b) == (a.mixed \cup b.mixed \cup {a.type, b.type}) \ {"mixed"}

\* Mutant: the first type seen wins.
ReconciledFirst(a, b) ==
    IF a.type = "null" THEN [a EXCEPT !.type = b.type, !.selectable = b.selectable] ELSE a

\* The part of merge that is about the two types.
Reconciled(a, b) ==
    CASE a.type = b.type -> a
      [] a.type = "null" /\ b.type # "null" ->
            [a EXCEPT !.type = b.type, !.selectable = b.selectable, !.nullable = TRUE]
      [] b.type = "null" /\ a.type # "null" -> [a EXCEPT !.nullable = TRUE]
      [] OTHER -> [a EXCEPT !.type = "mixed", !.mixed = unionTypes(a, b),
                            !.selectable = a.selectable /\ b.selectable]

Merged(a, b) == [Reconciled(a, b) EXCEPT !.nullable = @ \/ a.nullable \/ b.nullable]

\* A node that only the second tree has.  One that it has as a child of a node of both
\* becomes nullable, what is below that child stays as it is.
Adopted(a, b, path) ==
    LET last == Len(path)
    IN  [b[path] EXCEPT !.nullable =
            @ \/ (last # 0 /\ path[last] # Item /\ Prefix(path, last - 1) \in DOMAIN a)]

\* merge: the second description is folded into the first.
merge(a, b) ==
    [path \in DOMAIN a \cup DOMAIN b |->
        IF path \notin DOMAIN a THEN Adopted(a, b, path)
        ELSE IF path \notin DOMAIN b THEN a[path]
        ELSE Merged(a[path], b[path])]

\* The descriptions of a sequence are merged from the first on.
MergeAll(trees) ==
    LET merged[i \in DOMAIN trees] == IF i = 1 THEN trees[1] ELSE merge(merged[i - 1], trees[i])
    IN  merged[Len(trees)]

clearSelectable(tree) == [path \in DOMAIN tree |-> [tree[path] EXCEPT !.selectable = FALSE]]

\* The description of an array's elements, given those of the ones looked at.
inferArrayItem(path, elements) ==
    clearSelectable(IF elements = <<>> THEN [q \in {path} |-> Node("null")]
                    ELSE MergeAll(elements))

\* The path to a position.
PathOf(p) == [i \in DOMAIN p |-> IF p[i] \in Nat THEN Item ELSE p[i]]

Elements(doc, p) == {i \in 1..MaxArraySamples : Append(p, i) \in DOMAIN doc}

\* A node over the descriptions of what is below it.
Over(path, node, trees) ==
    [q \in {path} \cup UNION {DOMAIN t : t \in trees} |->
        IF q = path THEN node ELSE (CHOOSE t \in trees : q \in DOMAIN t)[q]]

\* The value at a position, given the descriptions of its parts.
inferValue(doc, p, tree) ==
    LET path == PathOf(p)
        node == Node(TypeOf(doc[p]))
    IN  CASE doc[p].kind = "object" -> Over(path, node, {tree[q] : q \in Parts(doc, p)})
          [] doc[p].kind = "array"  ->
                Over(path, node, {inferArrayItem(Append(path, Item),
                                      [i \in Elements(doc, p) |-> tree[Append(p, i)]])})
          [] OTHER -> Over(path, node, {})

Described(doc) ==
    LET tree[p \in DOMAIN doc] == inferValue(doc, p, tree)
    IN  tree[<<>>]

Infer(samples) == MergeAll([i \in DOMAIN samples |-> Described(samples[i])])

\* What the administrator picks from: the paths of the nodes that are selectable.
Flatten(tree) == {path \in DOMAIN tree : tree[path].selectable /\ path # <<>>}

--------------------------------------------------------------------------------
(* The reference: what a path leads to, read off the document itself.         *)

\* A position on the way of a path, which enters the elements that are looked at.
Follows(p, path) ==
    /\ Len(p) <= Len(path)
    /\ \A i \in DOMAIN p : p[i] = path[i] \/ (path[i] = Item /\ p[i] \in 1..MaxArraySamples)

\* Where the ways of a path end.
Ends(doc, path) == {p \in DOMAIN doc : Follows(p, path) /\ \A q \in Parts(doc, p) : ~Follows(q, path)}

\* A way that ends early leads to nothing.
ValuesAt(doc, path) == {IF Len(p) = Len(path) THEN doc[p] ELSE Null : p \in Ends(doc, path)}

\* The values at the ends that are not early.
ThereAt(doc, path) == {doc[p] : p \in {q \in Ends(doc, path) : Len(q) = Len(path)}}

\* A node tells the truth of the values its path leads to, as far as they were
\* sampled: it has the one type they have, or is mixed if they differ; it is called
\* nullable whenever one is null, and only if one is null or not there; and it can be
\* picked only if there is one value alone, and a scalar.  That one is not there does
\* not make it nullable: merge notices a field that an earlier element lacks, and not
\* one that only earlier elements have.
Describes(node, seen, there) ==
    LET types == {TypeOf(v) : v \in seen} \ {"null"}
    IN  /\ IF node.type = "mixed" THEN (\E s, t \in types : s # t) /\ node.mixed \subseteq types
           ELSE types = {node.type} \ {"null"}
        /\ Null \in there => node.nullable
        /\ node.nullable => Null \in seen
        /\ node.selectable => \E v \in Scalars : seen = {v}
================================================================================
