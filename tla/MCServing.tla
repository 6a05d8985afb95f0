-------------------------------- MODULE MCServing ------------------------------
(* A small instance of Serving: one pipeline about a product.                *)
EXTENDS Serving, TLC

CONSTANTS
    r1, r2,
    name, price, stock, id, top, net, lists, deep,
    empty, ids, nulls, mixed, leading, nested,
    twice, once, back

MCKeys == {name, price, stock, id, top, net, lists, deep,
           empty, ids, nulls, mixed, leading, nested, twice, once, back}

\* Three names of a field, a letter b after two backslashes, after one, and a backspace:
\* between quotes the first is read as the second, the second as the third, and the
\* third may not stand there.
MCReadAs == [key \in MCKeys |-> CASE key = twice -> once
                                  [] key = once  -> back
                                  [] key = back  -> Unreadable
                                  [] OTHER -> key]

--------------------------------------------------------------------------------
(* Documents from the documents of their parts.                              *)

Leaf(scalar) == << >> :> scalar

Container(kind, parts) ==
    Leaf([kind |-> kind]) @@
    [p \in UNION {{<< k >> \o q : q \in DOMAIN parts[k]} : k \in DOMAIN parts} |->
        parts[Head(p)][Tail(p)]]

Object(fields) == Container("object", fields)
Array(items)   == Container("array", items)

--------------------------------------------------------------------------------
(* What the partner answers.                                                 *)

Ok(document) == [sent |-> TRUE, status |-> 200, media |-> "json", body |-> "json",
                 document |-> document]

Tag(value) == Object(id :> Leaf(value))
Tagged     == Object(id :> Leaf(Number("digits")) @@ top :> Leaf(Bool))

\* An array of every shape that the inference tells apart.
Lists == Object(
    empty   :> Array(<<>>) @@
    ids     :> Array(<< Tagged, Tag(Null) >>) @@
    nulls   :> Array(<< Tag(Null), Tagged >>) @@
    mixed   :> Array(<< Tag(Number("point")), Leaf(Text), Tag(Text) >>) @@
    leading :> Array(<< Leaf(Null), Tagged, Leaf(Text) >>) @@
    nested  :> Array(<< Array(<<>>), Array(<< Leaf(Text), Leaf(Bool) >>) >>))

Product(value) == name :> Leaf(Text) @@ price :> Leaf(value) @@ stock :> Leaf(Number("digits"))

\* Fields whose names are not read back as they are.
Escaped == twice :> Leaf(Bool) @@ back :> Leaf(Text)

\* As deep as may be, and one level deeper.
Nested(depth) == LET array[n \in 0..depth] == IF n = 0 THEN Leaf(Bool) ELSE Array(<< array[n - 1] >>)
                 IN  array[depth]
Deep   == Object(net :> Nested(3))
Deeper == Object(net :> Nested(4))

Unpriced == Ok(Object(name :> Leaf(Text) @@ stock :> Leaf(Null)))

MCAnswers ==
    {Ok(Object(Product(Number(t)))) : t \in {"huge", "point"}}
    \cup {Ok(Object(Product(Number("digits")) @@ Escaped)),
          Ok(Object(Product(Number("wide")) @@ lists :> Lists @@ deep :> Deep)),
          Ok(Object(Product(Number("digits")) @@ deep :> Deeper)),
          Unpriced,
          [Unpriced EXCEPT !.sent = FALSE],
          [Unpriced EXCEPT !.status = 404]}

--------------------------------------------------------------------------------
(* What administrators select.                                               *)

Field(output, path, type, required, default) ==
    [output |-> output, path |-> path, type |-> type, required |-> required,
     default |-> default, label |-> "fits", order |-> 0]

Title == Field("title", <<name>>, "string", TRUE, NoDefault)
Price(type, required, default) == Field("price", <<price>>, type, required, default)
Whole == Price("integer", TRUE, NoDefault)
Stock == Field("stock", <<stock>>, "integer", FALSE, Number("digits"))
Twice == Field("title", <<twice>>, "boolean", FALSE, NoDefault)
Tags  == Field("stock", <<lists, ids, Item, id>>, "integer", FALSE, NoDefault)

\* Turned away by each check in turn, so never saved.
Refused == { <<>>, << [Title EXCEPT !.type = "boolean"] >>, << Whole, Whole >>, << Tags >>,
             << Field("title", <<back>>, "string", FALSE, NoDefault) >>,
             << Price("array", TRUE, NoDefault) >>,
             << Price("integer", TRUE, Number("digits")) >>,
             << Price("integer", FALSE, Text) >>,
             << [Whole EXCEPT !.output = "9lives"] >>,
             << [Whole EXCEPT !.path = <<>>] >>,
             << [Whole EXCEPT !.label = "long"] >>,
             << [Whole EXCEPT !.order = -1] >> }

Recipe(set, needs, secret) == [set |-> set, needs |-> needs, secret |-> secret]

MCRecipes == {Recipe(set, {}, FALSE) : set \in Refused}
             \cup {Recipe(<< Title, Whole >>, {"id"}, FALSE),
                   Recipe(<< Price("number", FALSE, NoDefault), Stock, Twice >>, {"id"}, FALSE),
                   Recipe(<< Title >>, {}, TRUE)}

MCParamSets == { {}, {"id"} }

\* ResolveAnswer, tabulated.
Outcomes == [x \in (MCRecipes \cup {WithoutSelection(recipe) : recipe \in MCRecipes}) \X MCAnswers |->
                ResolveAnswer(x[1], x[2])]
MCResolve(recipe, answer) == Outcomes[recipe, answer]
================================================================================
