------------------------------ MODULE ServingProofs ----------------------------
(* For any documents and selections: the field tree tells the truth of the    *)
(* answer it was inferred from, and a render that succeeds holds what was     *)
(* promised.  Trees are built from the deepest positions up, and what holds   *)
(* of a position if it holds of its parts holds of all; merging is shown to   *)
(* keep what a tree says true of the values of both.                          *)
EXTENDS Serving, RenderdProofs, WellFoundedInduction

--------------------------------------------------------------------------------
(* Numbers.                                                                   *)

\* A set of natural numbers has a least member.
LEMMA LeastMember ==
    ASSUME NEW T, T \subseteq Nat, T # {}
    PROVE  \E n \in T : \A m \in T : n <= m
<1> DEFINE R == {pair \in Nat \X Nat : pair[1] < pair[2]}
<1>1. IsWellFoundedOn(R, Nat)
  <2>1. OpToRel(<, Nat) = R
    BY Zenon DEF OpToRel
  <2> QED
    BY NatLessThanWellFounded, <2>1, Zenon
<1>2. ASSUME NEW m \in Nat, NEW n \in Nat, <<m, n>> \notin R PROVE n <= m
  <2>1. ~(m < n)
    BY <1>2
  <2> QED
    BY <2>1
<1> HIDE DEF R
<1>3. PICK n \in T : \A m \in T : <<m, n>> \notin R
  BY <1>1, WFMin
<1> QED
  BY <1>2, <1>3

\* A bounded one has a greatest.
LEMMA GreatestMember ==
    ASSUME NEW T, NEW bound \in Nat, T \subseteq 0..bound, T # {}
    PROVE  \E n \in T : \A m \in T : m <= n
<1> DEFINE U == {bound - n : n \in T}
<1>1. U \subseteq Nat /\ U # {}
  <2>1. \A n \in 0..bound : bound - n \in Nat
    OBVIOUS
  <2> QED
    BY <2>1
<1>2. PICK least \in U : \A m \in U : least <= m
  <2> HIDE DEF U
  <2> QED
    BY <1>1, LeastMember
<1>3. PICK n \in T : least = bound - n
  OBVIOUS
<1>4. ASSUME NEW m \in T PROVE m <= n
  <2>1. bound - n <= bound - m
    BY <1>2, <1>3
  <2>2. m \in Nat /\ n \in Nat
    OBVIOUS
  <2> QED
    BY <2>1, <2>2
<1> QED
  BY <1>4

\* Induction.
LEMMA EveryNumber ==
    ASSUME NEW T, 0 \in T, \A n \in Nat : n \in T => n + 1 \in T
    PROVE  Nat \subseteq T
<1>1. SUFFICES ASSUME Nat \ T # {} PROVE FALSE
  OBVIOUS
<1>2. PICK n \in Nat \ T : \A m \in Nat \ T : n <= m
  BY <1>1, LeastMember
<1>3. n # 0 /\ n - 1 \in Nat /\ ~(n <= n - 1)
  OBVIOUS
<1>4. n - 1 \in T
  BY <1>2, <1>3
<1>5. (n - 1) + 1 \in T
  BY <1>3, <1>4
<1> QED
  BY <1>5

--------------------------------------------------------------------------------
(* Positions.                                                                 *)

LEMMA SameSequence ==
    ASSUME NEW S, NEW p \in Seq(S), NEW q \in Seq(S), Len(p) = Len(q),
           \A i \in 1..Len(p) : p[i] = q[i]
    PROVE  p = q
OBVIOUS

LEMMA Positions ==
    ASSUME NEW doc, IsDocument(doc), NEW p \in DOMAIN doc
    PROVE  p \in Seq(Keys \cup Nat) /\ Len(p) \in Nat /\ DOMAIN p = 1..Len(p)
BY DEF IsDocument

\* A part is one step longer.
LEMMA PartIsLonger ==
    ASSUME NEW doc, IsDocument(doc), NEW p \in DOMAIN doc, NEW q \in Parts(doc, p)
    PROVE  /\ q \in DOMAIN doc /\ Len(q) = Len(p) + 1
           /\ q \in Seq(Keys \cup Nat)
           /\ \A i \in DOMAIN p : q[i] = p[i]
<1>1. q \in DOMAIN doc /\ Len(q) = Len(p) + 1 /\ Prefix(q, Len(p)) = p
  BY DEF Parts
<1>2. p \in Seq(Keys \cup Nat) /\ q \in Seq(Keys \cup Nat)
  BY <1>1 DEF IsDocument
<1>3. \A i \in 1..Len(p) : Prefix(q, Len(p))[i] = q[i]
  BY <1>1, <1>2 DEF Prefix
<1> QED
  BY <1>1, <1>2, <1>3

\* What one step leads to is a part.
LEMMA StepIsPart ==
    ASSUME NEW doc, IsDocument(doc), NEW p \in DOMAIN doc, NEW step \in Keys \cup Nat,
           Append(p, step) \in DOMAIN doc
    PROVE  Append(p, step) \in Parts(doc, p)
<1>1. p \in Seq(Keys \cup Nat)
  BY DEF IsDocument
<1>2. Len(Append(p, step)) = Len(p) + 1
  BY <1>1
<1>3. Prefix(Append(p, step), Len(p)) = p
  BY <1>1 DEF Prefix
<1> QED
  BY <1>2, <1>3 DEF Parts

LEMMA ElementIsPart ==
    ASSUME NEW doc, IsDocument(doc), NEW p \in DOMAIN doc, NEW i \in Elements(doc, p)
    PROVE  Append(p, i) \in Parts(doc, p)
BY StepIsPart, SchemaAssumption DEF Elements, SchemaAssumption

\* What holds of a position if it holds of its parts holds of all.
LEMMA ClimbUp ==
    ASSUME NEW doc, IsDocument(doc), ~TooDeep(doc),
           NEW S, \A p \in DOMAIN doc : Parts(doc, p) \subseteq S => p \in S
    PROVE  DOMAIN doc \subseteq S
<1> SUFFICES ASSUME DOMAIN doc \ S # {} PROVE FALSE
  OBVIOUS
<1> DEFINE depths == {Len(p) : p \in DOMAIN doc \ S}
<1>1. \A p \in DOMAIN doc : Len(p) \in 0..MaxDepth
  BY Positions, SchemaAssumption DEF TooDeep, SchemaAssumption
<1>2. PICK n \in depths : \A m \in depths : m <= n
  <2>1. depths \subseteq 0..MaxDepth /\ depths # {}
    BY <1>1
  <2> HIDE DEF depths
  <2> QED
    BY <2>1, GreatestMember, SchemaAssumption DEF SchemaAssumption
<1>3. PICK p \in DOMAIN doc \ S : Len(p) = n
  OBVIOUS
<1>4. ASSUME NEW q \in Parts(doc, p) PROVE q \in S
  <2>1. q \in DOMAIN doc /\ Len(q) = n + 1
    BY <1>3, PartIsLonger
  <2>2. ~(n + 1 <= n)
    BY <1>1, <1>3
  <2> QED
    BY <1>2, <2>1, <2>2
<1> QED
  BY <1>3, <1>4

--------------------------------------------------------------------------------
(* The tree of a document.                                                    *)

\* A description goes by the descriptions of the parts alone.
LEMMA PartsDecide ==
    ASSUME NEW doc, IsDocument(doc), NEW p \in DOMAIN doc, NEW f, NEW g,
           \A q \in Parts(doc, p) : f[q] = g[q]
    PROVE  inferValue(doc, p, f) = inferValue(doc, p, g)
<1>1. {f[q] : q \in Parts(doc, p)} = {g[q] : q \in Parts(doc, p)}
  OBVIOUS
<1>2. [i \in Elements(doc, p) |-> f[Append(p, i)]] = [i \in Elements(doc, p) |-> g[Append(p, i)]]
  BY ElementIsPart
<1> QED
  BY <1>1, <1>2, Zenon DEF inferValue

TreeOf(doc) == CHOOSE tree : tree = [p \in DOMAIN doc |-> inferValue(doc, p, tree)]

LEMMA TreeExists ==
    ASSUME NEW doc, IsDocument(doc), ~TooDeep(doc)
    PROVE  \E tree : tree = [p \in DOMAIN doc |-> inferValue(doc, p, tree)]
<1> DEFINE Deep(n) == {p \in DOMAIN doc : Len(p) + n > MaxDepth}
           Known   == {n \in Nat : \E f : f = [p \in Deep(n) |-> inferValue(doc, p, f)]}
<1>1. 0 \in Known
  <2>1. Deep(0) = {}
    BY Positions, SchemaAssumption DEF TooDeep, SchemaAssumption
  <2> DEFINE f == [p \in {} |-> {}]
  <2>2. f = [p \in Deep(0) |-> inferValue(doc, p, f)]
    BY <2>1, Zenon
  <2> QED
    BY <2>2
<1>2. ASSUME NEW n \in Nat, n \in Known PROVE n + 1 \in Known
  <2>1. PICK f : f = [p \in Deep(n) |-> inferValue(doc, p, f)]
    BY <1>2
  <2> DEFINE g == [p \in Deep(n + 1) |-> inferValue(doc, p, f)]
  <2>2. Deep(n) \subseteq Deep(n + 1)
    BY Positions, SchemaAssumption DEF SchemaAssumption
  <2>3. \A p \in Deep(n + 1) : Parts(doc, p) \subseteq Deep(n)
    BY Positions, PartIsLonger, SchemaAssumption DEF SchemaAssumption
  <2> HIDE DEF Deep, Known
  <2>4. \A q \in Deep(n) : f[q] = inferValue(doc, q, f)
    BY <2>1, Zenon
  <2>5. \A q \in Deep(n) : f[q] = g[q]
    BY <2>2, <2>4
  <2>6. ASSUME NEW p \in Deep(n + 1) PROVE inferValue(doc, p, f) = inferValue(doc, p, g)
    <3>1. p \in DOMAIN doc
      BY DEF Deep
    <3> HIDE DEF g
    <3> QED
      BY <2>3, <2>5, <3>1, PartsDecide
  <2>7. g = [p \in Deep(n + 1) |-> inferValue(doc, p, g)]
    <3>1. [p \in Deep(n + 1) |-> inferValue(doc, p, f)] = [p \in Deep(n + 1) |-> inferValue(doc, p, g)]
      <4> HIDE DEF g
      <4> QED
        BY <2>6, Zenon
    <3> QED
      BY <3>1, Zenon DEF g
  <2>8. n + 1 \in Nat
    OBVIOUS
  <2> QED
    BY <2>7, <2>8, Zenon DEF Known
<1>3. MaxDepth + 1 \in Known
  <2> HIDE DEF Known
  <2>1. Nat \subseteq Known
    BY <1>1, <1>2, EveryNumber
  <2> QED
    BY <2>1, SchemaAssumption DEF SchemaAssumption
<1>4. Deep(MaxDepth + 1) = DOMAIN doc
  <2>1. \A n \in Nat : n + (MaxDepth + 1) > MaxDepth
    BY SchemaAssumption DEF SchemaAssumption
  <2> QED
    BY <2>1, Positions
<1> QED
  BY <1>3, <1>4, Zenon

\* Each position is described from the descriptions of its parts.
LEMMA TreeIs ==
    ASSUME NEW doc, IsDocument(doc), ~TooDeep(doc)
    PROVE  /\ \A p \in DOMAIN doc : TreeOf(doc)[p] = inferValue(doc, p, TreeOf(doc))
           /\ Described(doc) = TreeOf(doc)[<<>>]
<1> DEFINE tree == TreeOf(doc)
<1>1. tree = [p \in DOMAIN doc |-> inferValue(doc, p, tree)]
  BY TreeExists, Zenon DEF TreeOf
<1>2. Described(doc) = tree[<<>>]
  BY Zenon DEF Described, TreeOf
<1> HIDE DEF tree
<1>3. \A p \in DOMAIN doc : tree[p] = inferValue(doc, p, tree)
  BY <1>1, Zenon
<1> QED
  BY <1>2, <1>3 DEF tree

--------------------------------------------------------------------------------
(* The ways of a path, from a position on it.                                 *)

Paths == Seq(Keys \cup {Item})

Values == Scalars \cup Containers

Extends(q, p) == Len(p) <= Len(q) /\ \A i \in DOMAIN p : q[i] = p[i]

EndsBelow(doc, p, path) == {q \in Ends(doc, path) : Extends(q, p)}

SeenBelow(doc, p, path) ==
    {IF Len(q) = Len(path) THEN doc[q] ELSE Null : q \in EndsBelow(doc, p, path)}

Onward(doc, p, path) == {q \in Parts(doc, p) : Follows(q, path)}

LEMMA SeenFromRoot ==
    ASSUME NEW doc, IsDocument(doc), NEW path
    PROVE  SeenBelow(doc, <<>>, path) = ValuesAt(doc, path)
<1>1. ASSUME NEW q \in Ends(doc, path) PROVE Extends(q, <<>>)
  <2>1. Len(q) \in Nat
    BY Positions DEF Ends
  <2> QED
    BY <2>1 DEF Extends
<1>2. EndsBelow(doc, <<>>, path) = Ends(doc, path)
  BY <1>1 DEF EndsBelow
<1> QED
  BY <1>2, Zenon DEF SeenBelow, ValuesAt

\* A position below another is it or below one of its parts.
LEMMA FirstStep ==
    ASSUME NEW doc, IsDocument(doc), NEW p \in DOMAIN doc, NEW r \in DOMAIN doc,
           Extends(r, p), r # p
    PROVE  \E q \in Parts(doc, p) : Extends(r, q)
<1>1. /\ p \in Seq(Keys \cup Nat) /\ Len(p) \in Nat /\ DOMAIN p = 1..Len(p)
      /\ r \in Seq(Keys \cup Nat) /\ Len(r) \in Nat /\ DOMAIN r = 1..Len(r)
  BY Positions
<1>2. Len(p) < Len(r)
  <2>1. Len(p) <= Len(r) /\ \A i \in 1..Len(p) : r[i] = p[i]
    BY <1>1 DEF Extends
  <2>2. Len(r) # Len(p)
    BY <1>1, <2>1, SameSequence
  <2>3. \A m, n \in Nat : m <= n /\ n # m => m < n
    OBVIOUS
  <2> QED
    BY <1>1, <2>1, <2>2, <2>3
<1> DEFINE n == Len(p) + 1
           q == Prefix(r, n)
<1>3. n \in 1..Len(r)
  BY <1>1, <1>2
<1>4. q \in Seq(Keys \cup Nat) /\ Len(q) = n /\ \A i \in 1..n : q[i] = r[i]
  BY <1>1, <1>3 DEF Prefix
<1>5. q \in DOMAIN doc
  <2>1. CASE n = Len(r)
    <3> HIDE DEF q
    <3>1. Len(q) = Len(r) /\ \A i \in 1..Len(r) : q[i] = r[i]
      BY <1>4, <2>1
    <3>2. q = r
      BY <1>1, <1>4, <3>1
    <3> QED
      BY <3>2
  <2>2. CASE n # Len(r)
    <3>1. n + 1 \in DOMAIN r
      <4> HIDE DEF n
      <4>1. \A bound \in Nat : \A k \in 1..bound : k # bound => k + 1 \in 1..bound
        OBVIOUS
      <4>2. Len(r) \in Nat /\ n + 1 \in 1..Len(r)
        BY <1>1, <1>3, <2>2, <4>1
      <4> QED
        BY <1>1, <4>2
    <3>2. Prefix(r, (n + 1) - 1) \in DOMAIN doc
      BY <3>1 DEF IsDocument
    <3>3. (n + 1) - 1 = n
      BY <1>1
    <3> QED
      BY <3>2, <3>3
  <2> QED
    BY <2>1, <2>2
<1>6. Prefix(q, Len(p)) = p
  <2> HIDE DEF q
  <2>1. /\ Prefix(q, Len(p)) \in Seq(Keys \cup Nat) /\ Len(Prefix(q, Len(p))) = Len(p)
        /\ \A i \in 1..Len(p) : Prefix(q, Len(p))[i] = q[i]
    BY <1>1, <1>4 DEF Prefix
  <2>2. \A i \in 1..Len(p) : q[i] = p[i]
    <3>1. \A i \in 1..Len(p) : r[i] = p[i]
      BY <1>1 DEF Extends
    <3>2. \A i \in 1..Len(p) : i \in 1..n
      BY <1>1
    <3> HIDE DEF n
    <3> QED
      BY <1>4, <3>1, <3>2
  <2> QED
    BY <1>1, <2>1, <2>2
<1>7. Extends(r, q)
  <2> HIDE DEF q
  <2>1. DOMAIN q = 1..n
    BY <1>4
  <2> QED
    BY <1>1, <1>3, <1>4, <2>1 DEF Extends
<1>8. q \in Parts(doc, p)
  BY <1>4, <1>5, <1>6 DEF Parts
<1> QED
  BY <1>7, <1>8

\* Whatever a position below another follows, the other follows.
LEMMA FollowsAbove ==
    ASSUME NEW doc, IsDocument(doc), NEW q \in DOMAIN doc, NEW r \in DOMAIN doc,
           Extends(r, q), NEW path \in Paths, Follows(r, path)
    PROVE  Follows(q, path)
<1>1. /\ Len(q) \in Nat /\ DOMAIN q = 1..Len(q) /\ Len(r) \in Nat /\ DOMAIN r = 1..Len(r)
      /\ Len(path) \in Nat
  BY Positions DEF Paths
<1>2. Len(q) <= Len(path) /\ DOMAIN q \subseteq DOMAIN r
  BY <1>1 DEF Follows, Extends
<1> QED
  BY <1>2 DEF Follows, Extends

LEMMA PartsExtend ==
    ASSUME NEW doc, IsDocument(doc), NEW p \in DOMAIN doc, NEW q \in Parts(doc, p)
    PROVE  /\ Extends(q, p)
           /\ \A r \in DOMAIN doc : Extends(r, q) => Extends(r, p) /\ r # p
<1>1. q \in DOMAIN doc /\ Len(q) = Len(p) + 1 /\ \A i \in DOMAIN p : q[i] = p[i]
  BY PartIsLonger
<1>2. Len(p) \in Nat /\ DOMAIN p = 1..Len(p) /\ DOMAIN q = 1..Len(q)
  BY <1>1, Positions
<1>3. ASSUME NEW r \in DOMAIN doc, Extends(r, q) PROVE Extends(r, p) /\ r # p
  <2>1. Len(r) \in Nat
    BY Positions
  <2>2. Len(p) <= Len(r) /\ Len(r) # Len(p)
    BY <1>1, <1>2, <1>3, <2>1 DEF Extends
  <2>3. DOMAIN p \subseteq DOMAIN q
    BY <1>1, <1>2
  <2> QED
    BY <1>1, <1>3, <2>2, <2>3 DEF Extends
<1> QED
  BY <1>1, <1>2, <1>3 DEF Extends

\* A way that has come as far as the path leads to what is there.
LEMMA SeenHere ==
    ASSUME NEW doc, IsDocument(doc), NEW p \in DOMAIN doc, NEW path \in Paths,
           Follows(p, path), Len(p) = Len(path)
    PROVE  SeenBelow(doc, p, path) = {doc[p]}
<1>1. Len(p) \in Nat /\ Extends(p, p)
  BY Positions DEF Extends
<1>2. ASSUME NEW q \in Parts(doc, p) PROVE ~Follows(q, path)
  <2>1. Len(q) = Len(p) + 1
    BY PartIsLonger
  <2>2. ~(Len(p) + 1 <= Len(p))
    BY <1>1
  <2> QED
    BY <2>1, <2>2 DEF Follows
<1>3. ASSUME NEW r \in EndsBelow(doc, p, path), r # p PROVE FALSE
  <2>1. r \in DOMAIN doc /\ Extends(r, p) /\ Follows(r, path)
    BY <1>3 DEF EndsBelow, Ends
  <2>2. PICK q \in Parts(doc, p) : Extends(r, q)
    BY <1>3, <2>1, FirstStep
  <2>3. q \in DOMAIN doc
    BY <2>2, PartIsLonger
  <2> QED
    BY <1>2, <2>1, <2>2, <2>3, FollowsAbove
<1>4. EndsBelow(doc, p, path) = {p}
  BY <1>1, <1>2, <1>3 DEF EndsBelow, Ends
<1> QED
  BY <1>4, Zenon DEF SeenBelow

\* One that goes no further leads to nothing.
LEMMA SeenNowhere ==
    ASSUME NEW doc, IsDocument(doc), NEW p \in DOMAIN doc, NEW path \in Paths,
           Follows(p, path), Len(p) # Len(path), Onward(doc, p, path) = {}
    PROVE  SeenBelow(doc, p, path) = {Null}
<1>1. Len(p) \in Nat /\ Extends(p, p)
  BY Positions DEF Extends
<1>2. ASSUME NEW r \in EndsBelow(doc, p, path), r # p PROVE FALSE
  <2>1. r \in DOMAIN doc /\ Extends(r, p) /\ Follows(r, path)
    BY <1>2 DEF EndsBelow, Ends
  <2>2. PICK q \in Parts(doc, p) : Extends(r, q)
    BY <1>2, <2>1, FirstStep
  <2>3. q \in DOMAIN doc
    BY <2>2, PartIsLonger
  <2>4. Follows(q, path)
    BY <2>1, <2>2, <2>3, FollowsAbove
  <2> QED
    BY <2>2, <2>4 DEF Onward
<1>3. EndsBelow(doc, p, path) = {p}
  BY <1>1, <1>2 DEF EndsBelow, Ends, Onward
<1> QED
  BY <1>3 DEF SeenBelow

\* One that goes on leads to what its next steps lead to.
LEMMA SeenOnward ==
    ASSUME NEW doc, IsDocument(doc), NEW p \in DOMAIN doc, NEW path \in Paths,
           Follows(p, path), Onward(doc, p, path) # {}
    PROVE  SeenBelow(doc, p, path) = UNION {SeenBelow(doc, q, path) : q \in Onward(doc, p, path)}
<1>1. ASSUME NEW r \in EndsBelow(doc, p, path)
      PROVE  \E q \in Onward(doc, p, path) : r \in EndsBelow(doc, q, path)
  <2>1. r \in DOMAIN doc /\ Extends(r, p) /\ Follows(r, path) /\ r \in Ends(doc, path)
    BY <1>1 DEF EndsBelow, Ends
  <2>2. r # p
    BY <2>1 DEF Ends, Onward
  <2>3. PICK q \in Parts(doc, p) : Extends(r, q)
    BY <2>1, <2>2, FirstStep
  <2>4. Follows(q, path)
    BY <2>1, <2>3, PartIsLonger, FollowsAbove
  <2> QED
    BY <2>1, <2>3, <2>4 DEF Onward, EndsBelow
<1>2. ASSUME NEW q \in Onward(doc, p, path), NEW r \in EndsBelow(doc, q, path)
      PROVE  r \in EndsBelow(doc, p, path)
  <2>1. q \in Parts(doc, p) /\ r \in DOMAIN doc /\ Extends(r, q) /\ r \in Ends(doc, path)
    BY <1>2 DEF Onward, EndsBelow, Ends
  <2>2. Extends(r, p)
    BY <2>1, PartsExtend
  <2> QED
    BY <2>1, <2>2 DEF EndsBelow
<1>3. EndsBelow(doc, p, path) = UNION {EndsBelow(doc, q, path) : q \in Onward(doc, p, path)}
  BY <1>1, <1>2
<1> DEFINE There(q) == IF Len(q) = Len(path) THEN doc[q] ELSE Null
<1>4. SeenBelow(doc, p, path) = {There(r) : r \in EndsBelow(doc, p, path)}
  BY Zenon DEF SeenBelow
<1>5. \A q \in Onward(doc, p, path) :
        SeenBelow(doc, q, path) = {There(r) : r \in EndsBelow(doc, q, path)}
  BY Zenon DEF SeenBelow
<1> HIDE DEF There
<1> QED
  BY <1>3, <1>4, <1>5

\* A path leads to something everywhere, if only to nothing.
LEMMA SeenSomething ==
    ASSUME NEW doc, IsDocument(doc), ~TooDeep(doc), NEW path \in Paths,
           NEW p \in DOMAIN doc, Follows(p, path)
    PROVE  SeenBelow(doc, p, path) # {} /\ SeenBelow(doc, p, path) \subseteq Values
<1> DEFINE Sees(q) == SeenBelow(doc, q, path) # {} /\ SeenBelow(doc, q, path) \subseteq Values
           S       == {q \in DOMAIN doc : Follows(q, path) => Sees(q)}
<1>1. ASSUME NEW q \in DOMAIN doc, Parts(doc, q) \subseteq S PROVE q \in S
  <2> SUFFICES ASSUME Follows(q, path) PROVE Sees(q)
    OBVIOUS
  <2>1. doc[q] \in Values /\ Null \in Values
    BY DEF IsDocument, Values, Scalars
  <2>2. CASE Len(q) = Len(path)
    BY <2>1, <2>2, SeenHere
  <2>3. CASE Len(q) # Len(path) /\ Onward(doc, q, path) = {}
    BY <2>1, <2>3, SeenNowhere
  <2>4. CASE Onward(doc, q, path) # {}
    <3>1. \A r \in Onward(doc, q, path) : Sees(r)
      BY <1>1 DEF Onward
    <3>2. SeenBelow(doc, q, path) = UNION {SeenBelow(doc, r, path) : r \in Onward(doc, q, path)}
      BY <2>4, SeenOnward
    <3> QED
      BY <2>4, <3>1, <3>2
  <2> QED
    BY <2>2, <2>3, <2>4
<1>2. DOMAIN doc \subseteq S
  <2> HIDE DEF S
  <2> QED
    BY <1>1, ClimbUp
<1> QED
  BY <1>2

--------------------------------------------------------------------------------
(* Merging.                                                                   *)

KnownTypes == {"null", "boolean", "string", "integer", "number", "object", "array"}

NodeSet == [type : KnownTypes \cup {"mixed"}, nullable : BOOLEAN, selectable : BOOLEAN,
            mixed : SUBSET KnownTypes]

TypesOf(seen) == {TypeOf(v) : v \in seen} \ {"null"}

\* What is true of a node whatever may be selected.
TrueOf(node, seen) ==
    /\ node \in NodeSet
    /\ IF node.type = "mixed" THEN \E s, t \in TypesOf(seen) : s # t
       ELSE TypesOf(seen) = {node.type} \ {"null"}
    /\ node.mixed \subseteq TypesOf(seen)
    /\ node.nullable => Null \in seen

\* A tree tells the truth of what a path leads to, and has a node where it leads.
Tells(tree, path, seen) ==
    IF path \in DOMAIN tree THEN TrueOf(tree[path], seen) ELSE seen = {Null}

LEMMA TypeOfValue ==
    ASSUME NEW v \in Values
    PROVE  TypeOf(v) \in KnownTypes /\ (TypeOf(v) = "null" => v = Null)
BY DEF Values, Scalars, Containers, TypeOf, numberType, KnownTypes, Null, Bool, Text, Number

LEMMA TypesOfNull == TypesOf({Null}) = {}
BY DEF TypesOf, TypeOf, Null

LEMMA TypesOfBoth ==
    ASSUME NEW s, NEW t
    PROVE  TypesOf(s \cup t) = TypesOf(s) \cup TypesOf(t)
BY DEF TypesOf

\* Values without a type are null.
LEMMA NoTypes ==
    ASSUME NEW seen, seen # {}, seen \subseteq Values, TypesOf(seen) = {}
    PROVE  Null \in seen
BY TypeOfValue DEF TypesOf

LEMMA NodeIsTrue ==
    ASSUME NEW v \in Values
    PROVE  TrueOf(Node(TypeOf(v)), {v})
<1>1. TypeOf(v) \in KnownTypes /\ (TypeOf(v) = "null" => v = Null)
  BY TypeOfValue
<1>2. TypesOf({v}) = {TypeOf(v)} \ {"null"}
  BY DEF TypesOf
<1>3. TypeOf(v) # "mixed"
  BY <1>1 DEF KnownTypes
<1> HIDE DEF TypeOf
<1> QED
  BY <1>1, <1>2, <1>3 DEF TrueOf, Node, NodeSet

\* Two nodes that tell the truth are merged to one that tells it of the values of both.
LEMMA MergedIsTrue ==
    ASSUME NEW a, NEW b, NEW s, NEW t, TrueOf(a, s), TrueOf(b, t),
           s # {}, s \subseteq Values, t # {}, t \subseteq Values
    PROVE  TrueOf(Merged(a, b), s \cup t)
<1> DEFINE types == TypesOf(s \cup t)
           r == Reconciled(a, b)
<1>1. types = TypesOf(s) \cup TypesOf(t)
  BY TypesOfBoth
<1>2. a \in NodeSet /\ b \in NodeSet /\ TypesOf(s) \subseteq KnownTypes /\ TypesOf(t) \subseteq KnownTypes
  BY TypeOfValue DEF TrueOf, TypesOf
<1>3. "mixed" \notin KnownTypes
  BY DEF KnownTypes
<1>4. a.mixed \subseteq TypesOf(s) /\ b.mixed \subseteq TypesOf(t)
  BY DEF TrueOf
<1>5. /\ a.type = "null" => Null \in s
      /\ b.type = "null" => Null \in t
  BY NoTypes DEF TrueOf
<1>6. /\ r \in NodeSet
      /\ IF r.type = "mixed" THEN \E x, y \in types : x # y ELSE types = {r.type} \ {"null"}
      /\ r.mixed \subseteq types
      /\ r.nullable => Null \in s \cup t
  <2>1. CASE a.type = b.type
    <3>1. r = a
      BY <2>1 DEF Reconciled
    <3> HIDE DEF r
    <3> QED
      BY <1>1, <1>2, <2>1, <3>1 DEF TrueOf
  <2>2. CASE a.type = "null" /\ b.type # "null"
    <3>1. r = [a EXCEPT !.type = b.type, !.selectable = b.selectable, !.nullable = TRUE]
      BY <2>2 DEF Reconciled
    <3> HIDE DEF r
    <3>2. /\ r \in NodeSet /\ r.type = b.type /\ r.mixed = a.mixed
      BY <1>2, <3>1 DEF NodeSet
    <3>3. TypesOf(s) = {}
      BY <2>2 DEF TrueOf
    <3> QED
      BY <1>1, <1>4, <1>5, <2>2, <3>2, <3>3 DEF TrueOf
  <2>3. CASE b.type = "null" /\ a.type # "null"
    <3>1. r = [a EXCEPT !.nullable = TRUE]
      BY <2>3 DEF Reconciled
    <3> HIDE DEF r
    <3>2. /\ r \in NodeSet /\ r.type = a.type /\ r.mixed = a.mixed
      BY <1>2, <3>1 DEF NodeSet
    <3>3. TypesOf(t) = {}
      BY <2>3 DEF TrueOf
    <3> QED
      BY <1>1, <1>4, <1>5, <2>3, <3>2, <3>3 DEF TrueOf
  <2>4. CASE a.type # b.type /\ a.type # "null" /\ b.type # "null"
    <3>1. r = [a EXCEPT !.type = "mixed", !.mixed = unionTypes(a, b),
                        !.selectable = a.selectable /\ b.selectable]
      BY <2>4 DEF Reconciled
    <3> HIDE DEF r
    <3>2. /\ a.type # "mixed" => a.type \in TypesOf(s)
          /\ b.type # "mixed" => b.type \in TypesOf(t)
      BY <2>4 DEF TrueOf
    <3>3. unionTypes(a, b) \subseteq types
      BY <1>1, <1>4, <3>2 DEF unionTypes
    <3>4. /\ r.type = "mixed" /\ r.mixed = unionTypes(a, b) /\ r.nullable = a.nullable
          /\ r \in NodeSet
      BY <1>1, <1>2, <3>1, <3>3 DEF NodeSet
    <3>5. \E x, y \in types : x # y
      <4>1. CASE a.type = "mixed"
        <5>1. \E x, y \in TypesOf(s) : x # y
          BY <4>1 DEF TrueOf
        <5> QED
          BY <1>1, <5>1
      <4>2. CASE b.type = "mixed"
        <5>1. \E x, y \in TypesOf(t) : x # y
          BY <4>2 DEF TrueOf
        <5> QED
          BY <1>1, <5>1
      <4>3. CASE a.type # "mixed" /\ b.type # "mixed"
        BY <1>1, <2>4, <3>2, <4>3
      <4> QED
        BY <4>1, <4>2, <4>3
    <3>6. r.nullable => Null \in s
      BY <3>4 DEF TrueOf
    <3> QED
      BY <3>3, <3>4, <3>5, <3>6
  <2> QED
    BY <2>1, <2>2, <2>3, <2>4
<1> HIDE DEF r
<1>7. Merged(a, b) = [r EXCEPT !.nullable = r.nullable \/ a.nullable \/ b.nullable]
  BY DEF Merged, r
<1>8. /\ Merged(a, b) \in NodeSet
      /\ Merged(a, b).type = r.type /\ Merged(a, b).mixed = r.mixed
      /\ Merged(a, b).nullable = (r.nullable \/ a.nullable \/ b.nullable)
  BY <1>2, <1>6, <1>7 DEF NodeSet
<1>9. Merged(a, b).nullable => Null \in s \cup t
  BY <1>6, <1>8 DEF TrueOf
<1> QED
  BY <1>6, <1>8, <1>9 DEF TrueOf

\* Two trees that tell the truth are merged to one that tells it of the values of both.
LEMMA MergeTells ==
    ASSUME NEW a, NEW b, NEW path, NEW s, NEW t, Tells(a, path, s), Tells(b, path, t),
           s # {}, s \subseteq Values, t # {}, t \subseteq Values
    PROVE  Tells(merge(a, b), path, s \cup t)
<1>1. DOMAIN merge(a, b) = DOMAIN a \cup DOMAIN b
  BY DEF merge
<1>2. CASE path \in DOMAIN a /\ path \in DOMAIN b
  <2>1. merge(a, b)[path] = Merged(a[path], b[path])
    BY <1>2 DEF merge
  <2> QED
    BY <1>1, <1>2, <2>1, MergedIsTrue DEF Tells
<1>3. CASE path \in DOMAIN a /\ path \notin DOMAIN b
  <2>1. merge(a, b)[path] = a[path] /\ t = {Null} /\ TrueOf(a[path], s)
    BY <1>3 DEF merge, Tells
  <2>2. TypesOf(s \cup t) = TypesOf(s)
    BY <2>1, TypesOfBoth, TypesOfNull
  <2>3. TrueOf(a[path], s \cup t)
    BY <2>1, <2>2 DEF TrueOf
  <2> QED
    BY <1>1, <1>3, <2>1, <2>3 DEF Tells
<1>4. CASE path \notin DOMAIN a /\ path \in DOMAIN b
  <2>1. merge(a, b)[path] = Adopted(a, b, path) /\ s = {Null} /\ TrueOf(b[path], t)
    BY <1>4 DEF merge, Tells
  <2>2. TypesOf(s \cup t) = TypesOf(t) /\ Null \in s \cup t
    BY <2>1, TypesOfBoth, TypesOfNull
  <2>3. \E mark \in BOOLEAN : Adopted(a, b, path) = [b[path] EXCEPT !.nullable = b[path].nullable \/ mark]
    BY DEF Adopted
  <2>4. PICK mark \in BOOLEAN : Adopted(a, b, path) = [b[path] EXCEPT !.nullable = b[path].nullable \/ mark]
    BY <2>3
  <2>5. b[path] \in NodeSet
    BY <2>1 DEF TrueOf
  <2>6. /\ Adopted(a, b, path) \in NodeSet
        /\ Adopted(a, b, path).type = b[path].type /\ Adopted(a, b, path).mixed = b[path].mixed
    BY <2>4, <2>5 DEF NodeSet
  <2>7. TrueOf(Adopted(a, b, path), s \cup t)
    BY <2>1, <2>2, <2>6 DEF TrueOf
  <2> QED
    BY <1>1, <1>4, <2>1, <2>7 DEF Tells
<1>5. CASE path \notin DOMAIN a /\ path \notin DOMAIN b
  BY <1>1, <1>5 DEF Tells
<1> QED
  BY <1>2, <1>3, <1>4, <1>5

--------------------------------------------------------------------------------
(* Sequences of trees.                                                        *)

MergedOf(trees) ==
    CHOOSE merged : merged = [i \in DOMAIN trees |->
        IF i = 1 THEN trees[1] ELSE merge(merged[i - 1], trees[i])]

LEMMA MergedExists ==
    ASSUME NEW trees, NEW n \in Nat, DOMAIN trees = 1..n
    PROVE  \E merged : merged = [i \in DOMAIN trees |->
               IF i = 1 THEN trees[1] ELSE merge(merged[i - 1], trees[i])]
<1> DEFINE Step(f, i) == IF i = 1 THEN trees[1] ELSE merge(f[i - 1], trees[i])
           Known == {k \in Nat : \E f : f = [i \in 1..k |-> Step(f, i)]}
<1>1. 0 \in Known
  <2> DEFINE f == [i \in {} |-> {}]
  <2>1. 1..0 = {} /\ 0 \in Nat
    OBVIOUS
  <2>2. f = [i \in 1..0 |-> Step(f, i)]
    BY <2>1, Zenon
  <2> QED
    BY <2>1, <2>2, Zenon
<1>2. ASSUME NEW k \in Nat, k \in Known PROVE k + 1 \in Known
  <2>1. PICK f : f = [i \in 1..k |-> Step(f, i)]
    BY <1>2, Zenon
  <2> DEFINE g == [i \in 1..(k + 1) |-> Step(f, i)]
  <2>2. 1..k \subseteq 1..(k + 1) /\ k + 1 \in Nat
    OBVIOUS
  <2>3. \A i \in 1..(k + 1) : i = 1 \/ i - 1 \in 1..k
    OBVIOUS
  <2> HIDE DEF Known, Step
  <2>4. \A i \in 1..k : f[i] = Step(f, i)
    BY <2>1, Zenon
  <2>5. \A i \in 1..k : f[i] = g[i]
    BY <2>2, <2>4
  <2> HIDE DEF g
  <2>6. ASSUME NEW i \in 1..(k + 1) PROVE Step(f, i) = Step(g, i)
    BY <2>3, <2>5 DEF Step
  <2>7. [i \in 1..(k + 1) |-> Step(f, i)] = [i \in 1..(k + 1) |-> Step(g, i)]
    BY <2>6, Zenon
  <2>8. g = [i \in 1..(k + 1) |-> Step(g, i)]
    BY <2>7, Zenon DEF g
  <2> QED
    BY <2>2, <2>8, Zenon DEF Known
<1>3. n \in Known
  <2> HIDE DEF Known
  <2> QED
    BY <1>1, <1>2, EveryNumber
<1> QED
  BY <1>3, Zenon

LEMMA MergeAllIs ==
    ASSUME NEW trees, NEW n \in Nat, DOMAIN trees = 1..n, Len(trees) = n
    PROVE  /\ MergeAll(trees) = MergedOf(trees)[n]
           /\ \A i \in 1..n : MergedOf(trees)[i] =
                  IF i = 1 THEN trees[1] ELSE merge(MergedOf(trees)[i - 1], trees[i])
<1> DEFINE merged == MergedOf(trees)
<1>1. merged = [i \in DOMAIN trees |-> IF i = 1 THEN trees[1] ELSE merge(merged[i - 1], trees[i])]
  BY MergedExists, Zenon DEF MergedOf
<1>2. MergeAll(trees) = merged[Len(trees)]
  BY Zenon DEF MergeAll, MergedOf
<1> HIDE DEF merged
<1>3. \A i \in DOMAIN trees : merged[i] = IF i = 1 THEN trees[1] ELSE merge(merged[i - 1], trees[i])
  BY <1>1, Zenon
<1> QED
  BY <1>2, <1>3 DEF merged

\* What all of a sequence of trees tell is told by what they are merged to.
LEMMA MergeAllTells ==
    ASSUME NEW trees, NEW n \in Nat \ {0}, DOMAIN trees = 1..n, Len(trees) = n,
           NEW path, NEW seen,
           \A i \in 1..n : Tells(trees[i], path, seen[i]) /\ seen[i] # {} /\ seen[i] \subseteq Values
    PROVE  Tells(MergeAll(trees), path, UNION {seen[i] : i \in 1..n})
<1> DEFINE merged == MergedOf(trees)
           So(k) == UNION {seen[i] : i \in 1..k}
           Known == {k \in Nat : k \in 1..n => Tells(merged[k], path, So(k))}
<1>1. /\ MergeAll(trees) = merged[n]
      /\ \A i \in 1..n : merged[i] = IF i = 1 THEN trees[1] ELSE merge(merged[i - 1], trees[i])
  BY MergeAllIs
<1> HIDE DEF merged
<1>2. ASSUME NEW k \in Nat, k \in Known PROVE k + 1 \in Known
  <2> SUFFICES ASSUME k + 1 \in 1..n PROVE Tells(merged[k + 1], path, So(k + 1))
    OBVIOUS
  <2>1. CASE k = 0
    <3>1. 1 \in 1..n /\ 1..(k + 1) = {1} /\ k + 1 = 1
      BY <2>1
    <3>2. So(k + 1) = seen[1]
      BY <3>1
    <3>3. merged[k + 1] = trees[1]
      BY <1>1, <3>1
    <3> QED
      BY <3>1, <3>2, <3>3
  <2>2. CASE k # 0
    <3>1. k \in 1..n /\ (k + 1) - 1 = k /\ k + 1 # 1 /\ 1..(k + 1) = (1..k) \cup {k + 1} /\ 1 \in 1..k
      BY <2>2
    <3>2. Tells(merged[k], path, So(k))
      BY <1>2, <3>1
    <3>3. merged[k + 1] = merge(merged[k], trees[k + 1])
      BY <1>1, <3>1
    <3>4. So(k + 1) = So(k) \cup seen[k + 1]
      BY <3>1
    <3>5. So(k) # {} /\ So(k) \subseteq Values
      <4>1. \A i \in 1..k : i \in 1..n
        BY <3>1
      <4> QED
        BY <3>1, <4>1
    <3> HIDE DEF So
    <3> QED
      BY <3>2, <3>3, <3>4, <3>5, MergeTells
  <2> QED
    BY <2>1, <2>2
<1>3. 0 \in Known
  OBVIOUS
<1>4. n \in Known
  <2> HIDE DEF Known
  <2> QED
    BY <1>2, <1>3, EveryNumber
<1>5. Tells(merged[n], path, So(n))
  BY <1>4
<1> QED
  BY <1>1, <1>5

\* What they are merged to has the paths of all.
LEMMA MergeAllPaths ==
    ASSUME NEW trees, NEW n \in Nat \ {0}, DOMAIN trees = 1..n, Len(trees) = n,
           NEW S, \A i \in 1..n : DOMAIN trees[i] \subseteq S
    PROVE  DOMAIN MergeAll(trees) \subseteq S
<1> DEFINE merged == MergedOf(trees)
           Known == {k \in Nat : k \in 1..n => DOMAIN merged[k] \subseteq S}
<1>1. /\ MergeAll(trees) = merged[n]
      /\ \A i \in 1..n : merged[i] = IF i = 1 THEN trees[1] ELSE merge(merged[i - 1], trees[i])
  BY MergeAllIs
<1> HIDE DEF merged
<1>2. ASSUME NEW k \in Nat, k \in Known PROVE k + 1 \in Known
  <2> SUFFICES ASSUME k + 1 \in 1..n PROVE DOMAIN merged[k + 1] \subseteq S
    OBVIOUS
  <2>1. CASE k = 0
    BY <1>1, <2>1
  <2>2. CASE k # 0
    <3>1. k \in 1..n /\ (k + 1) - 1 = k /\ k + 1 # 1
      BY <2>2
    <3>2. merged[k + 1] = merge(merged[k], trees[k + 1])
      BY <1>1, <3>1
    <3>3. DOMAIN merged[k + 1] = DOMAIN merged[k] \cup DOMAIN trees[k + 1]
      BY <3>2 DEF merge
    <3> QED
      BY <1>2, <3>1, <3>3
  <2> QED
    BY <2>1, <2>2
<1>3. 0 \in Known
  OBVIOUS
<1>4. n \in Known
  <2> HIDE DEF Known
  <2> QED
    BY <1>2, <1>3, EveryNumber
<1> QED
  BY <1>1, <1>4

LEMMA MergeOne ==
    ASSUME NEW trees, DOMAIN trees = 1..1, Len(trees) = 1
    PROVE  MergeAll(trees) = trees[1]
<1>1. 1 \in Nat /\ 1 \in 1..1
  OBVIOUS
<1> QED
  BY <1>1, MergeAllIs

--------------------------------------------------------------------------------
(* Parts and their paths.                                                     *)

\* A part is one step from a container.
LEMMA PartIsStep ==
    ASSUME NEW doc, IsDocument(doc), NEW p \in DOMAIN doc, NEW q \in Parts(doc, p)
    PROVE  \E step \in Keys \cup Nat :
              /\ q = Append(p, step)
              /\ \/ doc[p].kind = "object" /\ step \in Keys
                 \/ /\ doc[p].kind = "array" /\ step \in Nat \ {0}
                    /\ \A i \in 1..step : Append(p, i) \in DOMAIN doc
<1>1. /\ q \in DOMAIN doc /\ Len(q) = Len(p) + 1 /\ q \in Seq(Keys \cup Nat)
      /\ \A i \in DOMAIN p : q[i] = p[i]
  BY PartIsLonger
<1>2. p \in Seq(Keys \cup Nat) /\ Len(p) \in Nat /\ DOMAIN p = 1..Len(p)
  BY Positions
<1> DEFINE n == Len(p) + 1
           step == q[n]
<1>3. n \in DOMAIN q /\ n - 1 = Len(p) /\ DOMAIN q = 1..n
  BY <1>1, <1>2
<1>4. Prefix(q, n - 1) = p
  BY <1>3 DEF Parts
<1>5. step \in Keys \cup Nat
  BY <1>1, <1>3
<1>6. q = Append(p, step)
  <2>1. Append(p, step) \in Seq(Keys \cup Nat) /\ Len(Append(p, step)) = n
    BY <1>2, <1>5
  <2>2. \A i \in 1..n : Append(p, step)[i] = IF i = n THEN step ELSE p[i]
    BY <1>2, <1>5
  <2>3. \A i \in 1..n : i = n \/ i \in DOMAIN p
    BY <1>2
  <2>4. \A i \in 1..n : q[i] = Append(p, step)[i]
    BY <1>1, <2>2, <2>3
  <2> HIDE DEF n, step
  <2> QED
    BY <1>1, <1>3, <2>1, <2>4, SameSequence DEF n
<1>7. (CASE doc[p].kind = "object" -> step \in Keys
         [] doc[p].kind = "array"  ->
               step \in Nat \ {0} /\ \A i \in 1..step : Append(p, i) \in DOMAIN doc
         [] OTHER -> FALSE)
  <2> HIDE DEF n
  <2> QED
    BY <1>1, <1>3, <1>4 DEF IsDocument
<1>8. \/ doc[p].kind = "object" /\ step \in Keys
      \/ /\ doc[p].kind = "array" /\ step \in Nat \ {0}
         /\ \A i \in 1..step : Append(p, i) \in DOMAIN doc
  <2> HIDE DEF step
  <2> QED
    BY <1>7
<1> QED
  BY <1>5, <1>6, <1>8

\* The elements that are looked at are the first ones.
LEMMA FirstElements ==
    ASSUME NEW doc, IsDocument(doc), NEW p \in DOMAIN doc, doc[p].kind = "array"
    PROVE  \E n \in Nat : Elements(doc, p) = 1..n
<1>1. CASE Elements(doc, p) = {}
  <2>1. 1..0 = {} /\ 0 \in Nat
    OBVIOUS
  <2> QED
    BY <1>1, <2>1
<1>2. CASE Elements(doc, p) # {}
  <2>1. Elements(doc, p) \subseteq 0..MaxArraySamples /\ MaxArraySamples \in Nat
    BY SchemaAssumption DEF Elements, SchemaAssumption
  <2>2. PICK n \in Elements(doc, p) : \A i \in Elements(doc, p) : i <= n
    BY <1>2, <2>1, GreatestMember
  <2>3. n \in 1..MaxArraySamples /\ n \in Nat
    BY <2>1, <2>2 DEF Elements
  <2>4. ASSUME NEW i \in 1..n PROVE i \in Elements(doc, p)
    <3>1. Append(p, n) \in Parts(doc, p)
      BY ElementIsPart
    <3>2. PICK step \in Keys \cup Nat :
             /\ Append(p, n) = Append(p, step) /\ \A j \in 1..step : Append(p, j) \in DOMAIN doc
      <4>1. doc[p].kind # "object"
        OBVIOUS
      <4> QED
        BY <3>1, <4>1, PartIsStep
    <3>3. step = n
      <4>1. p \in Seq(Keys \cup Nat) /\ n \in Keys \cup Nat
        BY <2>3, Positions
      <4>2. Append(p, n)[Len(p) + 1] = n /\ Append(p, step)[Len(p) + 1] = step
        BY <4>1
      <4> QED
        BY <3>2, <4>2
    <3>4. i \in 1..MaxArraySamples
      BY <2>1, <2>3
    <3> QED
      BY <3>2, <3>3, <3>4 DEF Elements
  <2>5. ASSUME NEW i \in Elements(doc, p) PROVE i \in 1..n
    BY <2>2, <2>3 DEF Elements
  <2> QED
    BY <2>3, <2>4, <2>5
<1> QED
  BY <1>1, <1>2

LEMMA PathOfPosition ==
    ASSUME NEW p \in Seq(Keys \cup Nat)
    PROVE  /\ PathOf(p) \in Paths /\ Len(PathOf(p)) = Len(p) /\ DOMAIN PathOf(p) = 1..Len(p)
           /\ \A i \in 1..Len(p) : PathOf(p)[i] = IF p[i] \in Nat THEN Item ELSE p[i]
<1>1. DOMAIN p = 1..Len(p) /\ Len(p) \in Nat
  OBVIOUS
<1>2. \A i \in 1..Len(p) : (IF p[i] \in Nat THEN Item ELSE p[i]) \in Keys \cup {Item}
  BY <1>1
<1>3. PathOf(p) = [i \in 1..Len(p) |-> IF p[i] \in Nat THEN Item ELSE p[i]]
  BY <1>1 DEF PathOf
<1>4. PathOf(p) \in [1..Len(p) -> Keys \cup {Item}]
  BY <1>2, <1>3
<1>5. PathOf(p) \in Seq(Keys \cup {Item}) /\ Len(PathOf(p)) = Len(p)
  BY <1>1, <1>4
<1> QED
  BY <1>1, <1>3, <1>5 DEF Paths

\* Whoever follows a path follows its own, of which that is a continuation.
LEMMA OwnPath ==
    ASSUME NEW p \in Seq(Keys \cup Nat), NEW path \in Paths
    PROVE  /\ Follows(p, path) => /\ Follows(p, PathOf(p))
                                 /\ \A i \in 1..Len(p) : path[i] = PathOf(p)[i]
           /\ /\ Follows(p, PathOf(p)) /\ Len(p) <= Len(path)
              /\ \A i \in 1..Len(p) : path[i] = PathOf(p)[i]
              => Follows(p, path)
<1>1. /\ DOMAIN p = 1..Len(p) /\ Len(p) \in Nat /\ DOMAIN path = 1..Len(path) /\ Len(path) \in Nat
      /\ \A i \in 1..Len(p) : p[i] \in Keys \cup Nat
      /\ \A i \in 1..Len(path) : path[i] \in Keys \cup {Item}
  BY DEF Paths
<1>2. /\ Len(PathOf(p)) = Len(p)
      /\ \A i \in 1..Len(p) : PathOf(p)[i] = IF p[i] \in Nat THEN Item ELSE p[i]
  BY PathOfPosition
<1>3. ASSUME Follows(p, path) PROVE \A i \in 1..Len(p) : path[i] = PathOf(p)[i]
  <2> SUFFICES ASSUME NEW i \in 1..Len(p) PROVE path[i] = PathOf(p)[i]
    OBVIOUS
  <2>1. p[i] = path[i] \/ (path[i] = Item /\ p[i] \in Nat)
    BY <1>1, <1>3 DEF Follows
  <2>2. path[i] \in Keys \cup {Item}
    BY <1>1, <1>3 DEF Follows
  <2> QED
    BY <1>2, <2>1, <2>2, StepAssumption DEF StepAssumption
<1>4. ASSUME Follows(p, path) PROVE Follows(p, PathOf(p))
  BY <1>1, <1>2, <1>3, <1>4 DEF Follows
<1>5. ASSUME Follows(p, PathOf(p)), Len(p) <= Len(path),
             \A i \in 1..Len(p) : path[i] = PathOf(p)[i]
      PROVE  Follows(p, path)
  BY <1>1, <1>5 DEF Follows
<1> QED
  BY <1>3, <1>4, <1>5

\* A path of the position's length that it follows is its own.
LEMMA OwnPathHere ==
    ASSUME NEW p \in Seq(Keys \cup Nat), NEW path \in Paths, Follows(p, path), Len(path) = Len(p)
    PROVE  path = PathOf(p)
<1>1. PathOf(p) \in Seq(Keys \cup {Item}) /\ path \in Seq(Keys \cup {Item}) /\ Len(PathOf(p)) = Len(p)
  BY PathOfPosition DEF Paths
<1>2. \A i \in 1..Len(path) : path[i] = PathOf(p)[i]
  BY OwnPath
<1> QED
  BY <1>1, <1>2, SameSequence

\* One more step goes on along a path if the path names it, or any element and it is
\* one that is looked at.
LEMMA StepsOn ==
    ASSUME NEW p \in Seq(Keys \cup Nat), NEW path \in Paths, Follows(p, path),
           NEW step \in Keys \cup Nat
    PROVE  Follows(Append(p, step), path) <=>
              /\ Len(path) # Len(p)
              /\ \/ path[Len(p) + 1] = step
                 \/ path[Len(p) + 1] = Item /\ step \in 1..MaxArraySamples
<1> DEFINE n == Len(p) + 1
           q == Append(p, step)
           Goes(i) == q[i] = path[i] \/ (path[i] = Item /\ q[i] \in 1..MaxArraySamples)
<1>1. /\ Len(p) \in Nat /\ DOMAIN p = 1..Len(p) /\ Len(path) \in Nat
      /\ Len(q) = n /\ DOMAIN q = 1..n /\ q[n] = step /\ \A i \in DOMAIN p : q[i] = p[i]
  BY DEF Paths
<1>2. Follows(q, path) <=> n <= Len(path) /\ \A i \in 1..n : Goes(i)
  BY <1>1 DEF Follows
<1>3. \A i \in DOMAIN p : Goes(i)
  BY <1>1 DEF Follows
<1>4. Len(p) <= Len(path)
  BY DEF Follows
<1>5. n <= Len(path) <=> Len(path) # Len(p)
  BY <1>1, <1>4
<1>6. n \in 1..n /\ \A i \in 1..n : i = n \/ i \in DOMAIN p
  BY <1>1
<1>7. (\A i \in 1..n : Goes(i)) <=> Goes(n)
  <2> HIDE DEF n, Goes
  <2> QED
    BY <1>3, <1>6
<1>8. Goes(n) <=> path[n] = step \/ (path[n] = Item /\ step \in 1..MaxArraySamples)
  BY <1>1
<1> HIDE DEF q, Goes
<1> QED
  BY <1>2, <1>5, <1>7, <1>8 DEF q

\* A step on from where a position follows its own path does so again.
LEMMA OwnPathOnward ==
    ASSUME NEW p \in Seq(Keys \cup Nat), Follows(p, PathOf(p)), NEW step \in Keys \cup Nat,
           step \in Keys \/ step \in 1..MaxArraySamples
    PROVE  Follows(Append(p, step), PathOf(Append(p, step)))
<1> DEFINE q    == Append(p, step)
           path == PathOf(q)
<1>1. /\ q \in Seq(Keys \cup Nat) /\ Len(q) = Len(p) + 1 /\ q[Len(p) + 1] = step
      /\ \A i \in 1..Len(p) : q[i] = p[i]
  OBVIOUS
<1>2. /\ path \in Paths /\ Len(path) = Len(p) + 1
      /\ \A i \in 1..Len(q) : path[i] = IF q[i] \in Nat THEN Item ELSE q[i]
  BY <1>1, PathOfPosition
<1>3. /\ Len(p) \in Nat /\ Len(p) <= Len(path) /\ Len(path) # Len(p)
      /\ Len(p) + 1 \in 1..Len(q) /\ \A i \in 1..Len(p) : i \in 1..Len(q)
  BY <1>1, <1>2
<1>4. \A i \in 1..Len(p) : PathOf(p)[i] = IF p[i] \in Nat THEN Item ELSE p[i]
  BY PathOfPosition
<1>5. path[Len(p) + 1] = IF step \in Nat THEN Item ELSE step
  BY <1>1, <1>2, <1>3
<1> HIDE DEF path, q
<1>6. \A i \in 1..Len(p) : path[i] = PathOf(p)[i]
  BY <1>1, <1>2, <1>3, <1>4
<1>7. Follows(p, path)
  BY <1>2, <1>3, <1>6, OwnPath
<1>8. step \in Keys => step \notin Nat
  BY StepAssumption DEF StepAssumption
<1>9. step \in 1..MaxArraySamples => step \in Nat
  OBVIOUS
<1> QED
  BY <1>2, <1>3, <1>5, <1>7, <1>8, <1>9, StepsOn DEF path, q

--------------------------------------------------------------------------------
(* A document's tree tells the truth.                                         *)

LEMMA OverIs ==
    ASSUME NEW path, NEW node, NEW trees
    PROVE  /\ DOMAIN Over(path, node, trees) = {path} \cup UNION {DOMAIN t : t \in trees}
           /\ Over(path, node, trees)[path] = node
BY DEF Over

LEMMA BelowOver ==
    ASSUME NEW path, NEW node, NEW trees, NEW q \in DOMAIN Over(path, node, trees), q # path
    PROVE  \E t \in trees : q \in DOMAIN t /\ Over(path, node, trees)[q] = t[q]
<1>1. q \in UNION {DOMAIN t : t \in trees}
  BY DEF Over
<1>2. \E t \in trees : q \in DOMAIN t
  BY <1>1
<1>3. Over(path, node, trees)[q] = (CHOOSE t \in trees : q \in DOMAIN t)[q]
  BY <1>1 DEF Over
<1> QED
  BY <1>2, <1>3

\* Clearing what may be selected leaves what is told.
LEMMA ClearTells ==
    ASSUME NEW tree, NEW path, NEW seen, Tells(tree, path, seen)
    PROVE  Tells(clearSelectable(tree), path, seen)
<1>1. DOMAIN clearSelectable(tree) = DOMAIN tree
  BY DEF clearSelectable
<1>2. ASSUME path \in DOMAIN tree PROVE TrueOf(clearSelectable(tree)[path], seen)
  <2>1. clearSelectable(tree)[path] = [tree[path] EXCEPT !.selectable = FALSE]
    BY <1>2 DEF clearSelectable
  <2>2. TrueOf(tree[path], seen)
    BY <1>2 DEF Tells
  <2> QED
    BY <2>1, <2>2 DEF TrueOf, NodeSet
<1> QED
  BY <1>1, <1>2 DEF Tells

\* What the tree of a position tells: it has paths that the position follows, and tells
\* the truth of all of them.
Told(doc, p) ==
    /\ DOMAIN TreeOf(doc)[p] \subseteq {path \in Paths : Follows(p, path)}
    /\ \A path \in Paths :
          Follows(p, path) => Tells(TreeOf(doc)[p], path, SeenBelow(doc, p, path))

\* A path that ends at the position itself.
LEMMA ToldHere ==
    ASSUME NEW doc, IsDocument(doc), NEW p \in DOMAIN doc, NEW trees,
           NEW path \in Paths, Follows(p, path), Len(path) = Len(p)
    PROVE  Tells(Over(PathOf(p), Node(TypeOf(doc[p])), trees), path, SeenBelow(doc, p, path))
<1>1. p \in Seq(Keys \cup Nat) /\ doc[p] \in Values
  BY Positions DEF IsDocument, Values
<1>2. path = PathOf(p)
  BY <1>1, OwnPathHere
<1>3. SeenBelow(doc, p, path) = {doc[p]}
  BY SeenHere
<1>4. TrueOf(Node(TypeOf(doc[p])), {doc[p]})
  BY <1>1, NodeIsTrue
<1> DEFINE node == Node(TypeOf(doc[p]))
           tree == Over(PathOf(p), node, trees)
<1> HIDE DEF node
<1>5. PathOf(p) \in DOMAIN tree /\ tree[PathOf(p)] = node
  <2>1. DOMAIN tree = {PathOf(p)} \cup UNION {DOMAIN t : t \in trees} /\ tree[PathOf(p)] = node
    BY OverIs, Zenon
  <2> QED
    BY <2>1
<1> HIDE DEF tree
<1>6. Tells(tree, PathOf(p), {doc[p]})
  BY <1>4, <1>5 DEF Tells, node
<1> QED
  BY <1>2, <1>3, <1>6, Zenon DEF tree, node

\* No two fields of an object are on the way of one path.
LEMMA FieldsApart ==
    ASSUME NEW doc, IsDocument(doc), NEW p \in DOMAIN doc, doc[p].kind = "object",
           NEW q \in Parts(doc, p), NEW r \in Parts(doc, p), NEW path \in Paths,
           Follows(p, path), Follows(q, path), Follows(r, path)
    PROVE  q = r
<1>1. p \in Seq(Keys \cup Nat)
  BY Positions
<1>2. ASSUME NEW part \in Parts(doc, p)
      PROVE  \E step \in Keys : part = Append(p, step) /\ step \in Keys \cup Nat
  <2>1. doc[p].kind # "array"
    OBVIOUS
  <2> QED
    BY <2>1, PartIsStep
<1>3. PICK k \in Keys : q = Append(p, k) /\ k \in Keys \cup Nat
  BY <1>2
<1>4. PICK l \in Keys : r = Append(p, l) /\ l \in Keys \cup Nat
  BY <1>2
<1>5. \A step \in Keys : step \notin 1..MaxArraySamples
  <2>1. \A step \in Keys : step \notin Nat
    BY StepAssumption DEF StepAssumption
  <2> QED
    BY <2>1
<1>6. path[Len(p) + 1] = k
  BY <1>1, <1>3, <1>5, StepsOn
<1>7. path[Len(p) + 1] = l
  BY <1>1, <1>4, <1>5, StepsOn
<1> QED
  BY <1>3, <1>4, <1>6, <1>7

\* An object's tree, if those of its fields tell the truth.
LEMMA ObjectTold ==
    ASSUME NEW doc, IsDocument(doc), ~TooDeep(doc), NEW p \in DOMAIN doc,
           doc[p].kind = "object", Follows(p, PathOf(p)),
           \A q \in Parts(doc, p) : Follows(q, PathOf(q)) => Told(doc, q)
    PROVE  Told(doc, p)
<1> DEFINE trees == {TreeOf(doc)[q] : q \in Parts(doc, p)}
           tree  == Over(PathOf(p), Node(TypeOf(doc[p])), trees)
<1>1. p \in Seq(Keys \cup Nat) /\ PathOf(p) \in Paths /\ Len(PathOf(p)) = Len(p)
  BY Positions, PathOfPosition
<1>2. TreeOf(doc)[p] = tree
  BY TreeIs, Zenon DEF inferValue
<1>3. ASSUME NEW q \in Parts(doc, p)
      PROVE  \E step \in Keys : q = Append(p, step) /\ step \in Keys \cup Nat
  <2>1. doc[p].kind # "array"
    OBVIOUS
  <2> QED
    BY <2>1, PartIsStep
<1>4. ASSUME NEW q \in Parts(doc, p) PROVE Told(doc, q)
  BY <1>1, <1>3, OwnPathOnward
<1>5. /\ DOMAIN tree = {PathOf(p)} \cup UNION {DOMAIN t : t \in trees}
      /\ \A path \in DOMAIN tree : path # PathOf(p) =>
            \E t \in trees : path \in DOMAIN t /\ tree[path] = t[path]
  <2> HIDE DEF trees
  <2>1. DOMAIN tree = {PathOf(p)} \cup UNION {DOMAIN t : t \in trees}
    BY OverIs, Zenon
  <2>2. ASSUME NEW path \in DOMAIN tree, path # PathOf(p)
        PROVE  \E t \in trees : path \in DOMAIN t /\ tree[path] = t[path]
    BY <2>2, BelowOver
  <2> QED
    BY <2>1, <2>2, Zenon
<1>6. ASSUME NEW q \in Parts(doc, p), NEW path \in DOMAIN TreeOf(doc)[q]
      PROVE  path \in Paths /\ Follows(q, path) /\ Follows(p, path)
  <2>1. path \in Paths /\ Follows(q, path)
    BY <1>4 DEF Told
  <2> QED
    BY <2>1, PartIsLonger, PartsExtend, FollowsAbove
<1>7. ASSUME NEW q \in Parts(doc, p), NEW r \in Parts(doc, p), NEW path \in Paths,
             Follows(p, path), Follows(q, path), Follows(r, path)
      PROVE  q = r
  BY <1>7, FieldsApart
<1> HIDE DEF trees, tree
<1>8. DOMAIN tree \subseteq {path \in Paths : Follows(p, path)}
  BY <1>1, <1>5, <1>6 DEF trees
<1>9. ASSUME NEW path \in Paths, Follows(p, path)
      PROVE  Tells(tree, path, SeenBelow(doc, p, path))
  <2>1. CASE Len(path) = Len(p)
    BY <1>9, <2>1, ToldHere DEF tree
  <2>2. CASE Len(path) # Len(p) /\ Onward(doc, p, path) = {}
    <3>1. SeenBelow(doc, p, path) = {Null}
      BY <1>9, <2>2, SeenNowhere
    <3>2. path \notin DOMAIN tree
      BY <1>1, <1>5, <1>6, <2>2 DEF trees, Onward
    <3> QED
      BY <3>1, <3>2 DEF Tells
  <2>3. CASE Len(path) # Len(p) /\ Onward(doc, p, path) # {}
    <3>1. PICK q \in Parts(doc, p) : Follows(q, path)
      BY <2>3 DEF Onward
    <3>2. Onward(doc, p, path) = {q}
      BY <1>7, <1>9, <3>1 DEF Onward
    <3>3. SeenBelow(doc, p, path) = SeenBelow(doc, q, path)
      <4>1. SeenBelow(doc, p, path) = UNION {SeenBelow(doc, r, path) : r \in Onward(doc, p, path)}
        BY <1>9, <2>3, SeenOnward
      <4> QED
        BY <3>2, <4>1
    <3>4. Tells(TreeOf(doc)[q], path, SeenBelow(doc, q, path))
      BY <1>4, <3>1 DEF Told
    <3>5. \A t \in trees : path \in DOMAIN t => t = TreeOf(doc)[q]
      BY <1>6, <1>7, <1>9, <3>1 DEF trees
    <3>6. TreeOf(doc)[q] \in trees
      BY DEF trees
    <3>7. path # PathOf(p)
      BY <1>1, <2>3
    <3>8. path \in DOMAIN tree <=> path \in DOMAIN TreeOf(doc)[q]
      BY <1>5, <3>5, <3>6, <3>7
    <3>9. path \in DOMAIN tree => tree[path] = TreeOf(doc)[q][path]
      BY <1>5, <3>5, <3>7
    <3> QED
      BY <3>3, <3>4, <3>8, <3>9 DEF Tells
  <2> QED
    BY <2>1, <2>2, <2>3
<1> QED
  BY <1>2, <1>8, <1>9 DEF Told

\* A scalar's.
LEMMA ScalarTold ==
    ASSUME NEW doc, IsDocument(doc), ~TooDeep(doc), NEW p \in DOMAIN doc,
           doc[p].kind \notin {"object", "array"}, Follows(p, PathOf(p))
    PROVE  Told(doc, p)
<1> DEFINE tree == Over(PathOf(p), Node(TypeOf(doc[p])), {})
<1>1. p \in Seq(Keys \cup Nat) /\ PathOf(p) \in Paths /\ Len(PathOf(p)) = Len(p)
  BY Positions, PathOfPosition
<1>2. TreeOf(doc)[p] = tree
  <2>1. doc[p].kind # "object" /\ doc[p].kind # "array"
    OBVIOUS
  <2>2. TreeOf(doc)[p] = inferValue(doc, p, TreeOf(doc))
    BY TreeIs
  <2> HIDE DEF tree
  <2> QED
    BY <2>1, <2>2 DEF inferValue, tree
<1>3. DOMAIN tree = {PathOf(p)}
  BY DEF Over
<1>4. Parts(doc, p) = {}
  BY PartIsStep
<1> HIDE DEF tree
<1>5. ASSUME NEW path \in Paths, Follows(p, path)
      PROVE  Tells(tree, path, SeenBelow(doc, p, path))
  <2>1. CASE Len(path) = Len(p)
    BY <1>5, <2>1, ToldHere DEF tree
  <2>2. CASE Len(path) # Len(p)
    <3>1. SeenBelow(doc, p, path) = {Null}
      BY <1>4, <1>5, <2>2, SeenNowhere DEF Onward
    <3>2. path # PathOf(p)
      BY <1>1, <2>2
    <3> QED
      BY <1>3, <3>1, <3>2 DEF Tells
  <2> QED
    BY <2>1, <2>2
<1> QED
  BY <1>1, <1>2, <1>3, <1>5 DEF Told

\* The description of an array's elements, if those of the elements tell the truth.
LEMMA ItemsTold ==
    ASSUME NEW doc, IsDocument(doc), ~TooDeep(doc), NEW p \in DOMAIN doc,
           doc[p].kind = "array", Follows(p, PathOf(p)),
           \A q \in Parts(doc, p) : Follows(q, PathOf(q)) => Told(doc, q),
           NEW item, item = inferArrayItem(Append(PathOf(p), Item),
                                [i \in Elements(doc, p) |-> TreeOf(doc)[Append(p, i)]])
    PROVE  /\ \A path \in DOMAIN item : path \in Paths /\ Follows(p, path) /\ Len(path) # Len(p)
                                        /\ path[Len(p) + 1] = Item
           /\ \A path \in Paths : Follows(p, path) /\ Len(path) # Len(p) =>
                 Tells(item, path, SeenBelow(doc, p, path))
<1>1. /\ p \in Seq(Keys \cup Nat) /\ PathOf(p) \in Seq(Keys \cup {Item})
      /\ Len(PathOf(p)) = Len(p) /\ Len(p) \in Nat
  BY Positions, PathOfPosition DEF Paths
<1>2. PICK n \in Nat : Elements(doc, p) = 1..n
  BY FirstElements
<1>3. ASSUME NEW i \in 1..n
      PROVE  Append(p, i) \in Parts(doc, p) /\ i \in Nat /\ i \in 1..MaxArraySamples
  BY <1>2, ElementIsPart DEF Elements
<1>4. \A step \in Keys \cup {Item} : step \notin Nat
  BY StepAssumption DEF StepAssumption
<1>5. ASSUME NEW path \in Paths, Follows(p, path), Len(path) # Len(p)
      PROVE  Onward(doc, p, path) =
                IF path[Len(p) + 1] = Item THEN {Append(p, i) : i \in 1..n} ELSE {}
  <2>1. path[Len(p) + 1] \in Keys \cup {Item}
    BY <1>1, <1>5 DEF Paths, Follows
  <2>2. ASSUME NEW q \in Onward(doc, p, path)
        PROVE  path[Len(p) + 1] = Item /\ \E i \in 1..n : q = Append(p, i)
    <3>1. q \in Parts(doc, p) /\ Follows(q, path)
      BY DEF Onward
    <3>2. PICK step \in Keys \cup Nat :
             q = Append(p, step) /\ step \in Nat \ {0} /\ \A i \in 1..step : Append(p, i) \in DOMAIN doc
      <4>1. doc[p].kind # "object"
        OBVIOUS
      <4> QED
        BY <3>1, <4>1, PartIsStep
    <3>3. path[Len(p) + 1] = step \/ (path[Len(p) + 1] = Item /\ step \in 1..MaxArraySamples)
      BY <1>1, <1>5, <3>1, <3>2, StepsOn
    <3>4. path[Len(p) + 1] = Item /\ step \in 1..MaxArraySamples
      BY <1>4, <2>1, <3>2, <3>3
    <3>5. step \in 1..step
      BY <3>2
    <3>6. step \in Elements(doc, p)
      BY <3>2, <3>4, <3>5 DEF Elements
    <3> QED
      BY <1>2, <3>2, <3>4, <3>6
  <2>3. ASSUME path[Len(p) + 1] = Item, NEW i \in 1..n PROVE Append(p, i) \in Onward(doc, p, path)
    <3>1. Follows(Append(p, i), path)
      BY <1>1, <1>3, <1>5, <2>3, StepsOn
    <3> QED
      BY <1>3, <3>1 DEF Onward
  <2> QED
    BY <2>2, <2>3
<1>6. ASSUME NEW i \in 1..n PROVE Told(doc, Append(p, i))
  BY <1>1, <1>3, OwnPathOnward
<1>7. CASE n = 0
  <2> DEFINE below == Append(PathOf(p), Item)
             null  == Node("null")
  <2>1. 1..n = {}
    BY <1>7
  <2>2. [i \in Elements(doc, p) |-> TreeOf(doc)[Append(p, i)]] = <<>>
    BY <1>2, <2>1
  <2>3. item = clearSelectable([q \in {below} |-> null])
    BY <2>2, Zenon DEF inferArrayItem
  <2>4. below \in Paths /\ Len(below) = Len(p) + 1 /\ below[Len(p) + 1] = Item
        /\ \A i \in 1..Len(p) : below[i] = PathOf(p)[i]
    BY <1>1 DEF Paths
  <2> HIDE DEF below, null
  <2>5. DOMAIN item = {below}
    BY <2>3 DEF clearSelectable
  <2>6. Len(p) <= Len(below) /\ Len(below) # Len(p)
    BY <1>1, <2>4
  <2>7. Follows(p, below)
    BY <1>1, <2>4, <2>6, OwnPath
  <2>8. TrueOf(null, {Null})
    BY NodeIsTrue DEF null, Values, Scalars, TypeOf, Null
  <2>9. Tells([q \in {below} |-> null], below, {Null})
    BY <2>8 DEF Tells
  <2>10. Tells(item, below, {Null})
    BY <2>3, <2>9, ClearTells
  <2>11. ASSUME NEW path \in Paths, Follows(p, path), Len(path) # Len(p)
         PROVE  Tells(item, path, SeenBelow(doc, p, path))
    <3>1. Onward(doc, p, path) = {}
      BY <1>5, <2>1, <2>11
    <3>2. SeenBelow(doc, p, path) = {Null}
      BY <2>11, <3>1, SeenNowhere
    <3> QED
      BY <2>5, <2>10, <3>2 DEF Tells
  <2> QED
    BY <2>4, <2>5, <2>6, <2>7, <2>11
<1>8. CASE n # 0
  <2> DEFINE trees == [i \in 1..n |-> TreeOf(doc)[Append(p, i)]]
  <2>1. n \in Nat \ {0} /\ DOMAIN trees = 1..n /\ Len(trees) = n /\ trees # <<>>
    <3>1. n \in Nat \ {0} /\ DOMAIN trees = 1..n /\ 1 \in 1..n
      BY <1>8
    <3>2. Len(trees) = n
      BY <3>1
    <3> HIDE DEF trees
    <3> QED
      BY <3>1, <3>2
  <2>2. \A i \in 1..n : trees[i] = TreeOf(doc)[Append(p, i)]
    OBVIOUS
  <2>3. [i \in Elements(doc, p) |-> TreeOf(doc)[Append(p, i)]] = trees
    BY <1>2
  <2> HIDE DEF trees
  <2>4. item = clearSelectable(MergeAll(trees))
    BY <2>1, <2>3, Zenon DEF inferArrayItem
  <2>5. DOMAIN item = DOMAIN MergeAll(trees)
    BY <2>4 DEF clearSelectable
  <2> DEFINE Within == {path \in Paths : Follows(p, path) /\ Len(path) # Len(p)
                                         /\ path[Len(p) + 1] = Item}
  <2>6. ASSUME NEW i \in 1..n, NEW path \in DOMAIN trees[i] PROVE path \in Within
    <3>1. path \in Paths /\ Follows(Append(p, i), path)
      BY <1>6, <2>2 DEF Told
    <3>2. Follows(p, path)
      BY <1>3, <3>1, PartIsLonger, PartsExtend, FollowsAbove
    <3>3. Len(path) # Len(p) /\ (path[Len(p) + 1] = i \/ path[Len(p) + 1] = Item)
      BY <1>1, <1>3, <3>1, <3>2, StepsOn
    <3>4. path[Len(p) + 1] \in Keys \cup {Item}
      BY <1>1, <3>1, <3>2, <3>3 DEF Paths, Follows
    <3> QED
      BY <1>3, <1>4, <3>1, <3>2, <3>3, <3>4
  <2>7. DOMAIN item \subseteq Within
    <3> HIDE DEF Within
    <3> QED
      BY <2>1, <2>5, <2>6, MergeAllPaths
  <2>8. ASSUME NEW path \in Paths, Follows(p, path), Len(path) # Len(p)
        PROVE  Tells(item, path, SeenBelow(doc, p, path))
    <3>1. CASE path[Len(p) + 1] # Item
      <4>1. SeenBelow(doc, p, path) = {Null}
        BY <1>5, <2>8, <3>1, SeenNowhere
      <4> QED
        BY <2>7, <3>1, <4>1 DEF Tells
    <3>2. CASE path[Len(p) + 1] = Item
      <4> DEFINE seen == [i \in 1..n |-> SeenBelow(doc, Append(p, i), path)]
      <4>1. Onward(doc, p, path) = {Append(p, i) : i \in 1..n}
        BY <1>5, <2>8, <3>2
      <4>2. 1 \in 1..n
        BY <1>8
      <4>3. SeenBelow(doc, p, path) = UNION {SeenBelow(doc, q, path) : q \in Onward(doc, p, path)}
        <5>1. Onward(doc, p, path) # {}
          BY <4>1, <4>2
        <5> QED
          BY <2>8, <5>1, SeenOnward
      <4>4. SeenBelow(doc, p, path) = UNION {seen[i] : i \in 1..n}
        BY <4>1, <4>3
      <4>5. ASSUME NEW i \in 1..n
            PROVE  Tells(trees[i], path, seen[i]) /\ seen[i] # {} /\ seen[i] \subseteq Values
        <5>1. Append(p, i) \in DOMAIN doc /\ Follows(Append(p, i), path)
          BY <1>3, <4>1, PartIsLonger DEF Onward
        <5>2. Tells(TreeOf(doc)[Append(p, i)], path, SeenBelow(doc, Append(p, i), path))
          BY <1>6, <5>1 DEF Told
        <5> QED
          BY <2>2, <5>1, <5>2, SeenSomething
      <4> HIDE DEF seen
      <4>6. Tells(MergeAll(trees), path, UNION {seen[i] : i \in 1..n})
        BY <2>1, <4>5, MergeAllTells
      <4> QED
        BY <2>4, <4>4, <4>6, ClearTells
    <3> QED
      BY <3>1, <3>2
  <2> QED
    BY <2>7, <2>8
<1> QED
  BY <1>7, <1>8

\* An array's tree, if those of its elements tell the truth.
LEMMA ArrayTold ==
    ASSUME NEW doc, IsDocument(doc), ~TooDeep(doc), NEW p \in DOMAIN doc,
           doc[p].kind = "array", Follows(p, PathOf(p)),
           \A q \in Parts(doc, p) : Follows(q, PathOf(q)) => Told(doc, q)
    PROVE  Told(doc, p)
<1> DEFINE node == Node(TypeOf(doc[p]))
           item == inferArrayItem(Append(PathOf(p), Item),
                       [i \in Elements(doc, p) |-> TreeOf(doc)[Append(p, i)]])
           tree == Over(PathOf(p), node, {item})
<1>1. p \in Seq(Keys \cup Nat) /\ PathOf(p) \in Paths /\ Len(PathOf(p)) = Len(p)
  BY Positions, PathOfPosition
<1>2. TreeOf(doc)[p] = tree
  <2>1. TreeOf(doc)[p] = inferValue(doc, p, TreeOf(doc)) /\ doc[p].kind # "object"
    BY TreeIs
  <2> QED
    BY <2>1, Zenon DEF inferValue
<1>3. /\ \A path \in DOMAIN item : path \in Paths /\ Follows(p, path) /\ Len(path) # Len(p)
      /\ \A path \in Paths : Follows(p, path) /\ Len(path) # Len(p) =>
            Tells(item, path, SeenBelow(doc, p, path))
  <2> HIDE DEF item
  <2> QED
    BY ItemsTold DEF item
<1> HIDE DEF item, node
<1>4. DOMAIN tree = {PathOf(p)} \cup DOMAIN item
  BY DEF Over
<1>5. \A path \in DOMAIN item : path # PathOf(p) => tree[path] = item[path]
  BY DEF Over
<1> HIDE DEF tree
<1>6. ASSUME NEW path \in Paths, Follows(p, path)
      PROVE  Tells(tree, path, SeenBelow(doc, p, path))
  <2>1. CASE Len(path) = Len(p)
    BY <1>6, <2>1, ToldHere DEF tree, node
  <2>2. CASE Len(path) # Len(p)
    <3>1. path # PathOf(p)
      BY <1>1, <2>2
    <3>2. Tells(item, path, SeenBelow(doc, p, path))
      BY <1>3, <1>6, <2>2
    <3> QED
      BY <1>4, <1>5, <3>1, <3>2 DEF Tells
  <2> QED
    BY <2>1, <2>2
<1> QED
  BY <1>1, <1>2, <1>3, <1>4, <1>6 DEF Told

LEMMA AllTold ==
    ASSUME NEW doc, IsDocument(doc), ~TooDeep(doc), NEW p \in DOMAIN doc, Follows(p, PathOf(p))
    PROVE  Told(doc, p)
<1> DEFINE S == {q \in DOMAIN doc : Follows(q, PathOf(q)) => Told(doc, q)}
<1>1. ASSUME NEW q \in DOMAIN doc, Parts(doc, q) \subseteq S PROVE q \in S
  <2> SUFFICES ASSUME Follows(q, PathOf(q)) PROVE Told(doc, q)
    OBVIOUS
  <2>1. \A r \in Parts(doc, q) : Follows(r, PathOf(r)) => Told(doc, r)
    BY <1>1
  <2>2. CASE doc[q].kind = "object"
    BY <2>1, <2>2, ObjectTold
  <2>3. CASE doc[q].kind = "array"
    BY <2>1, <2>3, ArrayTold
  <2>4. CASE doc[q].kind \notin {"object", "array"}
    BY <2>4, ScalarTold
  <2> QED
    BY <2>2, <2>3, <2>4
<1>2. DOMAIN doc \subseteq S
  <2> HIDE DEF S
  <2> QED
    BY <1>1, ClimbUp
<1> QED
  BY <1>2

--------------------------------------------------------------------------------
(* Nulls.                                                                     *)

\* A node that is called nullable.
Nullable(tree, path) == path \in DOMAIN tree /\ tree[path] \in NodeSet /\ tree[path].nullable

NodeAt(tree, path) == path \in DOMAIN tree => tree[path] \in NodeSet

LEMMA MergedIsNode ==
    ASSUME NEW a \in NodeSet, NEW b \in NodeSet
    PROVE  /\ Merged(a, b) \in NodeSet
           /\ a.nullable \/ b.nullable => Merged(a, b).nullable
<1> DEFINE r == Reconciled(a, b)
<1>1. r \in NodeSet
  <2>1. "mixed" \in KnownTypes \cup {"mixed"} /\ unionTypes(a, b) \subseteq KnownTypes
    BY DEF unionTypes, NodeSet
  <2> QED
    BY <2>1 DEF Reconciled, NodeSet
<1>2. Merged(a, b) = [r EXCEPT !.nullable = r.nullable \/ a.nullable \/ b.nullable]
  BY DEF Merged
<1> HIDE DEF r
<1> QED
  BY <1>1, <1>2 DEF NodeSet

\* What either tree calls nullable, both merged do.
LEMMA MergeNulls ==
    ASSUME NEW a, NEW b, NEW path, NodeAt(a, path), NodeAt(b, path)
    PROVE  /\ NodeAt(merge(a, b), path)
           /\ Nullable(a, path) \/ Nullable(b, path) => Nullable(merge(a, b), path)
<1>1. DOMAIN merge(a, b) = DOMAIN a \cup DOMAIN b
  BY DEF merge
<1>2. CASE path \in DOMAIN a /\ path \in DOMAIN b
  <2>1. merge(a, b)[path] = Merged(a[path], b[path])
    BY <1>2 DEF merge
  <2> QED
    BY <1>1, <1>2, <2>1, MergedIsNode DEF NodeAt, Nullable
<1>3. CASE path \in DOMAIN a /\ path \notin DOMAIN b
  <2>1. merge(a, b)[path] = a[path]
    BY <1>3 DEF merge
  <2> QED
    BY <1>1, <1>3, <2>1 DEF NodeAt, Nullable
<1>4. CASE path \notin DOMAIN a /\ path \in DOMAIN b
  <2>1. merge(a, b)[path] = Adopted(a, b, path)
    BY <1>4 DEF merge
  <2>2. \E mark \in BOOLEAN : Adopted(a, b, path) = [b[path] EXCEPT !.nullable = b[path].nullable \/ mark]
    BY DEF Adopted
  <2>3. PICK mark \in BOOLEAN : Adopted(a, b, path) = [b[path] EXCEPT !.nullable = b[path].nullable \/ mark]
    BY <2>2
  <2>4. b[path] \in NodeSet
    BY <1>4 DEF NodeAt
  <2>5. Adopted(a, b, path) \in NodeSet /\ (b[path].nullable => Adopted(a, b, path).nullable)
    BY <2>3, <2>4 DEF NodeSet
  <2> QED
    BY <1>1, <1>4, <2>1, <2>5 DEF NodeAt, Nullable
<1>5. CASE path \notin DOMAIN a /\ path \notin DOMAIN b
  BY <1>1, <1>5 DEF NodeAt, Nullable
<1> QED
  BY <1>2, <1>3, <1>4, <1>5

LEMMA MergeAllNulls ==
    ASSUME NEW trees, NEW n \in Nat \ {0}, DOMAIN trees = 1..n, Len(trees) = n, NEW path,
           \A i \in 1..n : NodeAt(trees[i], path),
           NEW one \in 1..n, Nullable(trees[one], path)
    PROVE  Nullable(MergeAll(trees), path)
<1> DEFINE merged == MergedOf(trees)
           Known == {k \in Nat : k \in 1..n =>
                        /\ NodeAt(merged[k], path)
                        /\ one <= k => Nullable(merged[k], path)}
<1>1. /\ MergeAll(trees) = merged[n]
      /\ \A i \in 1..n : merged[i] = IF i = 1 THEN trees[1] ELSE merge(merged[i - 1], trees[i])
  BY MergeAllIs
<1> HIDE DEF merged
<1>2. ASSUME NEW k \in Nat, k \in Known PROVE k + 1 \in Known
  <2> SUFFICES ASSUME k + 1 \in 1..n
               PROVE  /\ NodeAt(merged[k + 1], path)
                      /\ one <= k + 1 => Nullable(merged[k + 1], path)
    OBVIOUS
  <2>1. CASE k = 0
    <3>1. k + 1 = 1 /\ (one <= k + 1 => one = 1)
      BY <2>1
    <3>2. merged[k + 1] = trees[1]
      BY <1>1, <3>1
    <3> QED
      BY <3>1, <3>2
  <2>2. CASE k # 0
    <3>1. k \in 1..n /\ (k + 1) - 1 = k /\ k + 1 # 1
      BY <2>2
    <3>2. merged[k + 1] = merge(merged[k], trees[k + 1])
      BY <1>1, <3>1
    <3>3. NodeAt(merged[k], path) /\ (one <= k => Nullable(merged[k], path)) /\ NodeAt(trees[k + 1], path)
      BY <1>2, <3>1
    <3>4. one <= k + 1 => one <= k \/ one = k + 1
      OBVIOUS
    <3> QED
      BY <3>2, <3>3, <3>4, MergeNulls
  <2> QED
    BY <2>1, <2>2
<1>3. 0 \in Known
  OBVIOUS
<1>4. n \in Known
  <2> HIDE DEF Known
  <2> QED
    BY <1>2, <1>3, EveryNumber
<1>5. n \in 1..n /\ one <= n
  OBVIOUS
<1> QED
  BY <1>1, <1>4, <1>5

\* The tree of a position calls the place of every null below it nullable.
NullsTold(doc, p) ==
    \A q \in DOMAIN doc : Extends(q, p) /\ Follows(q, PathOf(q)) /\ doc[q] = Null =>
        Nullable(TreeOf(doc)[p], PathOf(q))

\* A null below a position, but not at it, is below a part of it, and so is its path.
LEMMA NullOnward ==
    ASSUME NEW doc, IsDocument(doc), NEW p \in DOMAIN doc, NEW q \in DOMAIN doc,
           Extends(q, p), q # p, Follows(q, PathOf(q)), doc[q] = Null,
           \A r \in Parts(doc, p) : Follows(r, PathOf(r)) => NullsTold(doc, r)
    PROVE  /\ PathOf(q) \in Paths /\ PathOf(q) # PathOf(p) /\ Follows(p, PathOf(q))
           /\ \E r \in Parts(doc, p) : /\ Follows(r, PathOf(q)) /\ Follows(r, PathOf(r))
                                       /\ Nullable(TreeOf(doc)[r], PathOf(q))
<1>1. /\ p \in Seq(Keys \cup Nat) /\ q \in Seq(Keys \cup Nat)
      /\ PathOf(q) \in Paths /\ Len(PathOf(q)) = Len(q) /\ Len(PathOf(p)) = Len(p)
  BY Positions, PathOfPosition
<1>2. PICK r \in Parts(doc, p) : Extends(q, r)
  BY FirstStep
<1>3. r \in DOMAIN doc /\ r \in Seq(Keys \cup Nat) /\ Len(r) = Len(p) + 1
  BY PartIsLonger
<1>4. Follows(r, PathOf(q)) /\ Follows(p, PathOf(q))
  BY <1>1, <1>2, <1>3, FollowsAbove
<1>5. Follows(r, PathOf(r))
  BY <1>1, <1>3, <1>4, OwnPath
<1>6. Len(p) # Len(q)
  <2>1. Len(p) \in Nat /\ Len(q) \in Nat /\ Len(p) + 1 <= Len(q)
    BY <1>1, <1>2, <1>3 DEF Extends
  <2> QED
    BY <2>1
<1>7. Nullable(TreeOf(doc)[r], PathOf(q))
  BY <1>2, <1>5 DEF NullsTold
<1> QED
  BY <1>1, <1>4, <1>5, <1>6, <1>7

LEMMA NullHere ==
    ASSUME NEW doc, IsDocument(doc), ~TooDeep(doc), NEW p \in DOMAIN doc, doc[p] = Null
    PROVE  Nullable(TreeOf(doc)[p], PathOf(p))
<1>1. doc[p].kind = "null"
  BY DEF Null
<1>2. TreeOf(doc)[p] = Over(PathOf(p), Node("null"), {})
  <2>1. TreeOf(doc)[p] = inferValue(doc, p, TreeOf(doc)) /\ TypeOf(doc[p]) = "null"
    BY <1>1, TreeIs DEF TypeOf
  <2> QED
    BY <1>1, <2>1 DEF inferValue
<1> DEFINE null == Node("null")
<1>3. null \in NodeSet /\ null.nullable
  BY DEF Node, NodeSet, KnownTypes
<1> HIDE DEF null
<1>4. PathOf(p) \in DOMAIN Over(PathOf(p), null, {}) /\ Over(PathOf(p), null, {})[PathOf(p)] = null
  BY DEF Over
<1> QED
  BY <1>2, <1>3, <1>4 DEF Nullable, null

LEMMA ObjectNulls ==
    ASSUME NEW doc, IsDocument(doc), ~TooDeep(doc), NEW p \in DOMAIN doc,
           doc[p].kind = "object", NEW r \in Parts(doc, p), Follows(r, PathOf(r)),
           NEW path \in Paths, Follows(p, path), Follows(r, path), path # PathOf(p),
           Nullable(TreeOf(doc)[r], path)
    PROVE  Nullable(TreeOf(doc)[p], path)
<1> DEFINE trees == {TreeOf(doc)[q] : q \in Parts(doc, p)}
           tree  == Over(PathOf(p), Node(TypeOf(doc[p])), trees)
<1>1. TreeOf(doc)[p] = tree
  BY TreeIs, Zenon DEF inferValue
<1>2. p \in Seq(Keys \cup Nat) /\ path \in DOMAIN TreeOf(doc)[r] /\ Follows(p, PathOf(p))
  BY Positions, OwnPath DEF Nullable
<1>3. TreeOf(doc)[r] \in trees
  OBVIOUS
<1>4. ASSUME NEW q \in Parts(doc, p), path \in DOMAIN TreeOf(doc)[q] PROVE q = r
  <2>1. \E step \in Keys : q = Append(p, step) /\ step \in Keys \cup Nat
    <3>1. doc[p].kind # "array"
      OBVIOUS
    <3> QED
      BY <3>1, PartIsStep
  <2>2. Follows(q, PathOf(q))
    BY <1>2, <2>1, OwnPathOnward
  <2>3. Told(doc, q)
    BY <2>2, PartIsLonger, AllTold
  <2>4. Follows(q, path)
    BY <1>4, <2>3 DEF Told
  <2> QED
    BY <2>4, FieldsApart
<1>5. \A t \in trees : path \in DOMAIN t => t = TreeOf(doc)[r]
  BY <1>4
<1> HIDE DEF trees
<1>6. path \in DOMAIN tree
  <2>1. DOMAIN tree = {PathOf(p)} \cup UNION {DOMAIN t : t \in trees}
    BY OverIs, Zenon
  <2> QED
    BY <1>2, <1>3, <2>1
<1>7. tree[path] = TreeOf(doc)[r][path]
  <2>1. \E t \in trees : path \in DOMAIN t /\ tree[path] = t[path]
    BY <1>6, BelowOver
  <2> HIDE DEF tree
  <2> QED
    BY <1>5, <2>1
<1> HIDE DEF tree
<1> QED
  BY <1>1, <1>6, <1>7 DEF Nullable

LEMMA ArrayNulls ==
    ASSUME NEW doc, IsDocument(doc), ~TooDeep(doc), NEW p \in DOMAIN doc,
           doc[p].kind = "array", NEW r \in Parts(doc, p), Follows(r, PathOf(r)),
           NEW path \in Paths, Follows(p, path), Follows(r, path), path # PathOf(p),
           Nullable(TreeOf(doc)[r], path)
    PROVE  Nullable(TreeOf(doc)[p], path)
<1> DEFINE trees == [i \in Elements(doc, p) |-> TreeOf(doc)[Append(p, i)]]
           item  == inferArrayItem(Append(PathOf(p), Item), trees)
           tree  == Over(PathOf(p), Node(TypeOf(doc[p])), {item})
<1>1. TreeOf(doc)[p] = tree
  <2>1. TreeOf(doc)[p] = inferValue(doc, p, TreeOf(doc)) /\ doc[p].kind # "object"
    BY TreeIs
  <2> QED
    BY <2>1, Zenon DEF inferValue
<1>2. p \in Seq(Keys \cup Nat) /\ Follows(p, PathOf(p)) /\ Len(p) \in Nat
  BY Positions, OwnPath
<1>3. PICK n \in Nat : Elements(doc, p) = 1..n
  BY FirstElements
<1>4. PICK one \in 1..n : r = Append(p, one)
  <2>1. PICK step \in Keys \cup Nat :
           r = Append(p, step) /\ step \in Nat \ {0} /\ \A i \in 1..step : Append(p, i) \in DOMAIN doc
    <3>1. doc[p].kind # "object"
      OBVIOUS
    <3> QED
      BY <3>1, PartIsStep
  <2>2. path[Len(p) + 1] = step \/ (path[Len(p) + 1] = Item /\ step \in 1..MaxArraySamples)
    BY <1>2, <2>1, StepsOn
  <2>3. path[Len(p) + 1] \in Keys \cup {Item}
    <3>1. Len(r) = Len(p) + 1 /\ Len(r) <= Len(path)
      BY PartIsLonger DEF Follows
    <3>2. path \in Seq(Keys \cup {Item}) /\ Len(path) \in Nat
      BY DEF Paths
    <3> QED
      BY <1>2, <3>1, <3>2
  <2>4. \A key \in Keys \cup {Item} : key \notin Nat
    BY StepAssumption DEF StepAssumption
  <2>5. step \in 1..MaxArraySamples /\ step \in 1..step
    BY <2>1, <2>2, <2>3, <2>4
  <2>6. step \in Elements(doc, p)
    BY <2>1, <2>5 DEF Elements
  <2> QED
    BY <1>3, <2>1, <2>6
<1>5. DOMAIN trees = 1..n /\ trees[one] = TreeOf(doc)[r]
  BY <1>3, <1>4
<1>6. ASSUME NEW i \in 1..n PROVE NodeAt(trees[i], path)
  <2>1. trees[i] = TreeOf(doc)[Append(p, i)] /\ Append(p, i) \in Parts(doc, p) /\ i \in 1..MaxArraySamples
    BY <1>3, ElementIsPart DEF Elements
  <2>2. i \in Keys \cup Nat
    OBVIOUS
  <2>3. Follows(Append(p, i), PathOf(Append(p, i))) /\ Append(p, i) \in DOMAIN doc
    BY <1>2, <2>1, <2>2, OwnPathOnward, PartIsLonger
  <2>4. Told(doc, Append(p, i))
    BY <2>3, AllTold
  <2> HIDE DEF trees
  <2>5. ASSUME path \in DOMAIN trees[i] PROVE trees[i][path] \in NodeSet
    <3>1. Follows(Append(p, i), path)
      BY <2>1, <2>4, <2>5 DEF Told
    <3>2. Tells(trees[i], path, SeenBelow(doc, Append(p, i), path))
      BY <2>1, <2>4, <3>1 DEF Told
    <3> QED
      BY <2>5, <3>2 DEF Tells, TrueOf
  <2> QED
    BY <2>5 DEF NodeAt
<1>7. n \in Nat \ {0} /\ 1 \in 1..n
  OBVIOUS
<1> HIDE DEF trees
<1>8. Len(trees) = n /\ trees # <<>>
  BY <1>5, <1>7
<1>9. Nullable(MergeAll(trees), path)
  BY <1>5, <1>6, <1>7, <1>8, MergeAllNulls
<1>10. item = clearSelectable(MergeAll(trees))
  BY <1>8, Zenon DEF inferArrayItem
<1>11. Nullable(item, path)
  <2> HIDE DEF item
  <2>1. path \in DOMAIN item /\ item[path] = [MergeAll(trees)[path] EXCEPT !.selectable = FALSE]
    BY <1>9, <1>10 DEF clearSelectable, Nullable
  <2> QED
    BY <1>9, <2>1 DEF Nullable, NodeSet
<1> HIDE DEF item
<1>12. path \in DOMAIN tree /\ tree[path] = item[path]
  BY <1>11 DEF Over, Nullable
<1> HIDE DEF tree
<1> QED
  BY <1>1, <1>11, <1>12 DEF Nullable

LEMMA AllNulls ==
    ASSUME NEW doc, IsDocument(doc), ~TooDeep(doc), NEW p \in DOMAIN doc
    PROVE  NullsTold(doc, p)
<1> DEFINE S == {q \in DOMAIN doc : NullsTold(doc, q)}
<1>1. ASSUME NEW q \in DOMAIN doc, Parts(doc, q) \subseteq S PROVE q \in S
  <2> SUFFICES ASSUME NEW r \in DOMAIN doc, Extends(r, q), Follows(r, PathOf(r)), doc[r] = Null
               PROVE  Nullable(TreeOf(doc)[q], PathOf(r))
    BY DEF NullsTold
  <2>1. CASE r = q
    BY <2>1, NullHere
  <2>2. CASE r # q
    <3>1. \A part \in Parts(doc, q) : Follows(part, PathOf(part)) => NullsTold(doc, part)
      BY <1>1
    <3>2. /\ PathOf(r) \in Paths /\ PathOf(r) # PathOf(q) /\ Follows(q, PathOf(r))
          /\ \E part \in Parts(doc, q) : /\ Follows(part, PathOf(r)) /\ Follows(part, PathOf(part))
                                         /\ Nullable(TreeOf(doc)[part], PathOf(r))
      BY <2>2, <3>1, NullOnward
    <3>3. PICK part \in Parts(doc, q) : /\ Follows(part, PathOf(r)) /\ Follows(part, PathOf(part))
                                        /\ Nullable(TreeOf(doc)[part], PathOf(r))
      BY <3>2
    <3>4. doc[q].kind \in {"object", "array"}
      BY PartIsStep
    <3>5. CASE doc[q].kind = "object"
      BY <3>2, <3>3, <3>5, ObjectNulls
    <3>6. CASE doc[q].kind = "array"
      BY <3>2, <3>3, <3>6, ArrayNulls
    <3> QED
      BY <3>4, <3>5, <3>6
  <2> QED
    BY <2>1, <2>2
<1>2. DOMAIN doc \subseteq S
  <2> HIDE DEF S
  <2> QED
    BY <1>1, ClimbUp
<1> QED
  BY <1>2

--------------------------------------------------------------------------------
(* What may be selected.                                                      *)

\* A selectable node below a position that no array contains is at the path of a scalar.
Pickable(doc, p) ==
    \A path \in DOMAIN TreeOf(doc)[p] : TreeOf(doc)[p][path].selectable =>
        path \in DOMAIN doc /\ doc[path] \in Scalars

LEMMA KeyPath ==
    ASSUME NEW p \in Seq(Keys \cup Nat), PathOf(p) = p, NEW k \in Keys
    PROVE  PathOf(Append(p, k)) = Append(p, k)
<1> DEFINE q == Append(p, k)
<1>1. q \in Seq(Keys \cup Nat) /\ Len(q) = Len(p) + 1 /\ Len(p) \in Nat /\ q[Len(p) + 1] = k
      /\ \A i \in 1..Len(p) : q[i] = p[i]
  OBVIOUS
<1>2. k \notin Nat
  BY StepAssumption DEF StepAssumption
<1>3. \A i \in 1..Len(p) : p[i] = IF p[i] \in Nat THEN Item ELSE p[i]
  BY PathOfPosition
<1>4. \A i \in 1..(Len(p) + 1) : i = Len(p) + 1 \/ i \in 1..Len(p)
  BY <1>1
<1> HIDE DEF q
<1>5. \A i \in 1..Len(q) : q[i] = IF q[i] \in Nat THEN Item ELSE q[i]
  BY <1>1, <1>2, <1>3, <1>4
<1>6. /\ PathOf(q) \in Seq(Keys \cup {Item}) /\ Len(PathOf(q)) = Len(q)
      /\ \A i \in 1..Len(q) : PathOf(q)[i] = q[i]
  BY <1>1, <1>5, PathOfPosition DEF Paths
<1>7. PathOf(q) \in Seq(Keys \cup Nat \cup {Item}) /\ q \in Seq(Keys \cup Nat \cup {Item})
  BY <1>1, <1>6
<1>8. PathOf(q) = q
  BY <1>6, <1>7, SameSequence
<1> QED
  BY <1>8 DEF q

LEMMA AllPickable ==
    ASSUME NEW doc, IsDocument(doc), ~TooDeep(doc), NEW p \in DOMAIN doc, PathOf(p) = p
    PROVE  Pickable(doc, p)
<1> DEFINE S == {q \in DOMAIN doc : PathOf(q) = q => Pickable(doc, q)}
<1>1. ASSUME NEW q \in DOMAIN doc, Parts(doc, q) \subseteq S PROVE q \in S
  <2> SUFFICES ASSUME PathOf(q) = q, NEW path \in DOMAIN TreeOf(doc)[q],
                      TreeOf(doc)[q][path].selectable
               PROVE  path \in DOMAIN doc /\ doc[path] \in Scalars
    BY DEF Pickable
  <2> DEFINE node     == Node(TypeOf(doc[q]))
             fields   == {TreeOf(doc)[r] : r \in Parts(doc, q)}
             elements == [i \in Elements(doc, q) |-> TreeOf(doc)[Append(q, i)]]
             item     == inferArrayItem(Append(PathOf(q), Item), elements)
  <2>1. TreeOf(doc)[q] = CASE doc[q].kind = "object" -> Over(PathOf(q), node, fields)
                           [] doc[q].kind = "array"  -> Over(PathOf(q), node, {item})
                           [] OTHER -> Over(PathOf(q), node, {})
    BY TreeIs, Zenon DEF inferValue
  <2>2. \E trees : TreeOf(doc)[q] = Over(q, node, trees)
    <3> HIDE DEF node, fields, item
    <3> QED
      BY <2>1
  <2>3. CASE path = q
    <3>1. node.selectable
      <4> HIDE DEF node
      <4>1. PICK trees : TreeOf(doc)[q] = Over(q, node, trees)
        BY <2>2
      <4>2. Over(q, node, trees)[q] = node
        BY DEF Over
      <4> QED
        BY <2>3, <4>1, <4>2
    <3>2. TypeOf(doc[q]) \notin {"object", "array"}
      BY <3>1 DEF Node
    <3>3. doc[q] \in Scalars \cup Containers
      BY DEF IsDocument
    <3>4. doc[q] \notin Containers
      BY <3>2 DEF TypeOf, Containers
    <3> QED
      BY <2>3, <3>3, <3>4
  <2>4. CASE path # q /\ doc[q].kind = "object"
    <3>1. TreeOf(doc)[q] = Over(q, node, fields)
      <4> HIDE DEF node, fields, item
      <4> QED
        BY <2>1, <2>4
    <3>2. PICK t \in fields : path \in DOMAIN t /\ TreeOf(doc)[q][path] = t[path]
      <4> HIDE DEF node, fields
      <4>1. path \in DOMAIN Over(q, node, fields) /\ path # q
        BY <2>4, <3>1
      <4>2. \E t \in fields : path \in DOMAIN t /\ Over(q, node, fields)[path] = t[path]
        BY <4>1, BelowOver
      <4> QED
        BY <3>1, <4>2
    <3>3. PICK r \in Parts(doc, q) : t = TreeOf(doc)[r]
      BY <3>2
    <3>4. PICK k \in Keys : r = Append(q, k)
      <4>1. doc[q].kind # "array"
        BY <2>4
      <4> QED
        BY <4>1, PartIsStep
    <3>5. PathOf(r) = r
      BY <3>4, Positions, KeyPath
    <3>6. Pickable(doc, r)
      BY <1>1, <3>5
    <3> QED
      BY <3>2, <3>3, <3>6 DEF Pickable
  <2>5. CASE path # q /\ doc[q].kind = "array"
    <3>1. TreeOf(doc)[q] = Over(q, node, {item})
      <4> HIDE DEF node, fields, item
      <4> QED
        BY <2>1, <2>5
    <3>2. path \in DOMAIN item /\ TreeOf(doc)[q][path] = item[path]
      <4> HIDE DEF node, item
      <4> QED
        BY <2>5, <3>1 DEF Over
    <3>3. \E tree : item = clearSelectable(tree)
      BY DEF inferArrayItem
    <3> HIDE DEF item
    <3>4. ~item[path].selectable
      <4>1. PICK tree : item = clearSelectable(tree)
        BY <3>3
      <4> QED
        BY <3>2, <4>1 DEF clearSelectable
    <3> QED
      BY <3>2, <3>4
  <2>6. CASE path # q /\ doc[q].kind \notin {"object", "array"}
    <3> HIDE DEF node, fields, item
    <3>1. TreeOf(doc)[q] = Over(q, node, {})
      BY <2>1, <2>6
    <3> QED
      BY <2>6, <3>1 DEF Over
  <2> QED
    BY <2>3, <2>4, <2>5, <2>6
<1>2. DOMAIN doc \subseteq S
  <2> HIDE DEF S
  <2> QED
    BY <1>1, ClimbUp
<1> QED
  BY <1>2

\* A path of keys leads to the one value that is there.
LEMMA OneValue ==
    ASSUME NEW doc, IsDocument(doc), NEW path \in Paths, path \in DOMAIN doc
    PROVE  ValuesAt(doc, path) = {doc[path]}
<1>1. /\ path \in Seq(Keys \cup Nat) /\ Len(path) \in Nat /\ DOMAIN path = 1..Len(path)
  BY Positions
<1>2. \A i \in DOMAIN path : path[i] \in Keys \cup Nat /\ path[i] \in Keys \cup {Item}
  BY <1>1 DEF Paths
<1>3. \A i \in DOMAIN path : path[i] # Item
  BY <1>2, StepAssumption DEF StepAssumption
<1>4. Follows(path, path) /\ Extends(path, path)
  BY <1>1 DEF Follows, Extends
<1>5. ASSUME NEW q \in DOMAIN doc, Follows(q, path) PROVE Extends(path, q)
  <2>1. Len(q) \in Nat /\ DOMAIN q = 1..Len(q)
    BY Positions
  <2>2. Len(q) <= Len(path) /\ DOMAIN q \subseteq DOMAIN path
    BY <1>1, <1>5, <2>1 DEF Follows
  <2> QED
    BY <1>3, <1>5, <2>2 DEF Follows, Extends
<1>6. ASSUME NEW q \in Ends(doc, path) PROVE q = path
  <2>1. q \in DOMAIN doc /\ Follows(q, path) /\ \A r \in Parts(doc, q) : ~Follows(r, path)
    BY DEF Ends
  <2>2. Extends(path, q)
    BY <1>5, <2>1
  <2>3. SUFFICES ASSUME q # path PROVE FALSE
    OBVIOUS
  <2>4. PICK r \in Parts(doc, q) : Extends(path, r)
    BY <2>1, <2>2, <2>3, FirstStep
  <2> QED
    BY <1>4, <2>1, <2>4, PartIsLonger, FollowsAbove
<1>7. path \in Ends(doc, path)
  <2>1. ASSUME NEW q \in Parts(doc, path) PROVE ~Follows(q, path)
    <3>1. Len(q) = Len(path) + 1
      BY PartIsLonger
    <3>2. ~(Len(path) + 1 <= Len(path))
      BY <1>1
    <3> QED
      BY <3>1, <3>2 DEF Follows
  <2> QED
    BY <1>4, <2>1 DEF Ends
<1>8. Ends(doc, path) = {path}
  BY <1>6, <1>7
<1> QED
  BY <1>8, Zenon DEF ValuesAt

--------------------------------------------------------------------------------
(* The field tree.                                                            *)

\* The root follows every path, and its own is itself.
LEMMA Root ==
    ASSUME NEW doc, IsDocument(doc)
    PROVE  /\ <<>> \in DOMAIN doc /\ PathOf(<<>>) = <<>>
           /\ \A path \in Paths : Follows(<<>>, path)
<1>1. <<>> \in DOMAIN doc /\ <<>> \in Seq(Keys \cup Nat) /\ DOMAIN <<>> = {}
  BY DEF IsDocument
<1>2. Len(PathOf(<<>>)) = 0 /\ PathOf(<<>>) \in Seq(Keys \cup {Item})
  BY <1>1, PathOfPosition DEF Paths
<1>3. \A path \in Paths : Len(path) \in Nat
  BY DEF Paths
<1>4. \A path \in Paths : 0 <= Len(path)
  BY <1>3
<1> QED
  BY <1>1, <1>2, <1>4 DEF Follows

\* The tree of one answer is the description of its root.
LEMMA InferOne ==
    ASSUME NEW doc, IsDocument(doc), ~TooDeep(doc)
    PROVE  Infer(<<doc>>) = TreeOf(doc)[<<>>]
<1> DEFINE trees == [i \in DOMAIN <<doc>> |-> Described(<<doc>>[i])]
<1>1. DOMAIN trees = 1..1 /\ trees[1] = Described(doc)
  OBVIOUS
<1>2. Len(trees) = 1
  <2> HIDE DEF trees
  <2> QED
    BY <1>1
<1> HIDE DEF trees
<1>3. Infer(<<doc>>) = MergeAll(trees)
  BY Zenon DEF Infer, trees
<1> QED
  BY <1>1, <1>2, <1>3, MergeOne, TreeIs

\* Where the paths of a tree lead, and what its nodes say of it.
LEMMA TreeTells ==
    ASSUME NEW doc, IsDocument(doc), ~TooDeep(doc), NEW path \in DOMAIN Infer(<<doc>>)
    PROVE  /\ path \in Paths
           /\ TrueOf(Infer(<<doc>>)[path], ValuesAt(doc, path))
           /\ Infer(<<doc>>)[path].selectable =>
                 path \in DOMAIN doc /\ doc[path] \in Scalars /\ ValuesAt(doc, path) = {doc[path]}
           /\ Null \in ThereAt(doc, path) => Infer(<<doc>>)[path].nullable
<1>1. /\ <<>> \in DOMAIN doc /\ PathOf(<<>>) = <<>> /\ Follows(<<>>, PathOf(<<>>))
      /\ \A q \in Paths : Follows(<<>>, q)
  <2>1. <<>> \in Paths
    BY DEF Paths
  <2> QED
    BY <2>1, Root
<1>2. Infer(<<doc>>) = TreeOf(doc)[<<>>]
  BY InferOne
<1>3. Told(doc, <<>>) /\ Pickable(doc, <<>>)
  BY <1>1, AllTold, AllPickable
<1>4. path \in Paths
  BY <1>2, <1>3 DEF Told
<1>5. Tells(TreeOf(doc)[<<>>], path, ValuesAt(doc, path))
  BY <1>1, <1>3, <1>4, SeenFromRoot DEF Told
<1>6. Infer(<<doc>>)[path].selectable => path \in DOMAIN doc /\ doc[path] \in Scalars
  BY <1>2, <1>3 DEF Pickable
<1>7. ASSUME Null \in ThereAt(doc, path) PROVE Infer(<<doc>>)[path].nullable
  <2>1. PICK q \in DOMAIN doc : doc[q] = Null /\ Follows(q, path) /\ Len(q) = Len(path)
    BY <1>7 DEF ThereAt, Ends
  <2>2. q \in Seq(Keys \cup Nat) /\ Len(q) \in Nat
    BY Positions
  <2>3. path = PathOf(q)
    BY <1>4, <2>1, <2>2, OwnPathHere
  <2>4. Extends(q, <<>>)
    BY <2>2 DEF Extends
  <2>5. Nullable(TreeOf(doc)[<<>>], PathOf(q))
    BY <1>1, <2>1, <2>3, <2>4, AllNulls DEF NullsTold
  <2> QED
    BY <1>2, <2>3, <2>5 DEF Nullable
<1> QED
  BY <1>2, <1>4, <1>5, <1>6, <1>7, OneValue DEF Tells

\* Every node of the tree inferred from an answer tells the truth of the values its path
\* leads to there: the one type they have or that they differ, nullable whenever a null
\* is there and only if one is or a value is missing, and selectable only where one
\* scalar alone is (schemainfer.Infer), for any document that Decode lets through.
THEOREM TreeIsTruthful ==
    \A doc : IsDocument(doc) /\ ~TooDeep(doc) =>
        \A path \in DOMAIN Infer(<<doc>>) :
            Describes(Infer(<<doc>>)[path], ValuesAt(doc, path), ThereAt(doc, path))
<1> SUFFICES ASSUME NEW doc, IsDocument(doc), ~TooDeep(doc), NEW path \in DOMAIN Infer(<<doc>>)
             PROVE  Describes(Infer(<<doc>>)[path], ValuesAt(doc, path), ThereAt(doc, path))
  OBVIOUS
<1> DEFINE node  == Infer(<<doc>>)[path]
           seen  == ValuesAt(doc, path)
           there == ThereAt(doc, path)
<1>1. /\ TrueOf(node, seen)
      /\ node.selectable => doc[path] \in Scalars /\ seen = {doc[path]}
      /\ Null \in there => node.nullable
  BY TreeTells
<1> HIDE DEF node, seen, there
<1>2. Describes(node, seen, there)
  BY <1>1, Zenon DEF Describes, TrueOf, TypesOf
<1> QED
  BY <1>2 DEF node, seen, there

\* Of every answer a request holds, the tree tells the truth.
THEOREM TreeIsTruthfulInService == Spec => []TreeDescribesAnswer
<1>1. ASSUME NEW answer \in Answers, Usable(answer)
      PROVE  \A path \in DOMAIN Infer(<<answer.document>>) :
                Describes(Infer(<<answer.document>>)[path], ValuesAt(answer.document, path),
                          ThereAt(answer.document, path))
  <2>1. IsDocument(answer.document) /\ ~TooDeep(answer.document)
    BY <1>1, ServingAssumption DEF ServingAssumption, Usable, Decode, Check
  <2> QED
    BY <2>1, TreeIsTruthful, Zenon
<1>2. TreeDescribesAnswer
  BY <1>1, Zenon DEF TreeDescribesAnswer, Truthful
<1> QED
  BY <1>2, PTL

\* Of several samples, of any length, the tree has a node wherever one of them has a
\* value, and it tells the truth of the values all of them have there: merging the
\* descriptions loses nothing and invents nothing, whatever their order.
THEOREM SamplesAreDescribed ==
    ASSUME NEW samples, NEW n \in Nat \ {0}, DOMAIN samples = 1..n, Len(samples) = n,
           \A i \in 1..n : IsDocument(samples[i]) /\ ~TooDeep(samples[i]),
           NEW path \in Paths
    PROVE  Tells(Infer(samples), path, UNION {ValuesAt(samples[i], path) : i \in 1..n})
<1> DEFINE trees == [i \in DOMAIN samples |-> Described(samples[i])]
           seen  == [i \in 1..n |-> ValuesAt(samples[i], path)]
<1>1. DOMAIN trees = 1..n /\ \A i \in 1..n : trees[i] = Described(samples[i])
  OBVIOUS
<1>2. Len(trees) = n
  <2> HIDE DEF trees
  <2> QED
    BY <1>1
<1>3. ASSUME NEW i \in 1..n
      PROVE  Tells(trees[i], path, seen[i]) /\ seen[i] # {} /\ seen[i] \subseteq Values
  <2> DEFINE doc == samples[i]
  <2>1. IsDocument(doc) /\ ~TooDeep(doc)
    OBVIOUS
  <2>2. trees[i] = Described(doc) /\ seen[i] = ValuesAt(doc, path)
    BY <1>1
  <2> HIDE DEF doc, trees, seen
  <2>3. <<>> \in Paths
    BY DEF Paths
  <2>4. <<>> \in DOMAIN doc /\ Follows(<<>>, PathOf(<<>>)) /\ Follows(<<>>, path)
    BY <2>1, <2>3, Root
  <2>5. Told(doc, <<>>)
    BY <2>1, <2>4, AllTold
  <2>6. Tells(TreeOf(doc)[<<>>], path, SeenBelow(doc, <<>>, path))
    BY <2>4, <2>5 DEF Told
  <2>7. SeenBelow(doc, <<>>, path) # {} /\ SeenBelow(doc, <<>>, path) \subseteq Values
    BY <2>1, <2>4, SeenSomething
  <2>8. SeenBelow(doc, <<>>, path) = ValuesAt(doc, path)
    BY <2>1, SeenFromRoot
  <2>9. Described(doc) = TreeOf(doc)[<<>>]
    BY <2>1, TreeIs
  <2> QED
    BY <2>2, <2>6, <2>7, <2>8, <2>9
<1>4. Infer(samples) = MergeAll(trees)
  BY Zenon DEF Infer
<1>5. UNION {seen[i] : i \in 1..n} = UNION {ValuesAt(samples[i], path) : i \in 1..n}
  OBVIOUS
<1> HIDE DEF trees, seen
<1>6. Tells(MergeAll(trees), path, UNION {seen[i] : i \in 1..n})
  BY <1>1, <1>2, <1>3, MergeAllTells
<1> QED
  BY <1>4, <1>5, <1>6

--------------------------------------------------------------------------------
(* A selection applied to an answer.                                          *)

\* A sequence of checks passes only if each of them does.
LEMMA NoError ==
    ASSUME NEW errors, DOMAIN errors \subseteq Nat, FirstError(errors) = "ok"
    PROVE  \A i \in DOMAIN errors : errors[i] = "ok"
<1> DEFINE bad == {i \in DOMAIN errors : errors[i] # "ok"}
<1>1. SUFFICES ASSUME bad # {} PROVE FALSE
  OBVIOUS
<1>2. \E i \in bad : \A j \in bad : i <= j
  <2>1. bad \subseteq Nat
    OBVIOUS
  <2> HIDE DEF bad
  <2> QED
    BY <1>1, <2>1, LeastMember
<1> DEFINE first == CHOOSE i \in bad : \A j \in bad : i <= j
<1>3. first \in bad
  <2> HIDE DEF bad
  <2> QED
    BY <1>2
<1>4. FirstError(errors) = errors[first]
  BY <1>1, Zenon DEF FirstError
<1> HIDE DEF first
<1> QED
  BY <1>3, <1>4

\* A mapping that is valid has a type to coerce to, and a default that does.
LEMMA ValidMapping ==
    ASSUME NEW m, Validate(m) = "ok"
    PROVE  m.type \in DataTypes /\ (m.default = NoDefault \/ Coerces(m.type, m.default))
<1> DEFINE e1 == Check(m.output \in OutputNames, "ErrInvalidOutputName")
           e2 == Check(m.path # <<>>, "ErrEmptySourcePath")
           e3 == Check(m.type \in DataTypes, "ErrInvalidDataType")
           e4 == Check(m.label = "fits", "ErrDisplayLabelTooLong")
           e5 == Check(m.order >= 0, "ErrNegativeSortOrder")
           e6 == Check(~m.required \/ m.default = NoDefault, "ErrRequiredWithDefault")
           e7 == Check(m.default = NoDefault \/ Coerces(m.type, m.default), "ErrBadDefault")
<1>1. FirstError(<<e1, e2, e3, e4, e5, e6, e7>>) = "ok"
  BY Zenon DEF Validate
<1> HIDE DEF e1, e2, e3, e4, e5, e6, e7
<1> DEFINE errors == <<e1, e2, e3, e4, e5, e6, e7>>
<1>2. /\ DOMAIN errors = 1..7 /\ errors[3] = e3 /\ errors[7] = e7
      /\ 1..7 \subseteq Nat /\ 3 \in 1..7 /\ 7 \in 1..7
  OBVIOUS
<1> HIDE DEF errors
<1>3. e3 = "ok" /\ e7 = "ok"
  BY <1>1, <1>2, NoError DEF errors
<1>4. m.type \in DataTypes
  BY <1>3 DEF e3, Check
<1>5. m.default = NoDefault \/ Coerces(m.type, m.default)
  BY <1>3 DEF e7, Check
<1> QED
  BY <1>4, <1>5

\* In a valid set each mapping is, and no two have the same name.
LEMMA ValidSelection ==
    ASSUME NEW S, NEW set \in Seq(S), ValidateSet(set) = "ok"
    PROVE  /\ \A i \in DOMAIN set : Validate(set[i]) = "ok"
           /\ \A i, j \in DOMAIN set : set[i].output = set[j].output => i = j
<1>1. DOMAIN set = 1..Len(set) /\ Len(set) \in Nat
  OBVIOUS
<1> DEFINE Distinct(i) == Check(\A j \in 1..i-1 : set[j].output # set[i].output, "ErrDuplicateOutputName")
           errors == [i \in DOMAIN set |-> FirstError(<<Validate(set[i]), Distinct(i)>>)]
<1>2. FirstError(errors) = "ok"
  BY Zenon DEF ValidateSet
<1>3. DOMAIN errors \subseteq Nat
  BY <1>1
<1>4. \A i \in DOMAIN set : errors[i] = "ok"
  <2>1. DOMAIN errors = DOMAIN set
    OBVIOUS
  <2> HIDE DEF errors
  <2> QED
    BY <1>2, <1>3, <2>1, NoError
<1>5. ASSUME NEW i \in DOMAIN set PROVE Validate(set[i]) = "ok" /\ Distinct(i) = "ok"
  <2> DEFINE e1 == Validate(set[i])
             e2 == Distinct(i)
             both == <<e1, e2>>
  <2>1. FirstError(both) = "ok"
    BY <1>4
  <2> HIDE DEF e1, e2
  <2>2. DOMAIN both = 1..2 /\ both[1] = e1 /\ both[2] = e2 /\ 1..2 \subseteq Nat /\ 1 \in 1..2 /\ 2 \in 1..2
    OBVIOUS
  <2> HIDE DEF both
  <2>3. e1 = "ok" /\ e2 = "ok"
    BY <2>1, <2>2, NoError
  <2> QED
    BY <2>3 DEF e1, e2
<1>6. ASSUME NEW i \in DOMAIN set, NEW j \in DOMAIN set, j < i PROVE set[j].output # set[i].output
  <2>1. \A k \in 1..i-1 : set[k].output # set[i].output
    BY <1>5 DEF Check
  <2>2. j \in 1..i-1
    BY <1>1, <1>6
  <2> QED
    BY <2>1, <2>2
<1>7. ASSUME NEW i \in DOMAIN set, NEW j \in DOMAIN set, set[i].output = set[j].output PROVE i = j
  <2>1. i \in Nat /\ j \in Nat
    BY <1>1
  <2>2. i < j \/ j < i \/ i = j
    BY <2>1
  <2> QED
    BY <1>6, <1>7, <2>2
<1> QED
  BY <1>5, <1>7

\* A set that suits a tree selects only what is selectable there.
LEMMA SuitedSelection ==
    ASSUME NEW S, NEW set \in Seq(S), NEW tree, ValidateAgainstSchema(tree, set) = "ok"
    PROVE  \A i \in DOMAIN set : set[i].path \in Flatten(tree)
<1>1. DOMAIN set \subseteq Nat
  OBVIOUS
<1> DEFINE Fits(i) ==
             IF set[i].path \notin Flatten(tree) THEN "ErrUnknownSourcePath"
             ELSE IF tree[set[i].path].type = "null" THEN "ErrUntypedField"
             ELSE Check(typeMatches(set[i].type, tree[set[i].path].type), "ErrTypeMismatch")
           errors == [i \in DOMAIN set |-> Fits(i)]
<1>2. FirstError(errors) = "ok"
  BY Zenon DEF ValidateAgainstSchema
<1>3. DOMAIN errors = DOMAIN set /\ \A i \in DOMAIN set : errors[i] = Fits(i)
  OBVIOUS
<1>4. \A i \in DOMAIN set : Fits(i) = "ok"
  <2> HIDE DEF errors, Fits
  <2> QED
    BY <1>1, <1>2, <1>3, NoError
<1> QED
  BY <1>4

\* What one mapping yields is of its type and is the value that is there, or the default
\* if none is; it yields something if it is required or something is there.
LEMMA AppliedAsPromised ==
    ASSUME NEW m, NEW doc, Applied(m, doc).err = "ok", Validate(m) = "ok",
           m.default \in Scalars \cup {NoDefault}, Search(m.path, doc) \in Values
    PROVE  LET raw   == Search(m.path, doc)
               value == Applied(m, doc).value
           IN  /\ m.required \/ raw # Null => value # NoValue
               /\ value # NoValue =>
                     /\ value.type = m.type
                     /\ value.type = "integer" => value.of = Number("digits")
                     /\ value.type \in {"string", "boolean"} => value.of.kind = value.type
                     /\ value.type = "number" =>
                           value.of.kind = "number" /\ value.of.text \notin {"huge", "vast"}
                     /\ value.of = raw \/ (raw = Null /\ value.of = m.default)
<1> DEFINE raw   == Search(m.path, doc)
           value == Applied(m, doc).value
           Held(of) == [type |-> m.type, of |-> of]
<1>1. \A of : Held(of) # NoValue /\ Held(of).type = m.type /\ Held(of).of = of
  <2> SUFFICES ASSUME NEW of PROVE Held(of) # NoValue
    OBVIOUS
  <2>1. "type" \in DOMAIN Held(of) /\ "type" \notin DOMAIN NoValue
    BY DEF NoValue
  <2> QED
    BY <2>1
<1>2. m.type \in DataTypes /\ (m.default = NoDefault \/ Coerces(m.type, m.default))
  BY ValidMapping
<1>3. \/ raw = Null /\ m.default # NoDefault /\ value = Held(m.default)
      \/ raw = Null /\ m.default = NoDefault /\ ~m.required /\ value = NoValue
      \/ raw # Null /\ Coerces(m.type, raw) /\ value = Held(raw)
  <2> HIDE DEF raw
  <2> QED
    BY DEF Applied, raw
<1>4. ASSUME NEW v \in Values, Coerces(m.type, v)
      PROVE  /\ m.type = "integer" => v = Number("digits")
             /\ m.type \in {"string", "boolean"} => v.kind = m.type
             /\ m.type = "number" => v.kind = "number" /\ v.text \notin {"huge", "vast"}
  BY <1>4 DEF Coerces, Values, Scalars, Containers, Null, Bool, Text, Number
<1> HIDE DEF raw, value, Held
<1>5. m.default # NoDefault => m.default \in Scalars
  OBVIOUS
<1>6. raw \in Values
  BY DEF raw
<1>7. CASE raw = Null /\ m.default # NoDefault /\ value = Held(m.default)
  <2>1. m.default \in Values /\ Coerces(m.type, m.default)
    BY <1>2, <1>5, <1>7 DEF Values
  <2> QED
    BY <1>1, <1>4, <1>7, <2>1 DEF raw, value
<1>8. CASE raw = Null /\ m.default = NoDefault /\ ~m.required /\ value = NoValue
  BY <1>8 DEF raw, value
<1>9. CASE raw # Null /\ Coerces(m.type, raw) /\ value = Held(raw)
  BY <1>1, <1>4, <1>6, <1>9 DEF raw, value
<1> QED
  BY <1>3, <1>7, <1>8, <1>9

\* What is put under a name is what the one mapping of that name yields.
LEMMA OutputOf ==
    ASSUME NEW S, NEW set \in Seq(S), NEW doc, Apply(set, doc).err = "ok",
           \A i, j \in DOMAIN set : set[i].output = set[j].output => i = j
    PROVE  LET output == Apply(set, doc).output
           IN  /\ \A i \in DOMAIN set : Applied(set[i], doc).err = "ok"
               /\ \A name \in DOMAIN output : \E i \in DOMAIN set : set[i].output = name
               /\ \A i \in DOMAIN set :
                     /\ set[i].output \in DOMAIN output <=> Applied(set[i], doc).value # NoValue
                     /\ Applied(set[i], doc).value # NoValue =>
                           output[set[i].output] = Applied(set[i], doc).value
<1> DEFINE done == [i \in DOMAIN set |-> Applied(set[i], doc)]
           errors == [i \in DOMAIN set |-> done[i].err]
           held == {i \in DOMAIN set : done[i].value # NoValue}
           One(name) == CHOOSE i \in held : set[i].output = name
           made == [name \in {set[i].output : i \in held} |-> done[One(name)].value]
<1>1. Apply(set, doc) = [err |-> FirstError(errors),
                         output |-> IF FirstError(errors) # "ok" THEN NoFields ELSE made]
  BY Zenon DEF Apply
<1>2. \A i \in DOMAIN set : done[i] = Applied(set[i], doc) /\ errors[i] = Applied(set[i], doc).err
  OBVIOUS
<1>3. DOMAIN errors = DOMAIN set /\ DOMAIN set \subseteq Nat
  OBVIOUS
<1>4. held = {i \in DOMAIN set : Applied(set[i], doc).value # NoValue}
  BY <1>2
<1> HIDE DEF errors, done, held, made
<1>5. FirstError(errors) = "ok" /\ Apply(set, doc).output = made
  BY <1>1
<1>6. \A i \in DOMAIN set : Applied(set[i], doc).err = "ok"
  BY <1>2, <1>3, <1>5, NoError
<1>7. DOMAIN made = {set[i].output : i \in held}
  BY DEF made
<1>8. ASSUME NEW i \in held PROVE made[set[i].output] = Applied(set[i], doc).value
  <2> DEFINE j == One(set[i].output)
  <2>1. j \in held /\ set[j].output = set[i].output
    OBVIOUS
  <2>2. j = i
    <3> HIDE DEF j
    <3> QED
      BY <1>4, <2>1
  <2>3. made[set[i].output] = done[j].value
    BY DEF made
  <2> QED
    BY <1>2, <1>4, <2>2, <2>3
<1>9. ASSUME NEW i \in DOMAIN set
      PROVE  set[i].output \in DOMAIN made <=> Applied(set[i], doc).value # NoValue
  BY <1>4, <1>7
<1> QED
  BY <1>4, <1>5, <1>6, <1>7, <1>8, <1>9

\* A resolution that succeeds has passed every stage.
LEMMA Stagewise ==
    ASSUME NEW recipe, NEW answer, IsDocument(answer.document), recipe.set # NilSet,
           ResolveAnswer(recipe, answer).err = "ok"
    PROVE  /\ ~TooDeep(answer.document)
           /\ ValidateSet(recipe.set) = "ok"
           /\ ValidateAgainstSchema(Infer(<<answer.document>>), recipe.set) = "ok"
           /\ ResolveAnswer(recipe, answer) = Apply(recipe.set, answer.document)
<1> DEFINE tree    == Infer(<<answer.document>>)
           e1      == ValidateSet(recipe.set)
           e2      == ValidateAgainstSchema(tree, recipe.set)
           refused == FirstError(<<e1, e2>>)
           applied == Apply(recipe.set, answer.document)
           res     == ResolveAnswer(recipe, answer)
<1>1. res = IF ~answer.sent THEN Failed("ErrRequestFailed")
            ELSE IF CheckJSON(answer) # "ok" THEN Failed(CheckJSON(answer))
            ELSE IF Decode(answer) # "ok" THEN Failed(Decode(answer))
            ELSE IF recipe.set = NilSet THEN [err |-> "ok", output |-> NilOutput]
            ELSE IF refused # "ok" THEN Failed(refused)
            ELSE applied
  BY Zenon DEF ResolveAnswer
<1> HIDE DEF e1, e2, applied, res
<1>2. \A error : Failed(error).err = error
  BY DEF Failed
<1> HIDE DEF refused
<1>3. Decode(answer) = "ok" /\ refused = "ok" /\ res = applied
  BY <1>1, <1>2 DEF res
<1>4. e1 = "ok" /\ e2 = "ok"
  <2> DEFINE both == <<e1, e2>>
  <2>1. DOMAIN both = 1..2 /\ both[1] = e1 /\ both[2] = e2 /\ 1..2 \subseteq Nat /\ 1 \in 1..2 /\ 2 \in 1..2
    OBVIOUS
  <2>2. FirstError(both) = "ok"
    BY <1>3 DEF refused
  <2> HIDE DEF both
  <2> QED
    BY <2>1, <2>2, NoError
<1>5. ~TooDeep(answer.document)
  BY <1>3 DEF Decode, Check
<1> QED
  BY <1>3, <1>4, <1>5 DEF e1, e2, applied, res

\* One without a selection has a nil output.
LEMMA NothingSelected ==
    ASSUME NEW recipe, NEW answer, recipe.set = NilSet, ResolveAnswer(recipe, answer).err = "ok"
    PROVE  ResolveAnswer(recipe, answer).output = NilOutput
<1>1. \A error : Failed(error).err = error
  BY DEF Failed
<1>2. \/ ResolveAnswer(recipe, answer) = [err |-> "ok", output |-> NilOutput]
      \/ /\ CheckJSON(answer) # "ok"
         /\ ResolveAnswer(recipe, answer) = Failed(CheckJSON(answer))
      \/ /\ Decode(answer) # "ok"
         /\ ResolveAnswer(recipe, answer) = Failed(Decode(answer))
      \/ ResolveAnswer(recipe, answer) = Failed("ErrRequestFailed")
  BY Zenon DEF ResolveAnswer
<1> QED
  BY <1>1, <1>2

\* What a selection that suits an answer makes of it holds what is promised.
LEMMA AppliedSelection ==
    ASSUME NEW S, NEW set \in Seq(S), NEW doc, IsDocument(doc), ~TooDeep(doc),
           \A i \in DOMAIN set : set[i].default \in Scalars \cup {NoDefault},
           ValidateSet(set) = "ok", ValidateAgainstSchema(Infer(<<doc>>), set) = "ok",
           Apply(set, doc).err = "ok", NEW output, output = Apply(set, doc).output
    PROVE  Promised(set, doc, output)
<1> DEFINE Raw(i)   == Search(set[i].path, doc)
           Value(i) == Applied(set[i], doc).value
<1>1. /\ \A i \in DOMAIN set : Validate(set[i]) = "ok"
      /\ \A i, j \in DOMAIN set : set[i].output = set[j].output => i = j
  BY ValidSelection
<1>2. /\ \A i \in DOMAIN set : Applied(set[i], doc).err = "ok"
      /\ \A name \in DOMAIN output : \E i \in DOMAIN set : set[i].output = name
      /\ \A i \in DOMAIN set :
            /\ set[i].output \in DOMAIN output <=> Applied(set[i], doc).value # NoValue
            /\ Applied(set[i], doc).value # NoValue => output[set[i].output] = Applied(set[i], doc).value
  <2> HIDE DEF Value, Raw
  <2> QED
    BY <1>1, OutputOf
<1>3. ASSUME NEW i \in DOMAIN set
      PROVE  Raw(i) \in Values /\ (Legible(set[i].path) => ValuesAt(doc, set[i].path) = {Raw(i)})
  <2> DEFINE tree == Infer(<<doc>>)
             path == set[i].path
  <2> HIDE DEF tree
  <2>1. path \in Flatten(tree)
    BY SuitedSelection DEF tree
  <2>2. path \in DOMAIN tree /\ tree[path].selectable
    BY <2>1 DEF Flatten
  <2>3. path \in DOMAIN doc /\ doc[path] \in Scalars /\ ValuesAt(doc, path) = {doc[path]}
    BY <2>2, TreeTells DEF tree
  <2>4. Raw(i) \in Values
    BY DEF Search, IsDocument, Values, Scalars
  <2>5. Legible(path) => Raw(i) = doc[path]
    BY <2>3 DEF Search, Legible
  <2> QED
    BY <2>3, <2>4, <2>5
<1>4. ASSUME NEW i \in DOMAIN set
      PROVE  /\ set[i].required \/ Raw(i) # Null => Value(i) # NoValue
             /\ Value(i) # NoValue =>
                   /\ Value(i).type = set[i].type
                   /\ Value(i).type = "integer" => Value(i).of = Number("digits")
                   /\ Value(i).type \in {"string", "boolean"} => Value(i).of.kind = Value(i).type
                   /\ Value(i).type = "number" =>
                         Value(i).of.kind = "number" /\ Value(i).of.text \notin {"huge", "vast"}
                   /\ Value(i).of = Raw(i) \/ (Raw(i) = Null /\ Value(i).of = set[i].default)
  BY <1>1, <1>2, <1>3, AppliedAsPromised
<1>5. \A p \in DOMAIN doc : Len(p) <= MaxDepth
  BY Positions, SchemaAssumption DEF TooDeep, SchemaAssumption
<1>6. \A i \in DOMAIN set :
         /\ set[i].output \in DOMAIN output <=> Value(i) # NoValue
         /\ Value(i) # NoValue => output[set[i].output] = Value(i)
  BY <1>2
<1>7. DOMAIN output \subseteq {set[i].output : i \in DOMAIN set}
  BY <1>2
<1> HIDE DEF Raw, Value
<1>8. ASSUME NEW i \in DOMAIN set, Legible(set[i].path)
      PROVE  Honest(set[i], doc, output)
  <2>1. ValuesAt(doc, set[i].path) = {Raw(i)}
    BY <1>3, <1>8
  <2>2. set[i].required \/ {Raw(i)} # {Null} => set[i].output \in DOMAIN output
    BY <1>4, <1>6
  <2>3. set[i].output \in DOMAIN output =>
           \/ {Raw(i)} = {output[set[i].output].of}
           \/ {Raw(i)} = {Null} /\ output[set[i].output].of = set[i].default
    BY <1>4, <1>6
  <2> QED
    BY <2>1, <2>2, <2>3 DEF Honest
<1>9. ASSUME NEW i \in DOMAIN set, set[i].output \in DOMAIN output
      PROVE  LET value == output[set[i].output]
             IN  /\ value.type = set[i].type
                 /\ value.type = "integer" => value.of = Number("digits")
                 /\ value.type \in {"string", "boolean"} => value.of.kind = value.type
                 /\ value.type = "number" =>
                       value.of.kind = "number" /\ value.of.text \notin {"huge", "vast"}
  BY <1>4, <1>6, <1>9
<1>10. ASSUME NEW i \in DOMAIN set
       PROVE  set[i].required => set[i].output \in DOMAIN output
  BY <1>4, <1>6
<1> QED
  BY <1>5, <1>7, <1>8, <1>9, <1>10 DEF Promised

--------------------------------------------------------------------------------
(* The service.                                                               *)

\* A render that succeeds has had an answer.
RenderAnswered == \A r \in Requests : Rendered(r) => req[r].answer # NoAnswer

LEMMA InitAnswered == Init => RenderAnswered
BY DEF Init, Idle, RenderAnswered, Rendered

\* An answer without the partner's is no render's, unless it is not 200.
LEMMA SettledAnswered ==
    ASSUME IInv, RenderAnswered, NEW r \in Requests, NEW status, Answer(r, status),
           req[r].kind = "render" => status # 200
    PROVE  RenderAnswered'
<1>1. req \in [Requests -> Request]
  BY DEF IInv, TypeOK
<1>2. ASSUME NEW s \in Requests, s # r PROVE req'[s] = req[s]
  BY <1>1, <1>2 DEF Answer
<1>3. req'[r].kind = req[r].kind /\ req'[r].status = status
  BY <1>1 DEF Answer, Settled, Idle
<1>4. ~Rendered(r)'
  BY <1>3 DEF Rendered
<1> QED
  BY <1>2, <1>4 DEF RenderAnswered, Rendered

LEMMA QueryAnswered ==
    ASSUME IInv, RenderAnswered, NEW r \in Requests, Read(r) \/ Select(r)
    PROVE  RenderAnswered'
<1>1. req \in [Requests -> Request] /\ req[r].status = 0
  BY DEF IInv, TypeOK, Read, Select
<1>2. ASSUME NEW at, NEW recipe, req' = [req EXCEPT ![r].at = at, ![r].recipe = recipe]
      PROVE  RenderAnswered'
  <2>1. \A s \in Requests : s # r => req'[s] = req[s]
    BY <1>1, <1>2
  <2>2. req'[r].status = 0
    BY <1>1, <1>2 DEF Request
  <2> QED
    BY <2>1, <2>2 DEF RenderAnswered, Rendered
<1>3. req[r].kind = "render" => FailedRead(req[r].kind) # 200
  BY DEF FailedRead
<1>4. ASSUME NEW status, Answer(r, status), req[r].kind = "render" => status # 200
      PROVE  RenderAnswered'
  BY <1>4, SettledAnswered
<1>5. CASE Answer(r, FailedRead(req[r].kind))
  BY <1>3, <1>4, <1>5
<1>6. CASE Read(r)
  <2>1. CASE req[r].kind \in {"list", "versions", "ready"} /\ Answer(r, 200)
    BY <1>4, <2>1
  <2>2. CASE Answer(r, 404)
    BY <1>4, <2>2
  <2>3. CASE req' = [req EXCEPT ![r].at = "selecting", ![r].recipe = Found(req[r].number)]
    BY <1>2, <2>3
  <2> QED
    BY <1>5, <1>6, <2>1, <2>2, <2>3, Zenon DEF Read
<1>7. CASE Select(r)
  <2> DEFINE recipe == IF gone THEN Unselected(req[r].recipe) ELSE req[r].recipe
  <2>1. CASE req[r].kind = "version" /\ Answer(r, 200)
    BY <1>4, <2>1
  <2>2. CASE Answer(r, 400)
    BY <1>4, <2>2
  <2>3. CASE Answer(r, 502)
    BY <1>4, <2>3
  <2>4. CASE req' = [req EXCEPT ![r].at = "resolving", ![r].recipe = recipe]
    BY <1>2, <2>4
  <2> HIDE DEF recipe
  <2>5. \/ Answer(r, FailedRead(req[r].kind)) \/ (req[r].kind = "version" /\ Answer(r, 200))
        \/ IF NeedsSecret(recipe) THEN Answer(r, 400)
           ELSE IF ~Builds(recipe, req[r].params) THEN Answer(r, 502)
           ELSE req' = [req EXCEPT ![r].at = "resolving", ![r].recipe = recipe]
    BY <1>7, Zenon DEF Select, recipe
  <2> QED
    BY <1>5, <2>1, <2>2, <2>3, <2>4, <2>5, Zenon
<1> QED
  BY <1>6, <1>7

LEMMA StepAnswered == IInv /\ RenderAnswered /\ [Next]_vars => RenderAnswered'
<1> SUFFICES ASSUME IInv, RenderAnswered, [Next]_vars PROVE RenderAnswered'
  OBVIOUS
<1>1. req \in [Requests -> Request]
  BY DEF IInv, TypeOK
<1>2. ASSUME Cut PROVE RenderAnswered'
  <2> SUFFICES ASSUME NEW r \in Requests, Rendered(r)' PROVE req'[r].answer # NoAnswer
    BY DEF RenderAnswered
  <2>1. req'[r] = req[r] \/ req'[r].status = 0
    BY <1>1, <1>2, CutRequest
  <2> QED
    BY <2>1 DEF RenderAnswered, Rendered
<1>3. ASSUME req' = req PROVE RenderAnswered'
  BY <1>3 DEF RenderAnswered, Rendered
<1>4. ASSUME ProcessStep PROVE RenderAnswered'
  <2>1. Cut \/ req' = req
    BY <1>4 DEF ProcessStep, LoadConfig, Connect, Listen, ListenerDies, Signal, SelectSignal,
                SelectCrash, Drained, DrainExpires, Exits, MainStep
  <2> QED
    BY <1>2, <1>3, <2>1
<1>5. ASSUME NEW r \in Requests, RequestStep(r) PROVE RenderAnswered'
  <2>1. CASE \E kind \in Kinds, number \in 0..MaxVersions, params \in ParamSets :
                Arrive(r, kind, number, params)
    <3>1. PICK kind \in Kinds, number \in 0..MaxVersions, params \in ParamSets :
             Arrive(r, kind, number, params)
      BY <2>1
    <3>2. \A s \in Requests : s # r => req'[s] = req[s]
      BY <1>1, <3>1 DEF Arrive
    <3>3. ~Rendered(r)'
      BY <1>1, <3>1 DEF Arrive, Rendered, Settled, Idle
    <3> QED
      BY <3>2, <3>3 DEF RenderAnswered, Rendered
  <2>2. CASE Read(r) \/ Select(r)
    BY <2>2, QueryAnswered
  <2>3. CASE \E answer \in Answers : Respond(r, answer)
    <3>1. PICK answer \in Answers : Respond(r, answer)
      BY <2>3
    <3>2. \A s \in Requests : s # r => req'[s] = req[s]
      BY <1>1, <3>1 DEF Respond
    <3>3. req'[r].answer # NoAnswer
      BY <1>1, <3>1, NoneAssumption DEF Respond, NoneAssumption, Request
    <3> QED
      BY <3>2, <3>3 DEF RenderAnswered, Rendered
  <2> QED
    BY <1>5, <2>1, <2>2, <2>3 DEF RequestStep
<1>6. ASSUME NEW recipe \in Savable, Save(recipe) PROVE RenderAnswered'
  BY <1>3, <1>6 DEF Save
<1>7. CASE UNCHANGED vars \/ Delete
  BY <1>3, <1>7 DEF vars, Delete
<1> QED
  BY <1>4, <1>5, <1>6, <1>7 DEF Next

\* Whatever versions are stored and whatever the partner answers, a render that ends with
\* 200 holds selected names only, every required field, each of the declared type; and of
\* every field whose key is read back as it was selected it holds the very value that the
\* path leads to, or the default where that leads to nothing.  It holds nothing if the
\* pipeline was deleted between the queries of GetVersion, and then only (Resolver.Resolve,
\* mappings.Apply).
THEOREM RendersAsPromised == Spec => []RenderedAsPromised
<1>1. Spec => []RenderAnswered
  BY InitAnswered, StepAnswered, Invariance, PTL DEF Spec
<1>2. IInv /\ RenderAnswered => RenderedAsPromised
  <2> SUFFICES ASSUME IInv, RenderAnswered, NEW r \in Requests, Rendered(r)
               PROVE  IF req[r].recipe.set = NilSet THEN gone /\ req[r].output = NilOutput
                      ELSE Promised(req[r].recipe.set, req[r].answer.document, req[r].output)
    BY DEF RenderedAsPromised
  <2> DEFINE recipe == req[r].recipe
             answer == req[r].answer
             saved  == stored[req[r].number]
  <2>1. req[r] \in Request /\ answer # NoAnswer /\ stored \in Seq(Recipes)
    BY DEF IInv, TypeOK, RenderAnswered
  <2>2. /\ req[r].number \in DOMAIN stored
        /\ recipe = saved \/ (gone /\ recipe = Unselected(saved))
        /\ req[r].status = IF Resolve(recipe, answer).err = "ok" THEN 200 ELSE 502
        /\ req[r].output = IF Resolve(recipe, answer).err = "ok" THEN Resolve(recipe, answer).output
                           ELSE NoOutput
    BY <2>1 DEF IInv, OfVersion, Emptied
  <2>3. saved \in Recipes /\ answer \in Answers /\ recipe \in Loaded
    BY <2>1, <2>2 DEF Request, Loaded
  <2>4. /\ IsDocument(answer.document)
        /\ saved = [set |-> saved.set, needs |-> saved.needs, secret |-> saved.secret]
        /\ saved.set # NilSet
        /\ Unselected(saved) = WithoutSelection(saved)
        /\ saved.set \in Seq({saved.set[i] : i \in DOMAIN saved.set})
        /\ \A i \in DOMAIN saved.set : saved.set[i].default \in Scalars \cup {NoDefault}
        /\ Resolve(recipe, answer) = ResolveAnswer(recipe, answer)
    BY <2>3, ServingAssumption DEF ServingAssumption
  <2>5. ResolveAnswer(recipe, answer).err = "ok" /\ req[r].output = ResolveAnswer(recipe, answer).output
    BY <2>2, <2>4 DEF Rendered
  <2>6. CASE recipe = saved
    <3>1. /\ ~TooDeep(answer.document)
          /\ ValidateSet(recipe.set) = "ok"
          /\ ValidateAgainstSchema(Infer(<<answer.document>>), recipe.set) = "ok"
          /\ ResolveAnswer(recipe, answer) = Apply(recipe.set, answer.document)
      BY <2>4, <2>5, <2>6, Stagewise
    <3>2. Apply(recipe.set, answer.document).err = "ok"
          /\ req[r].output = Apply(recipe.set, answer.document).output
      BY <2>5, <3>1
    <3> DEFINE set    == recipe.set
               doc    == answer.document
               output == req[r].output
               S      == {set[i] : i \in DOMAIN set}
    <3>3. /\ set \in Seq(S) /\ IsDocument(doc) /\ ~TooDeep(doc)
          /\ \A i \in DOMAIN set : set[i].default \in Scalars \cup {NoDefault}
          /\ ValidateSet(set) = "ok" /\ ValidateAgainstSchema(Infer(<<doc>>), set) = "ok"
          /\ Apply(set, doc).err = "ok" /\ output = Apply(set, doc).output
      BY <2>4, <2>6, <3>1, <3>2
    <3> HIDE DEF S, set, doc, output
    <3>4. Promised(set, doc, output)
      BY <3>3, AppliedSelection
    <3>5. recipe.set # NilSet
      BY <2>4, <2>6
    <3> QED
      BY <3>4, <3>5 DEF set, doc, output
  <2>7. CASE gone /\ recipe = Unselected(saved)
    <3>1. recipe.set = NilSet
      BY <2>4, <2>7, Zenon DEF WithoutSelection
    <3>2. req[r].output = NilOutput
      BY <2>5, <3>1, NothingSelected
    <3> QED
      BY <2>7, <3>1, <3>2
  <2> QED
    BY <2>2, <2>6, <2>7
<1> QED
  BY <1>1, <1>2, Invariance, PTL
================================================================================
