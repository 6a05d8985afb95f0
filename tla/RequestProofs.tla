------------------------------ MODULE RequestProofs -----------------------------
(* For any number of drafts, whatever is pasted or loaded for each and       *)
(* whatever values it is built with: what BuildRequest makes of a draft's    *)
(* configuration.  A path is flattened from what its segments are filled     *)
(* with; what FlattenSeq yields is shown by induction over the natural       *)
(* numbers, in the form that a set which holds 0 and with n holds n + 1 has  *)
(* them all.                                                                 *)
EXTENDS DraftImportProofs, WellFoundedInduction

--------------------------------------------------------------------------------
(* The natural numbers.                                                      *)

\* A set of natural numbers has a least member.
LEMMA LeastMember ==
    ASSUME NEW T, T \subseteq Nat, T # {}
    PROVE  \E n \in T : \A m \in T : n <= m
<1> DEFINE R == {pair \in Nat \X Nat : pair[1] < pair[2]}
<1>1. OpToRel(<, Nat) = R
    BY Zenon DEF OpToRel
<1>2. IsWellFoundedOn(R, Nat)
    BY NatLessThanWellFounded, <1>1, Zenon
<1>3. ASSUME NEW m \in Nat, NEW n \in Nat, <<m, n>> \notin R
      PROVE  n <= m
  <2>1. ~(m < n)
      BY <1>3
  <2> QED BY <2>1
<1> HIDE DEF R
<1>4. PICK n \in T : \A m \in T : <<m, n>> \notin R
    BY <1>2, WFMin
<1>5. \A m \in T : n <= m
    BY <1>3, <1>4
<1> QED BY <1>5

\* Induction.
LEMMA EveryNumber ==
    ASSUME NEW T, 0 \in T, \A n \in Nat : n \in T => n + 1 \in T
    PROVE  Nat \subseteq T
<1>1. SUFFICES ASSUME Nat \ T # {} PROVE FALSE
    OBVIOUS
<1>2. PICK n \in Nat \ T : \A m \in Nat \ T : n <= m
    BY <1>1, LeastMember
<1>3. n - 1 \in Nat /\ n - 1 \in T
  <2>1. n # 0
      OBVIOUS
  <2>2. n - 1 \in Nat /\ ~(n <= n - 1)
      BY <2>1
  <2> QED BY <1>2, <2>2
<1>4. (n - 1) + 1 \in T
    BY <1>3
<1> QED BY <1>4

\* A set of positions has a first and a last.
LEMMA FirstAndLast ==
    ASSUME NEW n \in Nat, NEW places, places \subseteq 1..n, places # {}
    PROVE  /\ FirstOf(places) \in places /\ \A i \in places : FirstOf(places) <= i
           /\ LastOf(places) \in places /\ \A i \in places : i <= LastOf(places)
<1>1. \E first \in places : \A i \in places : first <= i
  <2>1. places \subseteq Nat
      OBVIOUS
  <2> QED BY <2>1, LeastMember
<1>2. \E last \in places : \A i \in places : i <= last
  <2> DEFINE fromEnd == {n - i : i \in places}
  <2>1. fromEnd \subseteq Nat /\ fromEnd # {}
    <3>1. \A i \in places : n - i \in Nat
        OBVIOUS
    <3> QED BY <3>1
  <2>2. PICK k \in fromEnd : \A m \in fromEnd : k <= m
    <3> HIDE DEF fromEnd
    <3> QED BY <2>1, LeastMember
  <2>3. PICK last \in places : k = n - last
      OBVIOUS
  <2>4. ASSUME NEW i \in places PROVE i <= last
    <3>1. n - last <= n - i
        BY <2>2, <2>3
    <3>2. i \in Nat /\ last \in Nat
        OBVIOUS
    <3> QED BY <3>1, <3>2
  <2> QED BY <2>4
<1>3. FirstOf(places) \in places /\ \A i \in places : FirstOf(places) <= i
    BY <1>1 DEF FirstOf
<1>4. LastOf(places) \in places /\ \A i \in places : i <= LastOf(places)
    BY <1>2 DEF LastOf
<1> QED BY <1>3, <1>4

--------------------------------------------------------------------------------
(* Flattening.                                                               *)

\* f[i] is what the first i sequences yield, for i up to n.
Flattens(f, seqs, n) ==
    f = [i \in 1..n |-> IF i = 1 THEN seqs[i] ELSE f[i - 1] \o seqs[i]]

LEMMA FlattensExists ==
    ASSUME NEW seqs, NEW n \in Nat
    PROVE  \E f : Flattens(f, seqs, n)
<1> DEFINE T == {m \in Nat : \E f : Flattens(f, seqs, m)}
<1>1. 0 \in T
  <2> DEFINE g == [i \in 1..0 |-> 0]
  <2>1. Flattens(g, seqs, 0)
      BY DEF Flattens
  <2> QED BY <2>1
<1>2. ASSUME NEW m \in Nat, m \in T
      PROVE  m + 1 \in T
  <2>1. PICK f : Flattens(f, seqs, m)
      BY <1>2
  <2> DEFINE g == [i \in 1..(m + 1) |-> IF i = m + 1 THEN IF i = 1 THEN seqs[i] ELSE f[i - 1] \o seqs[i]
                                        ELSE f[i]]
  <2>2. \A i \in 1..m : g[i] = f[i]
      OBVIOUS
  <2>3. \A i \in 1..m : f[i] = IF i = 1 THEN seqs[i] ELSE f[i - 1] \o seqs[i]
      BY <2>1 DEF Flattens
  <2>4. ASSUME NEW i \in 1..(m + 1)
        PROVE  g[i] = IF i = 1 THEN seqs[i] ELSE g[i - 1] \o seqs[i]
    <3>1. i # 1 => i - 1 \in 1..m
        OBVIOUS
    <3>2. i # 1 => g[i - 1] = f[i - 1]
        BY <2>2, <3>1
    <3>3. CASE i = m + 1
        BY <3>2, <3>3
    <3>4. CASE i # m + 1
      <4>1. i \in 1..m
          BY <3>4
      <4>2. g[i] = f[i]
          BY <2>2, <4>1
      <4> HIDE DEF g
      <4> QED BY <2>3, <3>2, <4>1, <4>2
    <3> QED BY <3>3, <3>4
  <2>5. Flattens(g, seqs, m + 1)
      BY <2>4 DEF Flattens
  <2> QED BY <2>5
<1> HIDE DEF T
<1>3. n \in T
    BY <1>1, <1>2, EveryNumber
<1> QED BY <1>3 DEF T

\* What FlattenSeq computes.
LEMMA FlattenIs ==
    ASSUME NEW S, NEW seqs \in Seq(S), Len(seqs) # 0
    PROVE  \E f : Flattens(f, seqs, Len(seqs)) /\ FlattenSeq(seqs) = f[Len(seqs)]
<1> DEFINE F == CHOOSE f : Flattens(f, seqs, Len(seqs))
<1>1. FlattenSeq(seqs) = F[Len(seqs)]
    BY DEF FlattenSeq, Flattens
<1>2. Flattens(F, seqs, Len(seqs))
  <2>1. Len(seqs) \in Nat
      OBVIOUS
  <2>2. \E f : Flattens(f, seqs, Len(seqs))
      BY <2>1, FlattensExists
  <2> QED BY <2>2
<1> QED BY <1>1, <1>2

\* Its value at n + 1 from that at n.
LEMMA FlattensStep ==
    ASSUME NEW f, NEW seqs, NEW n \in Nat, Flattens(f, seqs, n), NEW m \in Nat, m + 1 \in 1..n
    PROVE  /\ m = 0 => f[m + 1] = seqs[1]
           /\ m # 0 => m \in 1..n /\ f[m + 1] = f[m] \o seqs[m + 1]
<1>1. f[m + 1] = IF m + 1 = 1 THEN seqs[m + 1] ELSE f[(m + 1) - 1] \o seqs[m + 1]
    BY DEF Flattens
<1>2. (m + 1) - 1 = m
    OBVIOUS
<1>3. m = 0 => f[m + 1] = seqs[1]
    BY <1>1
<1>4. m # 0 => m \in 1..n /\ m + 1 # 1
    OBVIOUS
<1>5. m # 0 => f[m + 1] = f[m] \o seqs[m + 1]
    BY <1>1, <1>2, <1>4, Zenon
<1> QED BY <1>3, <1>4, <1>5

\* Sequences of members of S make one of such.
LEMMA FlattenType ==
    ASSUME NEW S, NEW seqs \in Seq(Seq(S))
    PROVE  FlattenSeq(seqs) \in Seq(S)
<1>1. CASE Len(seqs) = 0
  <2>1. FlattenSeq(seqs) = seqs
      BY <1>1 DEF FlattenSeq
  <2>2. seqs = << >>
      BY <1>1
  <2>3. << >> \in Seq(S)
      OBVIOUS
  <2> QED BY <2>1, <2>2, <2>3
<1>2. CASE Len(seqs) # 0
  <2>1. PICK f : Flattens(f, seqs, Len(seqs)) /\ FlattenSeq(seqs) = f[Len(seqs)]
      BY <1>2, FlattenIs
  <2> DEFINE T == {m \in Nat : m \in 1..Len(seqs) => f[m] \in Seq(S)}
  <2>2. Len(seqs) \in Nat /\ Len(seqs) \in 1..Len(seqs)
      BY <1>2
  <2>3. 0 \in T
      OBVIOUS
  <2>4. ASSUME NEW m \in Nat, m \in T
        PROVE  m + 1 \in T
    <3>1. SUFFICES ASSUME m + 1 \in 1..Len(seqs) PROVE f[m + 1] \in Seq(S)
        OBVIOUS
    <3>2. /\ m = 0 => f[m + 1] = seqs[1]
          /\ m # 0 => m \in 1..Len(seqs) /\ f[m + 1] = f[m] \o seqs[m + 1]
        BY <2>1, <2>2, <3>1, FlattensStep
    <3>3. seqs[m + 1] \in Seq(S)
        BY <3>1
    <3>4. CASE m = 0
        BY <3>2, <3>3, <3>4
    <3>5. CASE m # 0
      <4>1. f[m] \in Seq(S)
          BY <2>4, <3>2, <3>5
      <4>2. f[m] \o seqs[m + 1] \in Seq(S)
          BY <3>3, <4>1
      <4> QED BY <3>2, <3>5, <4>2
    <3> QED BY <3>4, <3>5
  <2> HIDE DEF T
  <2>5. Nat \subseteq T
      BY <2>3, <2>4, EveryNumber
  <2>6. Len(seqs) \in T
      BY <2>2, <2>5
  <2> QED BY <2>1, <2>2, <2>6 DEF T
<1> QED BY <1>1, <1>2

LEMMA SequenceIs ==
    ASSUME NEW S, NEW s \in Seq(S)
    PROVE  s = [i \in 1..Len(s) |-> s[i]]
OBVIOUS

\* One more at the end.
LEMMA ConcatOne ==
    ASSUME NEW S, NEW s \in Seq(S), NEW t \in Seq(S)
    PROVE  Len(t) = 1 => s \o t = [j \in 1..(Len(s) + 1) |-> IF j = Len(s) + 1 THEN t[1] ELSE s[j]]
<1>1. Len(s) \in Nat
    OBVIOUS
<1>2. s \o t \in Seq(S)
    OBVIOUS
<1>3. Len(s \o t) = Len(s) + Len(t)
    OBVIOUS
<1>4. \A j \in 1..Len(s) : (s \o t)[j] = s[j]
    OBVIOUS
<1>5. ASSUME NEW k \in 1..Len(t)
      PROVE  (s \o t)[Len(s) + k] = t[k]
    OBVIOUS
<1>6. s \o t = [j \in 1..Len(s \o t) |-> (s \o t)[j]]
    BY <1>2, SequenceIs, Zenon
<1>7. PICK u : u = s \o t
    OBVIOUS
<1>8. PICK n \in Nat : n = Len(s)
    BY <1>1
<1>9. u = [j \in 1..Len(u) |-> u[j]] /\ Len(u) = n + Len(t) /\ \A j \in 1..n : u[j] = s[j]
    BY <1>3, <1>4, <1>6, <1>7, <1>8, Zenon
<1>10. \A k \in 1..Len(t) : u[n + k] = t[k]
    BY <1>5, <1>7, <1>8, Zenon
<1>11. SUFFICES ASSUME Len(t) = 1
                PROVE  u = [j \in 1..(n + 1) |-> IF j = n + 1 THEN t[1] ELSE s[j]]
    BY <1>7, <1>8, Zenon
<1>12. u = [j \in 1..(n + 1) |-> u[j]]
    BY <1>9, <1>11, Zenon
<1>13. u[n + 1] = t[1]
    BY <1>10, <1>11
<1>14. \A j \in 1..(n + 1) : j # n + 1 => j \in 1..n
    OBVIOUS
<1>15. \A j \in 1..(n + 1) : u[j] = IF j = n + 1 THEN t[1] ELSE s[j]
    BY <1>9, <1>13, <1>14, Zenon
<1> QED BY <1>12, <1>15, Zenon

\* Sequences of one member each make the sequence of those.
LEMMA FlattenSingles ==
    ASSUME NEW S, NEW seqs \in Seq(Seq(S)), \A i \in 1..Len(seqs) : Len(seqs[i]) = 1
    PROVE  FlattenSeq(seqs) = [i \in 1..Len(seqs) |-> seqs[i][1]]
<1>0. Len(seqs) \in Nat /\ \A j \in 1..Len(seqs) : seqs[j] \in Seq(S) /\ seqs[j][1] \in S
    OBVIOUS
<1> DEFINE First(m) == [j \in 1..m |-> seqs[j][1]]
<1>1. CASE Len(seqs) = 0
  <2>1. FlattenSeq(seqs) = seqs
      BY <1>1 DEF FlattenSeq
  <2>2. seqs = << >>
      BY <1>1
  <2>3. First(0) = << >>
      OBVIOUS
  <2> QED BY <1>1, <2>1, <2>2, <2>3
<1>2. CASE Len(seqs) # 0
  <2>1. PICK f : Flattens(f, seqs, Len(seqs)) /\ FlattenSeq(seqs) = f[Len(seqs)]
      BY <1>2, FlattenIs
  <2> DEFINE T == {m \in Nat : m \in 1..Len(seqs) => f[m] = First(m)}
  <2>2. Len(seqs) \in Nat /\ Len(seqs) \in 1..Len(seqs)
      BY <1>2
  <2>3. 0 \in T
      OBVIOUS
  <2>4. ASSUME NEW m \in Nat, m \in T
        PROVE  m + 1 \in T
    <3>1. SUFFICES ASSUME m + 1 \in 1..Len(seqs) PROVE f[m + 1] = First(m + 1)
        OBVIOUS
    <3>2. /\ m = 0 => f[m + 1] = seqs[1]
          /\ m # 0 => m \in 1..Len(seqs) /\ f[m + 1] = f[m] \o seqs[m + 1]
        BY <2>1, <2>2, <3>1, FlattensStep
    <3>3. /\ seqs[m + 1] \in Seq(S) /\ Len(seqs[m + 1]) = 1
          /\ \A j \in 1..m : seqs[j][1] \in S
        BY <1>0, <3>1
    <3>4. CASE m = 0
      <4>1. f[m + 1] = seqs[1] /\ Len(seqs[1]) = 1 /\ seqs[1] \in Seq(S)
          BY <3>2, <3>3, <3>4
      <4>2. seqs[1] = First(1)
          BY <4>1
      <4> QED BY <3>4, <4>1, <4>2
    <3>5. CASE m # 0
      <4>1. f[m] = First(m)
          BY <2>4, <3>2, <3>5
      <4>2. First(m) \in Seq(S) /\ Len(First(m)) = m
          BY <3>3
      <4>3. First(m) \o seqs[m + 1] = First(m + 1)
        <5>1. \A j \in 1..(m + 1) : j # m + 1 => j \in 1..m
            OBVIOUS
        <5>2. First(m) \o seqs[m + 1]
                  = [j \in 1..(m + 1) |-> IF j = m + 1 THEN seqs[m + 1][1] ELSE First(m)[j]]
          <6> HIDE DEF First
          <6> DEFINE left == First(m)
                     right == seqs[m + 1]
          <6>1. left \in Seq(S) /\ right \in Seq(S) /\ Len(left) = m /\ Len(right) = 1
              BY <3>3, <4>2
          <6> HIDE DEF left, right
          <6>2. left \o right
                    = [j \in 1..(Len(left) + 1) |-> IF j = Len(left) + 1 THEN right[1] ELSE left[j]]
              BY <6>1, ConcatOne, Zenon
          <6>3. left \o right = [j \in 1..(m + 1) |-> IF j = m + 1 THEN right[1] ELSE left[j]]
              BY <6>1, <6>2, Zenon
          <6> QED BY <6>3, Zenon DEF left, right
        <5> QED BY <5>1, <5>2
      <4> QED BY <3>2, <3>5, <4>1, <4>3
    <3> QED BY <3>4, <3>5
  <2> HIDE DEF T
  <2>5. Nat \subseteq T
      BY <2>3, <2>4, EveryNumber
  <2>6. Len(seqs) \in T
      BY <2>2, <2>5
  <2> QED BY <2>1, <2>2, <2>6 DEF T
<1> QED BY <1>1, <1>2
--------------------------------------------------------------------------------
(* Paths are sequences of texts.                                             *)

Paths == \A d \in Drafts : config[d].path \in Seq(PathTexts)

LEMMA ReadPathType ==
    ASSUME NEW path \in Seq(PathTexts)
    PROVE  ReadPath(path) \in Seq(PathTexts)
<1> DEFINE read == [i \in DOMAIN path |-> Decode(path[i])]
<1>1. \A i \in 1..Len(path) : Decode(path[i]) \in Seq(PathTexts)
    BY PathAssumption
<1>2. read \in Seq(Seq(PathTexts))
    BY <1>1
<1> HIDE DEF read
<1>3. FlattenSeq(read) \in Seq(PathTexts)
    BY <1>2, FlattenType
<1> QED BY <1>3 DEF ReadPath, read

LEMMA TrimmedType ==
    ASSUME NEW S, NEW path \in Seq(S)
    PROVE  Trimmed(path) \in Seq(S)
<1> DEFINE full == {i \in DOMAIN path : path[i] # ""}
<1>1. CASE full = {}
  <2>1. << >> \in Seq(S)
      OBVIOUS
  <2> QED BY <1>1, <2>1 DEF Trimmed
<1>2. CASE full # {}
  <2>1. Len(path) \in Nat /\ full \subseteq 1..Len(path)
    <3>1. Len(path) \in Nat /\ DOMAIN path = 1..Len(path)
        OBVIOUS
    <3> QED BY <3>1
  <2>2. Trimmed(path) = SubSeq(path, FirstOf(full), LastOf(full))
      BY <1>2 DEF Trimmed
  <2> HIDE DEF full
  <2>3. FirstOf(full) \in 1..Len(path) /\ LastOf(full) \in 1..Len(path)
      BY <1>2, <2>1, FirstAndLast
  <2>4. \A m, n \in 1..Len(path) : SubSeq(path, m, n) \in Seq(S)
      OBVIOUS
  <2> QED BY <2>2, <2>3, <2>4
<1> QED BY <1>1, <1>2

LEMMA ExceptType ==
    ASSUME NEW S, NEW s \in Seq(S), NEW k \in DOMAIN s, NEW new \in S
    PROVE  [s EXCEPT ![k] = new] \in Seq(S)
OBVIOUS

LEMMA SegmentsType ==
    ASSUME Paths, NEW d \in Drafts
    PROVE  Segments(d) \in Seq(PathTexts)
BY ReadPathType, TrimmedType DEF Paths, Segments

\* The paths that steps make: of what is pasted or loaded, and with a placeholder in it.
LEMMA BlankPath ==
    ASSUME NEW d \in Drafts, NEW c \in Commands(d), Parses(c)
    PROVE  Blank(c).path \in Seq(PathTexts)
<1>1. URL(c).path \in Seq(PathTexts)
    BY PathAssumption
<1>2. Blank(c).path = ReadPath(URL(c).path)
    BY DEF Blank, NoConfig
<1> QED BY <1>1, <1>2, ReadPathType

LEMMA PathsStep ==
    ASSUME TypeOK, Paths, [Next]_vars
    PROVE  Paths'
<1>1. SUFFICES ASSUME NEW d \in Drafts
               PROVE  config'[d].path \in Seq(PathTexts)
    BY DEF Paths
<1>2. config[d].path \in Seq(PathTexts)
    BY DEF Paths
<1>3. NoConfig.path \in Seq(PathTexts)
  <2>1. << >> \in Seq(PathTexts)
      OBVIOUS
  <2> QED BY <2>1 DEF NoConfig
<1>4. CASE UNCHANGED vars
    BY <1>2, <1>4 DEF vars
<1>5. ASSUME NEW x \in Drafts,
             \/ Paste(x) \/ Keep(x) \/ Lift(x) \/ StoreFails(x) \/ ConvertBody(x)
             \/ MakePathDynamic(x) \/ Load(x) \/ Build(x)
      PROVE  config'[d].path \in Seq(PathTexts)
  <2>1. x # d => config'[d] = config[d]
    <3>1. \/ config' = config
          \/ \E new : config' = [config EXCEPT ![x] = new]
          \/ \E new : config' = [config EXCEPT ![x].entries = new]
          \/ \E new : config' = [config EXCEPT ![x].auth = new]
          \/ \E new : config' = [config EXCEPT ![x].body = new]
          \/ \E path, params : config' = [config EXCEPT ![x].path = path, ![x].params = params]
        BY <1>5 DEF Paste, Refuse, Convert, Keep, Lift, StoreFails, ConvertBody,
                    MakePathDynamic, MakeDynamic, MakeDynamicFails, Load, Build
    <3> QED BY <3>1 DEF TypeOK
  <2>2. CASE x # d
      BY <1>2, <2>1, <2>2
  <2>3. CASE x = d
    <3>1. CASE Paste(x)
      <4>1. PICK c \in Commands(x) : Refuse(x, c) \/ Convert(x, c)
          BY <3>1 DEF Paste
      <4>2. CASE Convert(x, c)
        <5>1. config'[x] = Blank(c) /\ Parses(c)
            BY <4>2 DEF Convert, TypeOK
        <5> QED BY <2>3, <5>1, BlankPath
      <4> QED BY <1>2, <4>1, <4>2 DEF Refuse
    <3>2. CASE Keep(x) \/ Lift(x) \/ ConvertBody(x)
      <4>1. \/ config'[x] = NoConfig
            \/ \E new : config' = [config EXCEPT ![x].entries = new]
            \/ \E new : config' = [config EXCEPT ![x].auth = new]
            \/ \E new : config' = [config EXCEPT ![x].body = new]
          BY <3>2 DEF Keep, Lift, ConvertBody, TypeOK
      <4>2. config'[x] = NoConfig \/ config'[x].path = config[x].path
          BY <4>1, RecordFields DEF TypeOK
      <4> QED BY <1>2, <1>3, <2>3, <4>2
    <3>3. CASE StoreFails(x)
      <4>1. config'[x] = NoConfig
          BY <3>3 DEF StoreFails, TypeOK
      <4> QED BY <1>3, <2>3, <4>1
    <3>4. CASE MakePathDynamic(x)
      <4>1. PICK k \in 0..(Len(config[x].path) + 1), name \in Names :
               MakeDynamic(x, k, name) \/ MakeDynamicFails(x, k, name)
          BY <3>4 DEF MakePathDynamic
      <4>2. CASE MakeDynamic(x, k, name)
        <5>1. /\ k \in DOMAIN Segments(x)
              /\ config' = [config EXCEPT
                    ![x].path = [Segments(x) EXCEPT ![k] = Braced(name)],
                    ![x].params = Put(config[x].params, name, PathParam(Segments(x)[k]))]
            BY <4>2 DEF MakeDynamic
        <5>2. config'[x].path = [Segments(x) EXCEPT ![k] = Braced(name)]
            BY <5>1, RecordFields DEF TypeOK
        <5>3. Segments(x) \in Seq(PathTexts) /\ Braced(name) \in PathTexts
            BY SegmentsType, PathAssumption
        <5>4. [Segments(x) EXCEPT ![k] = Braced(name)] \in Seq(PathTexts)
            BY <5>1, <5>3, ExceptType
        <5> QED BY <2>3, <5>2, <5>4
      <4> QED BY <1>2, <2>3, <4>1, <4>2 DEF MakeDynamicFails
    <3>5. CASE Load(x)
      <4>1. \E c \in Stored(x) : config'[x] = c
          BY <3>5 DEF Load, TypeOK
      <4> QED BY <2>3, <4>1, PathAssumption
    <3>6. CASE Build(x)
        BY <1>2, <3>6 DEF Build
    <3> QED BY <1>5, <3>1, <3>2, <3>3, <3>4, <3>5, <3>6
  <2> QED BY <2>2, <2>3
<1> QED BY <1>4, <1>5 DEF Next
--------------------------------------------------------------------------------
(* What comes of a build.                                                    *)

\* No error is called "ok".
LEMMA ErrorsAreNamed ==
    ASSUME NEW cfg, NEW given, NEW secrets
    PROVE  "ok" \notin BuildErrors(cfg, given, secrets)
<1> DEFINE stages  == Stages(cfg, given, secrets)
           failing == {i \in DOMAIN stages : stages[i] # {}}
<1>1. DOMAIN stages = 1..7 /\ \A i \in 1..7 : "ok" \notin stages[i]
  <2>1. \A entries, error : error # "ok" => "ok" \notin EntryErrors(entries, secrets, error)
      BY DEF EntryErrors
  <2>2. \A params, values_ : "ok" \notin ParameterErrors(params, values_)
      BY DEF ParameterErrors
  <2>3. \A resolved : "ok" \notin PathErrors(cfg, resolved)
      BY DEF PathErrors
  <2>4. \A resolved : "ok" \notin BodyErrors(cfg, resolved)
      BY DEF BodyErrors
  <2>5. \A auth : "ok" \notin AuthErrors(auth, secrets)
      BY DEF AuthErrors
  <2>6. "ok" \notin {"ErrUnsupportedMethod" : m \in {Method(cfg)} \ allowedMethods}
      OBVIOUS
  <2> QED BY <2>1, <2>2, <2>3, <2>4, <2>5, <2>6 DEF Stages
<1> HIDE DEF stages
<1>2. CASE failing = {}
    BY <1>2 DEF BuildErrors, stages
<1>3. CASE failing # {}
  <2> DEFINE first == CHOOSE i \in failing : \A j \in failing : i <= j
  <2>1. failing \subseteq Nat
      BY <1>1
  <2>2. \E i \in failing : \A j \in failing : i <= j
    <3> HIDE DEF failing
    <3> QED BY <1>3, <2>1, LeastMember
  <2>3. first \in failing
      BY <2>2
  <2>4. BuildErrors(cfg, given, secrets) = stages[first]
      BY <1>3 DEF BuildErrors, stages
  <2> QED BY <1>1, <2>3, <2>4
<1> QED BY <1>2, <1>3

LEMMA NoErrors ==
    ASSUME NEW cfg, NEW given, NEW secrets, BuildErrors(cfg, given, secrets) = {}
    PROVE  LET resolved == Resolved(cfg.params, given)
           IN  /\ Method(cfg) \in allowedMethods
               /\ ParameterErrors(cfg.params, given) = {}
               /\ PathErrors(cfg, resolved) = {}
               /\ EntryErrors(EntriesOf(cfg, "query"), secrets, "ErrInvalidQueryParam") = {}
               /\ BodyErrors(cfg, resolved) = {}
               /\ EntryErrors(EntriesOf(cfg, "header"), secrets, "ErrInvalidHeader") = {}
               /\ AuthErrors(cfg.auth, secrets) = {}
<1> DEFINE stages  == Stages(cfg, given, secrets)
           failing == {i \in DOMAIN stages : stages[i] # {}}
<1>1. DOMAIN stages = 1..7
    BY DEF Stages
<1> HIDE DEF stages
<1>2. failing = {}
  <2>1. SUFFICES ASSUME failing # {} PROVE FALSE
      OBVIOUS
  <2> DEFINE first == CHOOSE i \in failing : \A j \in failing : i <= j
  <2>2. failing \subseteq Nat
      BY <1>1
  <2>3. \E i \in failing : \A j \in failing : i <= j
    <3> HIDE DEF failing
    <3> QED BY <2>1, <2>2, LeastMember
  <2>4. first \in failing
      BY <2>3
  <2>5. BuildErrors(cfg, given, secrets) = stages[first]
      BY <2>1 DEF BuildErrors, stages
  <2> QED BY <2>4, <2>5
<1>3. /\ stages[1] = {} /\ stages[2] = {} /\ stages[3] = {} /\ stages[4] = {}
      /\ stages[5] = {} /\ stages[6] = {} /\ stages[7] = {}
    BY <1>1, <1>2
<1> QED BY <1>3 DEF stages, Stages

\* The entries as they are sent when no parameter comes over them, and what the
\* parameters may make of them.
EntryQuery(cfg, secrets)   == LastValues(cfg, "query", secrets, Same)
EntryHeaders(cfg, secrets) == LastValues(cfg, "header", secrets, Lower)

QueryOver(sent, cfg, resolved)   == Overridden(sent, cfg, resolved, "query", Same)
HeadersOver(sent, cfg, resolved) == Overridden(sent, cfg, resolved, "header", Lower)

\* A request was built from a configuration without errors.
LEMMA OkIsRequest ==
    ASSUME NEW cfg, NEW given, NEW secrets, NEW request \in Outcomes(cfg, given, secrets),
           request.err = "ok"
    PROVE  LET resolved == Resolved(cfg.params, given)
           IN  /\ BuildErrors(cfg, given, secrets) = {}
               /\ request.method = Method(cfg) /\ request.base = cfg.base
               /\ request.path = substitutePath(cfg, resolved)
               /\ request.body = substituteBody(cfg, resolved)
               /\ request.query \in QueryOver(EntryQuery(cfg, secrets), cfg, resolved)
               /\ request.headers
                      \in HeadersOver(applyAuthentication(EntryHeaders(cfg, secrets), cfg.auth, secrets),
                                      cfg, resolved)
<1>1. CASE BuildErrors(cfg, given, secrets) # {}
  <2>1. \E e \in BuildErrors(cfg, given, secrets) : request = [err |-> e]
      BY <1>1 DEF Outcomes
  <2> QED BY <2>1, ErrorsAreNamed
<1>2. CASE BuildErrors(cfg, given, secrets) = {}
    BY <1>2 DEF Outcomes, EntryQuery, EntryHeaders, QueryOver, HeadersOver
<1> QED BY <1>1, <1>2
--------------------------------------------------------------------------------
(* Values fill their places and nothing else.                                *)

\* A path whose segments are filled with one each.
LEMMA FilledSingles ==
    ASSUME NEW cfg, cfg.path \in Seq(PathTexts), NEW resolved,
           \A i \in DOMAIN cfg.path : Len(Filled(cfg.params, resolved, cfg.path[i])) = 1
    PROVE  substitutePath(cfg, resolved)
               = [i \in 1..Len(cfg.path) |-> Filled(cfg.params, resolved, cfg.path[i])[1]]
<1> DEFINE texts == PathTexts \cup {resolved[p] : p \in DOMAIN cfg.params}
           seqs  == [i \in DOMAIN cfg.path |-> Filled(cfg.params, resolved, cfg.path[i])]
<1>1. ASSUME NEW i \in DOMAIN cfg.path
      PROVE  Filled(cfg.params, resolved, cfg.path[i]) \in Seq(texts)
  <2>1. CASE Literal(cfg.params, cfg.path[i])
    <3>1. Decode(cfg.path[i]) \in Seq(PathTexts)
        BY PathAssumption
    <3>2. Decode(cfg.path[i]) \in Seq(texts)
      <4>1. PathTexts \subseteq texts
          OBVIOUS
      <4> HIDE DEF texts
      <4> QED BY <3>1, <4>1
    <3> QED BY <2>1, <3>2 DEF Filled
  <2>2. CASE ~Literal(cfg.params, cfg.path[i])
    <3> DEFINE held == CHOOSE p \in HeldBy(cfg.params, cfg.path[i]) : TRUE
    <3>1. held \in DOMAIN cfg.params
        BY <2>2 DEF Literal, HeldBy, Located
    <3>2. resolved[held] \in texts
        BY <3>1
    <3>3. Filled(cfg.params, resolved, cfg.path[i]) = << resolved[held] >>
        BY <2>2 DEF Filled
    <3> HIDE DEF texts, held
    <3> QED BY <3>2, <3>3
  <2> QED BY <2>1, <2>2
<1>2. DOMAIN cfg.path = 1..Len(cfg.path) /\ Len(cfg.path) \in Nat
    OBVIOUS
<1> HIDE DEF texts
<1>3. seqs \in Seq(Seq(texts)) /\ Len(seqs) = Len(cfg.path)
    BY <1>1, <1>2
<1>4. \A i \in 1..Len(seqs) : /\ seqs[i] = Filled(cfg.params, resolved, cfg.path[i])
                              /\ Len(seqs[i]) = 1
    BY <1>2, <1>3
<1>5. substitutePath(cfg, resolved) = FlattenSeq(seqs)
    BY DEF substitutePath
<1> HIDE DEF seqs
<1>6. FlattenSeq(seqs) = [i \in 1..Len(seqs) |-> seqs[i][1]]
    BY <1>3, <1>4, FlattenSingles
<1> QED BY <1>3, <1>4, <1>5, <1>6

LEMMA PathIsInPlace ==
    ASSUME NEW cfg, cfg.path \in Seq(PathTexts), NEW resolved, NEW request,
           request.path = substitutePath(cfg, resolved)
    PROVE  PathInPlace(cfg, request)
<1>1. SUFFICES ASSUME \A i \in DOMAIN cfg.path : Len(Decode(cfg.path[i])) = 1
               PROVE  /\ Len(request.path) = Len(cfg.path)
                      /\ \A i \in DOMAIN cfg.path :
                            \/ \E p \in DOMAIN cfg.params : cfg.path[i] = Braced(p)
                            \/ << request.path[i] >> = Decode(cfg.path[i])
    BY DEF PathInPlace
<1>2. \A i \in DOMAIN cfg.path : Len(Filled(cfg.params, resolved, cfg.path[i])) = 1
    BY <1>1 DEF Filled
<1>3. request.path = [i \in 1..Len(cfg.path) |-> Filled(cfg.params, resolved, cfg.path[i])[1]]
    BY <1>2, FilledSingles
<1>4. DOMAIN cfg.path = 1..Len(cfg.path) /\ Len(cfg.path) \in Nat
    OBVIOUS
<1>5. Len(request.path) = Len(cfg.path)
    BY <1>3, <1>4
<1>6. ASSUME NEW i \in DOMAIN cfg.path, \A p \in DOMAIN cfg.params : cfg.path[i] # Braced(p)
      PROVE  << request.path[i] >> = Decode(cfg.path[i])
  <2>1. Filled(cfg.params, resolved, cfg.path[i]) = Decode(cfg.path[i])
      BY <1>6 DEF Filled, Literal, HeldBy, Located
  <2>2. request.path[i] = Decode(cfg.path[i])[1]
      BY <1>3, <1>4, <2>1
  <2>3. Decode(cfg.path[i]) \in Seq(PathTexts) /\ Len(Decode(cfg.path[i])) = 1
      BY <1>1, PathAssumption
  <2>4. \A s \in Seq(PathTexts) : Len(s) = 1 => << s[1] >> = s
      OBVIOUS
  <2> QED BY <2>2, <2>3, <2>4
<1> QED BY <1>5, <1>6

LEMMA BodyIsInPlace ==
    ASSUME NEW cfg, NEW given, NEW request,
           ParameterErrors(cfg.params, given) = {},
           BodyErrors(cfg, Resolved(cfg.params, given)) = {},
           request.body = substituteBody(cfg, Resolved(cfg.params, given))
    PROVE  BodyInPlace(cfg, request)
<1> DEFINE resolved == Resolved(cfg.params, given)
<1>1. DOMAIN request.body = DOMAIN cfg.body
    BY DEF substituteBody
<1>2. ASSUME NEW place \in DOMAIN cfg.body, Whole(cfg.body[place])
      PROVE  LET def == cfg.params[cfg.body[place].parts[1].text]
             IN  request.body[place].type = IF def.type = "" THEN "string" ELSE def.type
  <2> DEFINE leaf == cfg.body[place]
             name == leaf.parts[1].text
             def  == cfg.params[name]
             used == UNION {{l.parts[i].text : i \in {j \in DOMAIN l.parts : l.parts[j].hole}}
                            : l \in {cfg.body[at_] : at_ \in DOMAIN cfg.body}}
  <2>1. name \in used
    <3>1. 1 \in DOMAIN leaf.parts /\ leaf.parts[1].hole
        BY <1>2 DEF Whole
    <3> QED BY <3>1
  <2>2. used \subseteq Located(cfg.params, "body") /\ used \subseteq DOMAIN resolved
      BY DEF BodyErrors
  <2>3. name \in DOMAIN cfg.params /\ name \in DOMAIN resolved
    <3> HIDE DEF used, name, resolved
    <3> QED BY <2>1, <2>2 DEF Located
  <2>4. Accepts(def, resolved[name])
    <3> HIDE DEF name
    <3> QED BY <2>3 DEF ParameterErrors
  <2>5. def.type \in {"", "string", "integer", "number", "boolean"}
      BY <2>4 DEF Accepts
  <2>6. request.body[place] = typedBodyValue(def, resolved[name])
      BY <1>2 DEF substituteBody, substituteValue
  <2> HIDE DEF def, name, resolved
  <2>7. typedBodyValue(def, resolved[name]).type = IF def.type = "" THEN "string" ELSE def.type
      BY <2>5 DEF typedBodyValue
  <2> QED BY <2>6, <2>7 DEF def, name
<1> QED BY <1>1, <1>2 DEF BodyInPlace

\* A draft is built last.
BuiltLast ==
    /\ built = [d \in Drafts |-> built[d]]
    /\ \A d \in Drafts : built[d] # NotBuilt => at[d] = "built"

\* The inductive invariant.
RequestInv == TypeOK /\ Paths /\ BuiltLast /\ FilledInPlace

LEMMA InitRequestInv == Init => RequestInv
<1> SUFFICES ASSUME Init PROVE RequestInv
    OBVIOUS
<1>1. TypeOK
    BY InitIInv DEF IInv
<1>2. Paths
  <2>1. << >> \in Seq(PathTexts)
      OBVIOUS
  <2> QED BY <2>1 DEF Init, Paths, NoConfig
<1>3. BuiltLast
    BY DEF Init, BuiltLast
<1>4. FilledInPlace
    BY DEF Init, FilledInPlace, NotBuilt
<1> QED BY <1>1, <1>2, <1>3, <1>4 DEF RequestInv

\* Before a draft is built nothing has come of it.
LEMMA NotBuiltYet ==
    ASSUME BuiltLast, NEW d \in Drafts, at[d] # "built"
    PROVE  built[d].err # "ok"
BY DEF BuiltLast, NotBuilt

LEMMA BuildFills ==
    ASSUME RequestInv, NEW d \in Drafts, Build(d)
    PROVE  BuiltLast' /\ FilledInPlace'
<1> USE DEF RequestInv
<1>0. PICK given \in {Examples(config[d].params)} \cup ParamSets :
         \E request \in Outcomes(config[d], given, store) : built' = [built EXCEPT ![d] = request]
    BY DEF Build
<1>1. PICK request \in Outcomes(config[d], given, store) : built' = [built EXCEPT ![d] = request]
    BY <1>0
<1>2. at[d] = "ready" /\ at' = [at EXCEPT ![d] = "built"] /\ config' = config
    BY DEF Build
<1>3. /\ built'[d] = request /\ \A x \in Drafts \ {d} : built'[x] = built[x]
      /\ built' = [x \in Drafts |-> built'[x]]
    BY <1>1 DEF BuiltLast
<1>4. BuiltLast'
    BY <1>2, <1>3 DEF BuiltLast, TypeOK
<1>5. ASSUME request.err = "ok"
      PROVE  PathInPlace(config[d], request) /\ BodyInPlace(config[d], request)
  <2>1. /\ BuildErrors(config[d], given, store) = {}
        /\ request.path = substitutePath(config[d], Resolved(config[d].params, given))
        /\ request.body = substituteBody(config[d], Resolved(config[d].params, given))
      BY <1>5, OkIsRequest
  <2>2. /\ ParameterErrors(config[d].params, given) = {}
        /\ BodyErrors(config[d], Resolved(config[d].params, given)) = {}
      BY <2>1, NoErrors
  <2>3. config[d].path \in Seq(PathTexts)
      BY DEF Paths
  <2> QED BY <2>1, <2>2, <2>3, PathIsInPlace, BodyIsInPlace
<1>6. FilledInPlace'
    BY <1>2, <1>3, <1>5 DEF FilledInPlace
<1> QED BY <1>4, <1>6

\* The other steps leave what is built, and the drafts it was built from, alone.
LEMMA BuiltStays ==
    ASSUME TypeOK, NEW x \in Drafts,
           \/ Paste(x) \/ Keep(x) \/ Lift(x) \/ StoreFails(x) \/ ConvertBody(x)
           \/ MakePathDynamic(x) \/ Load(x)
    PROVE  /\ UNCHANGED <<built, values>>
           /\ \A d \in Drafts : at[d] = "built" => /\ at'[d] = "built" /\ config'[d] = config[d]
                                                   /\ command'[d] = command[d]
<1>1. CASE Paste(x)
    BY <1>1 DEF Paste, Refuse, Convert, TypeOK
<1>2. CASE Keep(x)
    BY <1>2 DEF Keep, IsNext, TypeOK
<1>3. CASE Lift(x)
    BY <1>3 DEF Lift, IsNext, TypeOK
<1>4. CASE StoreFails(x)
    BY <1>4 DEF StoreFails, IsNext, TypeOK
<1>5. CASE ConvertBody(x)
    BY <1>5 DEF ConvertBody, TypeOK
<1>6. CASE MakePathDynamic(x)
    BY <1>6 DEF MakePathDynamic, MakeDynamic, MakeDynamicFails, TypeOK
<1>7. CASE Load(x)
    BY <1>7 DEF Load, TypeOK
<1> QED BY <1>1, <1>2, <1>3, <1>4, <1>5, <1>6, <1>7

LEMMA StepRequestInv ==
    ASSUME RequestInv, TypeOK', [Next]_vars
    PROVE  RequestInv'
<1> USE DEF RequestInv
<1>1. Paths'
    BY PathsStep
<1>2. CASE UNCHANGED vars
    BY <1>1, <1>2 DEF vars, BuiltLast, FilledInPlace
<1>3. ASSUME NEW d \in Drafts, Build(d)
      PROVE  BuiltLast' /\ FilledInPlace'
    BY <1>3, BuildFills
<1>4. ASSUME NEW x \in Drafts,
             \/ Paste(x) \/ Keep(x) \/ Lift(x) \/ StoreFails(x) \/ ConvertBody(x)
             \/ MakePathDynamic(x) \/ Load(x)
      PROVE  BuiltLast' /\ FilledInPlace'
  <2>1. /\ built' = built
        /\ \A d \in Drafts : at[d] = "built" => at'[d] = "built" /\ config'[d] = config[d]
      BY <1>4, BuiltStays
  <2>2. BuiltLast'
      BY <2>1 DEF BuiltLast
  <2>3. ASSUME NEW d \in Drafts, built'[d].err = "ok"
        PROVE  PathInPlace(config'[d], built'[d]) /\ BodyInPlace(config'[d], built'[d])
    <3>1. at[d] = "built"
        BY <2>1, <2>3, NotBuiltYet
    <3> QED BY <2>1, <2>3, <3>1 DEF FilledInPlace
  <2> QED BY <2>2, <2>3 DEF FilledInPlace
<1>5. BuiltLast' /\ FilledInPlace'
    BY <1>2, <1>3, <1>4 DEF Next
<1> QED BY <1>1, <1>5

\* Whatever the values and whatever was made dynamic or loaded, a request that is built
\* has the template's path, but for the placeholders, and the template's body, with
\* each parameter of the type it was declared with (substitutePath, substituteBody).
THEOREM ValuesStayInPlace == Spec => []FilledInPlace
<1>1. Init => RequestInv
    BY InitRequestInv
<1>2. RequestInv /\ TypeOK' /\ [Next]_vars => RequestInv'
    BY StepRequestInv
<1>3. RequestInv => FilledInPlace
    BY DEF RequestInv
<1>4. Spec => []TypeOK
    BY TypeCorrect
<1> QED BY <1>1, <1>2, <1>3, <1>4, PTL DEF Spec
--------------------------------------------------------------------------------
(* The request that was pasted.                                              *)

Imported(d) == command[d] # NoCommand /\ at[d] \in InProgress

\* What a configuration has from the command's options, URL and names of segments.
Origin(d) ==
    Imported(d) =>
        /\ command[d] \in Commands(d)
        /\ config[d].method = ParsedMethod(command[d]) /\ ParsedMethod(command[d]) \in allowedMethods
        /\ config[d].base = URL(command[d]).base
        /\ DOMAIN config[d].params \subseteq Names
        /\ \A p \in DOMAIN config[d].params : config[d].params[p].location = "path"

BodyKept(d) ==
    Imported(d) /\ at[d] # "converting" => config[d].body \in Body(command[d])

LoginKept(d) ==
    Imported(d) =>
        config[d].auth = IF \E e \in Converted(d) : e.place = "auth"
                         THEN [type |-> "basic", ref |-> << d, "auth", "auth" >>, header |-> ""]
                         ELSE NoAuth

\* The entries are what was converted, in the order of conversion.
Form(d, e) == IF e.sensitive THEN Secret(d, e) ELSE Static(e)

Arranges(s, d) ==
    /\ \A i \in DOMAIN config[d].entries : config[d].entries[i] = Form(d, s[i])
    /\ \A e \in Converted(d) : e.place = "auth" \/ \E i \in DOMAIN s : s[i] = e
    /\ \A i, j \in DOMAIN s : i < j => ~Before(s[j], s[i])

Arranged(d) ==
    Imported(d) => \E s \in [DOMAIN config[d].entries -> Converted(d)] : Arranges(s, d)

\* The segments are those of another path, or placeholders that have them as examples.
StandsIn(path, params, segments) ==
    /\ Len(path) = Len(segments)
    /\ \A i \in DOMAIN path :
          \/ path[i] = segments[i]
          \/ \E p \in DOMAIN params : path[i] = Braced(p) /\ params[p].example = segments[i]

KeepsPath(path, params, pasted) ==
    IF DOMAIN params = {} THEN path = pasted ELSE StandsIn(path, params, Trimmed(pasted))

PathKept(d) ==
    Imported(d) /\ Concrete(config[d].params) /\ Plain(command[d], config[d].params) =>
        KeepsPath(config[d].path, config[d].params, URL(command[d]).path)

Kept(d) == Origin(d) /\ BodyKept(d) /\ LoginKept(d) /\ Arranged(d) /\ PathKept(d)

\* The last entry of each name is sent: of query parameters by the name itself, of
\* headers by the name in lower case.
QueryIsLast(found, cfg, n, secrets) ==
    /\ found = [k \in DOMAIN found |-> found[k]]
    /\ \A i \in 1..n : cfg.entries[i].place = "query" => cfg.entries[i].name \in DOMAIN found
    /\ \A k \in DOMAIN found :
          \E i \in 1..n : /\ cfg.entries[i].place = "query" /\ cfg.entries[i].name = k
                          /\ found[k] = Value(cfg.entries[i], secrets)
                          /\ \A j \in 1..n : /\ cfg.entries[j].place = "query"
                                             /\ cfg.entries[j].name = k
                                             => j <= i

LEMMA LastOfQuery ==
    ASSUME NEW cfg, NEW n \in Nat, DOMAIN cfg.entries = 1..n, NEW secrets,
           NEW found, found = EntryQuery(cfg, secrets)
    PROVE  QueryIsLast(found, cfg, n, secrets)
<1> DEFINE there    == {i \in 1..n : cfg.entries[i].place = "query"}
           Named(k) == {i \in there : cfg.entries[i].name = k}
           keys     == {cfg.entries[i].name : i \in there}
<1>1. found = [k \in keys |-> Value(cfg.entries[CHOOSE i \in Named(k) : \A j \in Named(k) : i >= j],
                                    secrets)]
    BY DEF EntryQuery, LastValues, Same
<1>2. ASSUME NEW k \in keys
      PROVE  \E i \in Named(k) : /\ \A j \in Named(k) : i >= j
                                 /\ found[k] = Value(cfg.entries[i], secrets)
  <2> DEFINE places == Named(k)
  <2>1. places \subseteq 1..n /\ places # {}
      OBVIOUS
  <2> HIDE DEF places
  <2>2. LastOf(places) \in places /\ \A j \in places : j <= LastOf(places)
      BY <2>1, FirstAndLast
  <2>3. \E i \in places : \A j \in places : i >= j
    <3>1. \A j \in places : LastOf(places) >= j
        BY <2>1, <2>2
    <3> QED BY <2>2, <3>1
  <2> DEFINE last == CHOOSE i \in places : \A j \in places : i >= j
  <2>4. last \in places /\ \A j \in places : last >= j
      BY <2>3
  <2>5. found[k] = Value(cfg.entries[last], secrets)
      BY <1>1 DEF places
  <2> HIDE DEF last
  <2> QED BY <2>4, <2>5 DEF places
<1>3. DOMAIN found = keys /\ found = [k \in DOMAIN found |-> found[k]]
    BY <1>1
<1>4. \A i \in 1..n : cfg.entries[i].place = "query" => cfg.entries[i].name \in keys
    OBVIOUS
<1>5. ASSUME NEW k \in keys
      PROVE  \E i \in 1..n : /\ cfg.entries[i].place = "query" /\ cfg.entries[i].name = k
                             /\ found[k] = Value(cfg.entries[i], secrets)
                             /\ \A j \in 1..n : /\ cfg.entries[j].place = "query"
                                                /\ cfg.entries[j].name = k
                                                => j <= i
  <2>1. PICK i \in Named(k) : /\ \A j \in Named(k) : i >= j
                              /\ found[k] = Value(cfg.entries[i], secrets)
      BY <1>2
  <2>2. i \in 1..n /\ cfg.entries[i].place = "query" /\ cfg.entries[i].name = k
      OBVIOUS
  <2>3. ASSUME NEW j \in 1..n, cfg.entries[j].place = "query", cfg.entries[j].name = k
        PROVE  j <= i
    <3>1. j \in Named(k)
        BY <2>3
    <3> QED BY <2>1, <2>2, <3>1
  <2> QED BY <2>1, <2>2, <2>3
<1> QED BY <1>3, <1>4, <1>5 DEF QueryIsLast

HeadersAreLast(found, cfg, n, secrets) ==
    /\ found = [k \in DOMAIN found |-> found[k]]
    /\ \A i \in 1..n : cfg.entries[i].place = "header" => Lower(cfg.entries[i].name) \in DOMAIN found
    /\ \A k \in DOMAIN found :
          \E i \in 1..n : /\ cfg.entries[i].place = "header" /\ Lower(cfg.entries[i].name) = k
                          /\ found[k] = Value(cfg.entries[i], secrets)
                          /\ \A j \in 1..n : /\ cfg.entries[j].place = "header"
                                             /\ Lower(cfg.entries[j].name) = k
                                             => j <= i

LEMMA LastOfHeaders ==
    ASSUME NEW cfg, NEW n \in Nat, DOMAIN cfg.entries = 1..n, NEW secrets,
           NEW found, found = EntryHeaders(cfg, secrets)
    PROVE  HeadersAreLast(found, cfg, n, secrets)
<1> DEFINE there    == {i \in 1..n : cfg.entries[i].place = "header"}
           Named(k) == {i \in there : Lower(cfg.entries[i].name) = k}
           keys     == {Lower(cfg.entries[i].name) : i \in there}
<1>1. found = [k \in keys |-> Value(cfg.entries[CHOOSE i \in Named(k) : \A j \in Named(k) : i >= j],
                                    secrets)]
    BY DEF EntryHeaders, LastValues
<1>2. ASSUME NEW k \in keys
      PROVE  \E i \in Named(k) : /\ \A j \in Named(k) : i >= j
                                 /\ found[k] = Value(cfg.entries[i], secrets)
  <2> DEFINE places == Named(k)
  <2>1. places \subseteq 1..n /\ places # {}
      OBVIOUS
  <2> HIDE DEF places
  <2>2. LastOf(places) \in places /\ \A j \in places : j <= LastOf(places)
      BY <2>1, FirstAndLast
  <2>3. \E i \in places : \A j \in places : i >= j
    <3>1. \A j \in places : LastOf(places) >= j
        BY <2>1, <2>2
    <3> QED BY <2>2, <3>1
  <2> DEFINE last == CHOOSE i \in places : \A j \in places : i >= j
  <2>4. last \in places /\ \A j \in places : last >= j
      BY <2>3
  <2>5. found[k] = Value(cfg.entries[last], secrets)
      BY <1>1 DEF places
  <2> HIDE DEF last
  <2> QED BY <2>4, <2>5 DEF places
<1>3. DOMAIN found = keys /\ found = [k \in DOMAIN found |-> found[k]]
    BY <1>1
<1>4. \A i \in 1..n : cfg.entries[i].place = "header" => Lower(cfg.entries[i].name) \in keys
    OBVIOUS
<1>5. ASSUME NEW k \in keys
      PROVE  \E i \in 1..n : /\ cfg.entries[i].place = "header" /\ Lower(cfg.entries[i].name) = k
                             /\ found[k] = Value(cfg.entries[i], secrets)
                             /\ \A j \in 1..n : /\ cfg.entries[j].place = "header"
                                                /\ Lower(cfg.entries[j].name) = k
                                                => j <= i
  <2>1. PICK i \in Named(k) : /\ \A j \in Named(k) : i >= j
                              /\ found[k] = Value(cfg.entries[i], secrets)
      BY <1>2
  <2>2. i \in 1..n /\ cfg.entries[i].place = "header" /\ Lower(cfg.entries[i].name) = k
      OBVIOUS
  <2>3. ASSUME NEW j \in 1..n, cfg.entries[j].place = "header", Lower(cfg.entries[j].name) = k
        PROVE  j <= i
    <3>1. j \in Named(k)
        BY <2>3
    <3> QED BY <2>1, <2>2, <3>1
  <2> QED BY <2>1, <2>2, <2>3
<1> QED BY <1>3, <1>4, <1>5 DEF HeadersAreLast

\* Without parameters of a place, its values are sent as they are.
LEMMA NoneOverridden ==
    ASSUME NEW cfg, NEW resolved, NEW sent, sent = [k \in DOMAIN sent |-> sent[k]], NEW request
    PROVE  /\ /\ Located(cfg.params, "query") = {}
              /\ request \in QueryOver(sent, cfg, resolved)
              => request = sent
           /\ /\ Located(cfg.params, "header") = {}
              /\ request \in HeadersOver(sent, cfg, resolved)
              => request = sent
<1>1. ASSUME NEW wires, wires = {}, NEW last,
             request = [k \in DOMAIN sent \cup wires |-> IF k \in wires THEN resolved[last[k]]
                                                         ELSE sent[k]]
      PROVE  request = sent
    BY <1>1
<1>2. ASSUME Located(cfg.params, "query") = {},
             request \in QueryOver(sent, cfg, resolved)
      PROVE  request = sent
  <2> DEFINE given   == Located(cfg.params, "query") \cap DOMAIN resolved
             Wire(p) == Same(IF cfg.params[p].wire = "" THEN p ELSE cfg.params[p].wire)
             wires   == {Wire(p) : p \in given}
  <2>1. \E last : request = [k \in DOMAIN sent \cup wires |-> IF k \in wires THEN resolved[last[k]]
                                                              ELSE sent[k]]
      BY <1>2, Zenon DEF QueryOver, Overridden
  <2>2. wires = {}
      BY <1>2
  <2> HIDE DEF wires
  <2> QED BY <1>1, <2>1, <2>2
<1>3. ASSUME Located(cfg.params, "header") = {},
             request \in HeadersOver(sent, cfg, resolved)
      PROVE  request = sent
  <2> DEFINE given   == Located(cfg.params, "header") \cap DOMAIN resolved
             Wire(p) == Lower(IF cfg.params[p].wire = "" THEN p ELSE cfg.params[p].wire)
             wires   == {Wire(p) : p \in given}
  <2>1. \E last : request = [k \in DOMAIN sent \cup wires |-> IF k \in wires THEN resolved[last[k]]
                                                              ELSE sent[k]]
      BY <1>3, Zenon DEF HeadersOver, Overridden
  <2>2. wires = {}
      BY <1>3
  <2> HIDE DEF wires
  <2> QED BY <1>1, <2>1, <2>2
<1> QED BY <1>2, <1>3

\* The entries of a converted draft: each stands for what was given, and yields its
\* value or, as a secret, the last value given under its name.
LastGiven(f, c) == \A g \in Given(c) \ {f} : Alike(f, g) => ~Before(f, g)

Yields(entry, e, c) ==
    /\ entry.place = e.place /\ entry.name = e.name
    /\ \E f \in Given(c) : /\ Alike(e, f) /\ Value(entry, store) = f.value
                           /\ f = e \/ LastGiven(f, c)

LEMMA AllConverted ==
    ASSUME TypeOK, NEW d \in Drafts, at[d] = "ready"
    PROVE  Converted(d) = Given(command[d])
BY DEF TypeOK, Converted

LEMMA FormIs ==
    ASSUME NEW d, NEW e
    PROVE  /\ Form(d, e).place = e.place /\ Form(d, e).name = e.name
           /\ e.sensitive => Value(Form(d, e), store) = store[Reference(d, e)]
           /\ ~e.sensitive => Value(Form(d, e), store) = e.value
BY DEF Form, Static, Secret, Value

\* The entries 1 to n of a configuration stand for s, all that was given, in order.
Stands(cfg, n, s, c) ==
    /\ DOMAIN cfg.entries = 1..n
    /\ \A i \in 1..n : Yields(cfg.entries[i], s[i], c)
    /\ \A e \in Given(c) : e.place = "auth" \/ \E i \in 1..n : s[i] = e
    /\ \A i, j \in 1..n : i < j => ~Before(s[j], s[i])

LEMMA PastedEntries ==
    ASSUME IInv, NEW d \in Drafts, Arranged(d), command[d] # NoCommand, at[d] = "ready"
    PROVE  \E n \in Nat : \E s \in [1..n -> Given(command[d])] :
              Stands(config[d], n, s, command[d])
<1> USE DEF IInv
<1> DEFINE entries == config[d].entries
           c == command[d]
<1>1. Converted(d) = Given(c)
    BY AllConverted
<1>2. entries \in Seq(Forms(d))
    BY DEF Started, Lifted, InProgress
<1>3. PICK n \in Nat : DOMAIN entries = 1..n
  <2>1. Len(entries) \in Nat /\ DOMAIN entries = 1..Len(entries)
      BY <1>2
  <2> QED BY <2>1
<1>4. PICK s \in [1..n -> Given(c)] : Arranges(s, d)
    BY <1>1, <1>3 DEF Arranged, Imported, InProgress
<1>5. ASSUME NEW i \in 1..n
      PROVE  Yields(entries[i], s[i], c)
  <2>1. entries[i] = Form(d, s[i]) /\ s[i] \in Given(c)
      BY <1>3, <1>4 DEF Arranges
  <2> HIDE DEF entries
  <2>2. CASE ~s[i].sensitive
      BY <2>1, <2>2, FormIs DEF Yields, Alike
  <2>3. CASE s[i].sensitive
    <3>1. PICK f \in Given(c) : /\ Alike(s[i], f) /\ LastOfName(f, d)
                                /\ store[Reference(d, s[i])] = f.value
        BY <1>1, <2>1, <2>3 DEF Held, InProgress
    <3>2. LastGiven(f, c)
        BY <1>1, <3>1 DEF LastOfName, LastGiven
    <3>3. /\ Value(entries[i], store) = f.value
          /\ entries[i].place = s[i].place /\ entries[i].name = s[i].name
        BY <2>1, <2>3, <3>1, FormIs
    <3> QED BY <3>1, <3>2, <3>3 DEF Yields
  <2> QED BY <2>2, <2>3
<1>6. /\ \A e \in Given(c) : e.place = "auth" \/ \E i \in 1..n : s[i] = e
      /\ \A i, j \in 1..n : i < j => ~Before(s[j], s[i])
    BY <1>1, <1>3, <1>4 DEF Arranges
<1>7. Stands(config[d], n, s, c)
    BY <1>3, <1>5, <1>6 DEF Stands
<1> QED BY <1>7

--------------------------------------------------------------------------------
(* What is sent for a draft that was pasted.                                 *)

LEMMA SentQuery ==
    ASSUME NEW cfg, NEW c, NEW n \in Nat, NEW s \in [1..n -> Given(c)], Stands(cfg, n, s, c),
           NEW request, request.query = EntryQuery(cfg, store)
    PROVE  SameQuery(c, request)
<1>1. PICK query : query = request.query
    OBVIOUS
<1>2. /\ \A i \in 1..n : cfg.entries[i].place = "query" => cfg.entries[i].name \in DOMAIN query
      /\ \A k \in DOMAIN query :
            \E i \in 1..n : /\ cfg.entries[i].place = "query" /\ cfg.entries[i].name = k
                            /\ query[k] = Value(cfg.entries[i], store)
  <2>1. DOMAIN cfg.entries = 1..n /\ query = EntryQuery(cfg, store)
      BY <1>1 DEF Stands
  <2>2. QueryIsLast(query, cfg, n, store)
      BY <2>1, LastOfQuery, Zenon
  <2> QED BY <2>2 DEF QueryIsLast
<1>3. /\ \A i \in 1..n : Yields(cfg.entries[i], s[i], c)
      /\ \A e \in Given(c) : e.place = "auth" \/ \E i \in 1..n : s[i] = e
    BY DEF Stands
<1>4. ASSUME NEW k \in DOMAIN query
      PROVE  \E p \in QueryPairs(c) : p[1] = k /\ p[2] = query[k]
  <2>1. PICK i \in 1..n : /\ cfg.entries[i].place = "query" /\ cfg.entries[i].name = k
                          /\ query[k] = Value(cfg.entries[i], store)
      BY <1>2
  <2>2. PICK f \in Given(c) : Alike(s[i], f) /\ Value(cfg.entries[i], store) = f.value
      BY <1>3 DEF Yields
  <2>3. f.place = "query" /\ f.name = k
      BY <1>3, <2>1, <2>2 DEF Yields, Alike
  <2>4. f \in Query(c)
      BY <2>3, GivenIs
  <2> QED BY <2>1, <2>2, <2>3, <2>4, QueryIs
<1>5. ASSUME NEW p \in QueryPairs(c)
      PROVE  p[1] \in DOMAIN query
  <2> DEFINE e == Entry("query", 0, p[1], p[2], isSensitiveQueryParam(p[1]))
  <2>1. e \in Given(c)
      BY DEF Given, Query
  <2>a. e.place = "query" /\ e.name = p[1]
      BY DEF Entry
  <2> HIDE DEF e
  <2>2. PICK i \in 1..n : s[i] = e
      BY <1>3, <2>1, <2>a
  <2>3. cfg.entries[i].place = "query" /\ cfg.entries[i].name = p[1]
      BY <1>3, <2>a, <2>2 DEF Yields
  <2> QED BY <1>2, <2>3
<1>6. DOMAIN query = {p[1] : p \in QueryPairs(c)}
    BY <1>4, <1>5
<1> QED BY <1>1, <1>4, <1>6 DEF SameQuery

\* The headers of a command by the options that give them.
Header(c, i) == Entry("header", i, c[i].name, c[i].value, isSensitiveHeader(c[i].name))

LEMMA HeaderAt ==
    ASSUME NEW c, NEW e \in Headers(c)
    PROVE  /\ e = Header(c, e.nth) /\ e.nth \in Places(c, HeaderFlags)
           /\ e.place = "header" /\ e.name = c[e.nth].name /\ e.value = c[e.nth].value
<1>1. PICK i \in Places(c, HeaderFlags) : e = Header(c, i)
    BY DEF Headers, Header
<1>2. /\ e.nth = i /\ e.place = "header" /\ e.name = c[i].name /\ e.value = c[i].value
    BY <1>1 DEF Header, Entry
<1> QED BY <1>1, <1>2

LEMMA HeaderOf ==
    ASSUME NEW c, NEW i \in Places(c, HeaderFlags)
    PROVE  /\ Header(c, i) \in Headers(c) /\ Header(c, i) \in Given(c)
           /\ Header(c, i).place = "header" /\ Header(c, i).name = c[i].name
           /\ Header(c, i).value = c[i].value /\ Header(c, i).nth = i
<1>1. Header(c, i) \in Headers(c)
    BY DEF Headers, Header
<1>2. Header(c, i) \in Given(c)
    BY <1>1 DEF Given
<1>3. /\ Header(c, i).place = "header" /\ Header(c, i).name = c[i].name
      /\ Header(c, i).value = c[i].value /\ Header(c, i).nth = i
    BY DEF Header, Entry
<1> QED BY <1>1, <1>2, <1>3

LEMMA HeaderBefore ==
    \A e, f : e.place = "header" /\ f.place = "header" /\ e.nth < f.nth => Before(e, f)
BY DEF Before

\* Of the headers with one name, in whatever case, the last one's value is sent.
HeadersAreSent(headers, c) ==
    LET Named(k) == {i \in Places(c, HeaderFlags) : Lower(c[i].name) = k}
    IN  /\ \A k \in DOMAIN headers : Named(k) # {} /\ headers[k] = c[LastOf(Named(k))].value
        /\ \A i \in Places(c, HeaderFlags) : Lower(c[i].name) \in DOMAIN headers

LEMMA SentEntries ==
    ASSUME NEW cfg, NEW c, NEW size \in Nat, DOMAIN c = 1..size,
           NEW n \in Nat, NEW s \in [1..n -> Given(c)], Stands(cfg, n, s, c),
           NEW headers, headers = EntryHeaders(cfg, store)
    PROVE  HeadersAreSent(headers, c)
<1> DEFINE Named(k) == {i \in Places(c, HeaderFlags) : Lower(c[i].name) = k}
<1>0. DOMAIN cfg.entries = 1..n
    BY DEF Stands
<1> HIDE DEF Named
<1>a. HeadersAreLast(headers, cfg, n, store)
    BY <1>0, LastOfHeaders, Zenon
<1>1. \A k \in DOMAIN headers :
         \E i \in 1..n : /\ cfg.entries[i].place = "header" /\ Lower(cfg.entries[i].name) = k
                         /\ headers[k] = Value(cfg.entries[i], store)
                         /\ \A j \in 1..n : /\ cfg.entries[j].place = "header"
                                            /\ Lower(cfg.entries[j].name) = k
                                            => j <= i
    BY <1>a, Zenon DEF HeadersAreLast
<1>2. \A i \in 1..n : cfg.entries[i].place = "header" => Lower(cfg.entries[i].name) \in DOMAIN headers
    BY <1>a, Zenon DEF HeadersAreLast
<1> USE DEF Named
<1>3. /\ \A i \in 1..n : Yields(cfg.entries[i], s[i], c)
      /\ \A e \in Given(c) : e.place = "auth" \/ \E i \in 1..n : s[i] = e
      /\ \A i, j \in 1..n : i < j => ~Before(s[j], s[i])
    BY DEF Stands
<1>4. ASSUME NEW a \in Places(c, HeaderFlags)
      PROVE  \E j \in 1..n : /\ s[j] = Header(c, a) /\ cfg.entries[j].place = "header"
                             /\ cfg.entries[j].name = c[a].name
  <2>1. PICK j \in 1..n : s[j] = Header(c, a)
      BY <1>3, HeaderOf
  <2>2. cfg.entries[j].place = s[j].place /\ cfg.entries[j].name = s[j].name
      BY <1>3 DEF Yields
  <2> QED BY <2>1, <2>2, HeaderOf
<1>5. ASSUME NEW a \in Places(c, HeaderFlags)
      PROVE  Lower(c[a].name) \in DOMAIN headers
    BY <1>2, <1>4
<1>6. ASSUME NEW k \in DOMAIN headers
      PROVE  Named(k) # {} /\ headers[k] = c[LastOf(Named(k))].value
  <2>1. PICK i \in 1..n : /\ cfg.entries[i].place = "header" /\ Lower(cfg.entries[i].name) = k
                          /\ headers[k] = Value(cfg.entries[i], store)
                          /\ \A j \in 1..n : /\ cfg.entries[j].place = "header"
                                             /\ Lower(cfg.entries[j].name) = k
                                             => j <= i
      BY <1>1
  <2>2. PICK f \in Given(c) : /\ Alike(s[i], f) /\ Value(cfg.entries[i], store) = f.value
                              /\ f = s[i] \/ LastGiven(f, c)
      BY <1>3 DEF Yields
  <2>3. s[i].place = "header" /\ Lower(s[i].name) = k /\ s[i] \in Headers(c)
    <3>1. cfg.entries[i].place = s[i].place /\ cfg.entries[i].name = s[i].name
        BY <1>3 DEF Yields
    <3> QED BY <2>1, <3>1, GivenIs
  <2> DEFINE a == s[i].nth
  <2>4. s[i] = Header(c, a) /\ a \in Named(k)
      BY <2>3, HeaderAt
  <2> DEFINE places == Named(k)
             m      == LastOf(places)
  <2>5. places \subseteq 1..size /\ places # {}
      BY <2>4 DEF Places
  <2> HIDE DEF places
  <2>6. m \in places /\ \A b \in places : b <= m
      BY <2>5, FirstAndLast
  <2> HIDE DEF m
  <2>7. m \in Places(c, HeaderFlags) /\ Lower(c[m].name) = k
      BY <2>6 DEF places
  <2>8. PICK j \in 1..n : /\ s[j] = Header(c, m) /\ cfg.entries[j].place = "header"
                          /\ cfg.entries[j].name = c[m].name
      BY <1>4, <2>7
  <2>9. j <= i
      BY <2>1, <2>7, <2>8
  <2>10. a \in places /\ a <= m /\ a \in Nat /\ m \in Nat
      BY <2>4, <2>5, <2>6 DEF places
  <2>11. s[i] = Header(c, m)
    <3>1. CASE j = i
        BY <2>8, <3>1
    <3>2. CASE j # i
      <4>1. j < i
          BY <2>9, <3>2
      <4>2. ~Before(s[i], s[j])
          BY <1>3, <4>1
      <4>3. s[j].place = "header" /\ s[j].nth = m
          BY <2>7, <2>8, HeaderOf
      <4>4. ~(a < m)
          BY <2>3, <4>2, <4>3, HeaderBefore
      <4>5. a = m
          BY <2>10, <4>4
      <4> QED BY <2>4, <4>5
    <3> QED BY <3>1, <3>2
  <2>12. f = Header(c, m)
    <3>1. CASE f = s[i]
        BY <2>11, <3>1
    <3>2. CASE LastGiven(f, c)
      <4>1. f.place = "header" /\ f.name = c[m].name /\ f \in Headers(c)
          BY <2>2, <2>7, <2>11, HeaderOf, GivenIs DEF Alike
      <4>2. f = Header(c, f.nth) /\ f.nth \in Places(c, HeaderFlags) /\ c[f.nth].name = c[m].name
          BY <4>1, HeaderAt
      <4>3. f.nth \in places
          BY <2>7, <4>2 DEF places
      <4>4. f.nth <= m /\ f.nth \in Nat
        <5>1. f.nth \in 1..size
            BY <2>5, <4>3, Zenon
        <5>2. f.nth <= m
            BY <2>6, <4>3, Zenon
        <5> QED BY <5>1, <5>2
      <4>5. CASE Header(c, m) = f
          BY <4>5
      <4>6. CASE Header(c, m) # f
        <5>1. ~Before(f, Header(c, m))
            BY <2>7, <3>2, <4>1, <4>6, HeaderOf DEF LastGiven, Alike
        <5>2. ~(f.nth < m)
            BY <2>7, <4>1, <5>1, HeaderBefore, HeaderOf
        <5>3. f.nth = m
            BY <2>10, <4>4, <5>2
        <5> QED BY <4>2, <5>3
      <4> QED BY <4>5, <4>6
    <3> QED BY <2>2, <3>1, <3>2
  <2>13. headers[k] = c[m].value
      BY <2>1, <2>2, <2>7, <2>12, HeaderOf
  <2> QED BY <2>5, <2>13 DEF m, places
<1> QED BY <1>5, <1>6 DEF HeadersAreSent

\* What goes out as Authorization for a login.
LEMMA SentHeaders ==
    ASSUME NEW cfg, NEW c, NEW size \in Nat, DOMAIN c = 1..size,
           NEW n \in Nat, NEW s \in [1..n -> Given(c)], Stands(cfg, n, s, c),
           NEW request,
           request.headers = applyAuthentication(EntryHeaders(cfg, store), cfg.auth, store),
           \/ Logins(c) = {} /\ cfg.auth = NoAuth
           \/ /\ Logins(c) # {} /\ cfg.auth.type = "basic"
              /\ \A l \in Logins(c) : store[cfg.auth.ref] = l[1] \o ":" \o l[2]
    PROVE  SameHeaders(c, request)
<1> DEFINE Named(k) == {i \in Places(c, HeaderFlags) : Lower(c[i].name) = k}
<1>1. PICK entries : entries = EntryHeaders(cfg, store)
    OBVIOUS
<1>2. PICK headers : headers = request.headers
    OBVIOUS
<1>3. /\ \A k \in DOMAIN entries : Named(k) # {} /\ entries[k] = c[LastOf(Named(k))].value
      /\ \A i \in Places(c, HeaderFlags) : Lower(c[i].name) \in DOMAIN entries
  <2>1. HeadersAreSent(entries, c)
      BY <1>1, SentEntries, Zenon
  <2> QED BY <2>1 DEF HeadersAreSent
<1> HIDE DEF Named
<1>4. /\ \A l \in Logins(c) :
            /\ "authorization" \in DOMAIN headers
            /\ headers["authorization"] = "Basic " \o Base64(l[1] \o ":" \o l[2])
      /\ \A k \in DOMAIN headers :
            \/ k = "authorization" /\ Logins(c) # {}
            \/ k \in DOMAIN entries /\ headers[k] = entries[k]
      /\ DOMAIN entries \subseteq DOMAIN headers
  <2>1. headers = applyAuthentication(entries, cfg.auth, store)
      BY <1>1, <1>2
  <2>2. CASE Logins(c) = {} /\ cfg.auth = NoAuth
    <3>1. cfg.auth.type = "none"
      <4>1. NoAuth.type = "none"
          BY DEF NoAuth
      <4> QED BY <2>2, <4>1, Zenon
    <3>2. headers = entries
        BY <2>1, <3>1 DEF applyAuthentication
    <3> QED BY <2>2, <3>2
  <2>3. CASE /\ Logins(c) # {} /\ cfg.auth.type = "basic"
             /\ \A l \in Logins(c) : store[cfg.auth.ref] = l[1] \o ":" \o l[2]
    <3>1. headers = Put(entries, "authorization", "Basic " \o Base64(store[cfg.auth.ref]))
        BY <2>1, <2>3, TextAssumption DEF applyAuthentication
    <3>2. /\ "authorization" \in DOMAIN headers
          /\ headers["authorization"] = "Basic " \o Base64(store[cfg.auth.ref])
          /\ DOMAIN headers = DOMAIN entries \cup {"authorization"}
          /\ \A k \in DOMAIN headers \ {"authorization"} : headers[k] = entries[k]
        BY <3>1 DEF Put
    <3> QED BY <2>3, <3>2
  <2> QED BY <2>2, <2>3
<1>5. \A k \in DOMAIN headers :
         \/ k = "authorization" /\ Logins(c) # {}
         \/ Named(k) # {} /\ headers[k] = c[LastOf(Named(k))].value
    BY <1>3, <1>4
<1>6. \A i \in Places(c, HeaderFlags) : Lower(c[i].name) \in DOMAIN headers
    BY <1>3, <1>4
<1> QED BY <1>2, <1>4, <1>5, <1>6 DEF SameHeaders, Named

\* The body is the document that was given, with nothing filled in.
LEMMA SentBody ==
    ASSUME NEW d \in Drafts, NEW c \in Commands(d), Parses(c), NEW cfg, NEW resolved,
           cfg.body \in Body(c), BodyErrors(cfg, resolved) = {},
           Located(cfg.params, "body") = {},
           NEW request, request.body = substituteBody(cfg, resolved)
    PROVE  SameBody(c, request)
<1>1. SUFFICES ASSUME HasBody(c)
               PROVE  /\ DOMAIN request.body = DOMAIN Document(c)
                      /\ \A place \in DOMAIN request.body :
                            request.body[place].text
                                = [n \in DOMAIN Document(c)[place].parts |->
                                       Document(c)[place].parts[n].text]
    BY Zenon DEF SameBody
<1>2. cfg.body = Document(c)
  <2>1. CASE \E i \in DOMAIN Data(c) : DOMAIN Data(c) = {i} /\ Data(c)[i].text = ""
    <3>1. PICK i \in DOMAIN Data(c) : DOMAIN Data(c) = {i} /\ Data(c)[i].text = ""
        BY <2>1
    <3>2. cfg.body = NoBody
        BY <2>1 DEF Body
    <3>3. Data(c)[i].json = NoBody
        BY <3>1, CommandAssumption
    <3>4. (CHOOSE k \in DOMAIN Data(c) : TRUE) = i
        BY <3>1
    <3>5. Document(c) = Data(c)[i].json
        BY <3>1, <3>4 DEF Document
    <3> QED BY <3>2, <3>3, <3>5
  <2>2. CASE ~\E i \in DOMAIN Data(c) : DOMAIN Data(c) = {i} /\ Data(c)[i].text = ""
      BY <1>1, <2>2 DEF Body
  <2> QED BY <2>1, <2>2
<1>3. DOMAIN request.body = DOMAIN cfg.body
    BY DEF substituteBody
<1>4. ASSUME NEW place \in DOMAIN cfg.body
      PROVE  request.body[place].text
                 = [n \in DOMAIN cfg.body[place].parts |-> cfg.body[place].parts[n].text]
  <2> DEFINE used == UNION {{l.parts[k].text : k \in {j \in DOMAIN l.parts : l.parts[j].hole}}
                            : l \in {cfg.body[at_] : at_ \in DOMAIN cfg.body}}
  <2>1. used = {}
      BY DEF BodyErrors
  <2>2. PICK leaf : leaf = cfg.body[place]
      OBVIOUS
  <2>3. \A n \in DOMAIN leaf.parts : ~leaf.parts[n].hole
    <3>1. SUFFICES ASSUME NEW n \in DOMAIN leaf.parts, leaf.parts[n].hole PROVE FALSE
        OBVIOUS
    <3>2. leaf.parts[n].text \in used
        BY <2>2, <3>1
    <3> QED BY <2>1, <3>2
  <2> HIDE DEF used
  <2>4. ~Whole(leaf)
    <3>1. SUFFICES ASSUME Len(leaf.parts) = 1, leaf.parts[1].hole PROVE FALSE
        BY DEF Whole
    <3>2. 1 \in DOMAIN leaf.parts
        BY <3>1
    <3> QED BY <2>3, <3>1, <3>2
  <2>5. request.body[place] = substituteValue(leaf, cfg.params, resolved)
      BY <2>2 DEF substituteBody
  <2>6. substituteValue(leaf, cfg.params, resolved).text
            = [n \in DOMAIN leaf.parts |-> IF leaf.parts[n].hole THEN resolved[leaf.parts[n].text]
                                           ELSE leaf.parts[n].text]
      BY <2>4 DEF substituteValue
  <2>7. request.body[place].text = [n \in DOMAIN leaf.parts |-> leaf.parts[n].text]
      BY <2>3, <2>5, <2>6
  <2> QED BY <2>2, <2>7, Zenon
<1> HIDE DEF Document
<1>5. \A place \in DOMAIN request.body :
         request.body[place].text = [n \in DOMAIN cfg.body[place].parts |-> cfg.body[place].parts[n].text]
    BY <1>3, <1>4, Zenon
<1> QED BY <1>2, <1>3, <1>5, Zenon

\* Built with the examples, each parameter has its own.
LEMMA ExamplesResolve ==
    ASSUME NEW params
    PROVE  Resolved(params, Examples(params)) = Examples(params)
BY DEF Resolved, Examples

\* A path whose segments are filled with those of another is that one.
LEMMA FilledAs ==
    ASSUME NEW cfg, cfg.path \in Seq(PathTexts), NEW resolved,
           NEW segments \in Seq(PathTexts), Len(cfg.path) = Len(segments),
           \A i \in DOMAIN cfg.path :
              Filled(cfg.params, resolved, cfg.path[i]) = << segments[i] >>
    PROVE  substitutePath(cfg, resolved) = segments
<1>1. \A i \in DOMAIN cfg.path : Len(Filled(cfg.params, resolved, cfg.path[i])) = 1
    OBVIOUS
<1>2. substitutePath(cfg, resolved)
          = [i \in 1..Len(cfg.path) |-> Filled(cfg.params, resolved, cfg.path[i])[1]]
    BY <1>1, FilledSingles
<1>3. \A i \in 1..Len(cfg.path) : Filled(cfg.params, resolved, cfg.path[i])[1] = segments[i]
    OBVIOUS
<1>4. substitutePath(cfg, resolved) = [i \in 1..Len(segments) |-> segments[i]]
    BY <1>2, <1>3
<1> QED BY <1>4, SequenceIs

\* Trimming takes nothing from between.
LEMMA TrimmedMembers ==
    ASSUME NEW path \in Seq(PathTexts), NEW i \in DOMAIN Trimmed(path)
    PROVE  \E j \in DOMAIN path : Trimmed(path)[i] = path[j]
<1> DEFINE texts == {path[j] : j \in DOMAIN path}
<1>1. path \in Seq(texts)
    OBVIOUS
<1> HIDE DEF texts
<1>2. Trimmed(path) \in Seq(texts)
    BY <1>1, TrimmedType
<1>3. Trimmed(path)[i] \in texts
    BY <1>2
<1> QED BY <1>3 DEF texts

\* The path is the one that was pasted, as each placeholder has the segment it
\* replaced as its example.
LEMMA SentPath ==
    ASSUME NEW cfg, cfg.path \in Seq(PathTexts), NEW pasted \in Seq(PathTexts),
           DOMAIN cfg.params \subseteq Names,
           \A p \in DOMAIN cfg.params : cfg.params[p].location = "path",
           \A i \in DOMAIN pasted : /\ Decode(pasted[i]) = << pasted[i] >>
                                    /\ ~HoldsPlaceholder(pasted[i]),
           KeepsPath(cfg.path, cfg.params, pasted)
    PROVE  substitutePath(cfg, Examples(cfg.params))
               = IF DOMAIN cfg.params = {} THEN pasted ELSE Trimmed(pasted)
<1>1. ASSUME NEW text, ~HoldsPlaceholder(text), Decode(text) = << text >>
      PROVE  Filled(cfg.params, Examples(cfg.params), text) = << text >>
  <2>1. HeldBy(cfg.params, text) = {}
      BY <1>1, TextAssumption DEF HeldBy, Located
  <2> QED BY <1>1, <2>1 DEF Filled, Literal
<1>2. ASSUME NEW p \in DOMAIN cfg.params
      PROVE  Filled(cfg.params, Examples(cfg.params), Braced(p)) = << cfg.params[p].example >>
  <2>1. HeldBy(cfg.params, Braced(p)) = {p}
      BY <1>2, TextAssumption DEF HeldBy, Located
  <2>2. Filled(cfg.params, Examples(cfg.params), Braced(p)) = << Examples(cfg.params)[p] >>
      BY <2>1 DEF Filled, Literal
  <2> QED BY <2>2 DEF Examples
<1>3. CASE DOMAIN cfg.params = {}
  <2>1. cfg.path = pasted
      BY <1>3 DEF KeepsPath
  <2>2. \A i \in DOMAIN cfg.path :
           Filled(cfg.params, Examples(cfg.params), cfg.path[i]) = << pasted[i] >>
      BY <1>1, <2>1
  <2>3. substitutePath(cfg, Examples(cfg.params)) = pasted
      BY <2>1, <2>2, FilledAs
  <2> QED BY <1>3, <2>3
<1>4. CASE DOMAIN cfg.params # {}
  <2>1. PICK segments : segments = Trimmed(pasted)
      OBVIOUS
  <2>2. segments \in Seq(PathTexts)
      BY <2>1, TrimmedType
  <2>3. /\ Len(cfg.path) = Len(segments)
        /\ \A i \in DOMAIN cfg.path :
              \/ cfg.path[i] = segments[i]
              \/ \E p \in DOMAIN cfg.params : /\ cfg.path[i] = Braced(p)
                                              /\ cfg.params[p].example = segments[i]
      BY <1>4, <2>1 DEF KeepsPath, StandsIn
  <2>4. ASSUME NEW i \in DOMAIN cfg.path
        PROVE  Filled(cfg.params, Examples(cfg.params), cfg.path[i]) = << segments[i] >>
    <3>1. CASE cfg.path[i] = segments[i]
      <4>1. i \in DOMAIN segments
        <5>1. DOMAIN cfg.path = 1..Len(cfg.path) /\ DOMAIN segments = 1..Len(segments)
            BY <2>2
        <5> QED BY <2>3, <5>1
      <4>2. \E j \in DOMAIN pasted : segments[i] = pasted[j]
          BY <2>1, <4>1, TrimmedMembers
      <4> QED BY <1>1, <3>1, <4>2
    <3>2. CASE \E p \in DOMAIN cfg.params : /\ cfg.path[i] = Braced(p)
                                            /\ cfg.params[p].example = segments[i]
        BY <1>2, <3>2
    <3> QED BY <2>3, <3>1, <3>2
  <2>5. substitutePath(cfg, Examples(cfg.params)) = segments
      BY <2>2, <2>3, <2>4, FilledAs
  <2> QED BY <1>4, <2>1, <2>5
<1> QED BY <1>3, <1>4

\* The login, as one credential, is what the reference yields.
LEMMA SentLogin ==
    ASSUME IInv, NEW d \in Drafts, LoginKept(d), command[d] # NoCommand, at[d] = "ready"
    PROVE  \/ Logins(command[d]) = {} /\ config[d].auth = NoAuth
           \/ /\ Logins(command[d]) # {} /\ config[d].auth.type = "basic"
              /\ \A l \in Logins(command[d]) : store[config[d].auth.ref] = l[1] \o ":" \o l[2]
<1> DEFINE c == command[d]
<1>1. Converted(d) = Given(c)
    BY AllConverted DEF IInv
<1>2. config[d].auth = IF \E e \in Given(c) : e.place = "auth"
                       THEN [type |-> "basic", ref |-> << d, "auth", "auth" >>, header |-> ""]
                       ELSE NoAuth
    BY <1>1 DEF LoginKept, Imported, InProgress
<1>3. Logins(c) = {Login(c)} \ {<< >>}
    BY DEF Logins, Login
<1>4. Auth(c) = {Entry("auth", 0, "auth", l[1] \o ":" \o l[2], TRUE) : l \in Logins(c)}
    BY <1>3 DEF Auth
<1>5. CASE Logins(c) = {}
  <2>1. \A e \in Given(c) : e.place # "auth"
      BY <1>4, <1>5, GivenIs
  <2> QED BY <1>2, <1>5, <2>1
<1>6. CASE Logins(c) # {}
  <2>1. PICK e \in Auth(c) : TRUE
      BY <1>4, <1>6
  <2>2. e \in Given(c) /\ e.place = "auth" /\ e.name = "auth" /\ e.sensitive
      BY AuthIs DEF Given
  <2>3. config[d].auth = [type |-> "basic", ref |-> << d, "auth", "auth" >>, header |-> ""]
      BY <1>2, <2>2
  <2>4. PICK f \in Given(c) : Alike(e, f) /\ store[Reference(d, e)] = f.value
      BY <1>1, <2>2 DEF IInv, Held, InProgress
  <2>5. f \in Auth(c)
      BY <2>2, <2>4, GivenIs DEF Alike
  <2>6. Reference(d, e) = << d, "auth", "auth" >>
      BY <2>2 DEF Reference
  <2>7. ASSUME NEW l \in Logins(c)
        PROVE  f.value = l[1] \o ":" \o l[2]
    <3>1. f = Entry("auth", 0, "auth", l[1] \o ":" \o l[2], TRUE)
        BY <1>3, <1>4, <2>5
    <3> QED BY <3>1 DEF Entry
  <2>8. config[d].auth.type = "basic" /\ config[d].auth.ref = Reference(d, e)
    <3>1. \A ref : /\ [type |-> "basic", ref |-> ref, header |-> ""].type = "basic"
                    /\ [type |-> "basic", ref |-> ref, header |-> ""].ref = ref
        OBVIOUS
    <3> QED BY <2>3, <2>6, <3>1, Zenon
  <2>9. \A l \in Logins(c) : store[config[d].auth.ref] = l[1] \o ":" \o l[2]
      BY <2>4, <2>7, <2>8, Zenon
  <2> HIDE DEF c
  <2> QED BY <1>6, <2>8, <2>9, Zenon DEF c
<1> QED BY <1>5, <1>6

LEMMA SentMethod ==
    ASSUME NEW c, NEW cfg, cfg.method = ParsedMethod(c), ParsedMethod(c) \in allowedMethods,
           Places(c, MethodFlags) # {}
    PROVE  Method(cfg) = Upper(c[LastOf(Places(c, MethodFlags))].method)
<1>1. ParsedMethod(c) = Upper(c[LastOf(Places(c, MethodFlags))].method)
    BY DEF ParsedMethod
<1>2. Upper(ParsedMethod(c)) = ParsedMethod(c) /\ ParsedMethod(c) # ""
    BY TextAssumption DEF allowedMethods
<1> QED BY <1>1, <1>2 DEF Method

LEMMA AuthenticatedIsFunction ==
    ASSUME NEW entries, entries = [k \in DOMAIN entries |-> entries[k]], NEW auth, NEW secrets,
           NEW headers, headers = applyAuthentication(entries, auth, secrets)
    PROVE  headers = [k \in DOMAIN headers |-> headers[k]]
<1>1. \A key, value : Put(entries, key, value)
                          = [k \in DOMAIN Put(entries, key, value) |-> Put(entries, key, value)[k]]
    BY DEF Put
<1>2. headers = entries \/ \E key, value : headers = Put(entries, key, value)
    BY Zenon DEF applyAuthentication
<1> QED BY <1>1, <1>2

\* A converted draft that is built with its examples sends what was pasted.
LEMMA BuildSends ==
    ASSUME IInv, Paths, NEW d \in Drafts, Kept(d), at[d] = "ready", command[d] # NoCommand,
           Concrete(config[d].params), Plain(command[d], config[d].params),
           NEW request \in Outcomes(config[d], Examples(config[d].params), store),
           request.err = "ok"
    PROVE  /\ Places(command[d], MethodFlags) # {} =>
                 request.method = Upper(command[d][LastOf(Places(command[d], MethodFlags))].method)
           /\ SamePath(command[d], config[d].params, request) /\ SameQuery(command[d], request)
           /\ SameHeaders(command[d], request) /\ SameBody(command[d], request)
<1>1. PICK c, cfg : c = command[d] /\ cfg = config[d]
    OBVIOUS
<1>2. /\ c \in Commands(d) /\ Parses(c)
      /\ cfg.method = ParsedMethod(c) /\ ParsedMethod(c) \in allowedMethods
      /\ cfg.base = URL(c).base
      /\ DOMAIN cfg.params \subseteq Names
      /\ \A p \in DOMAIN cfg.params : cfg.params[p].location = "path"
      /\ cfg.body \in Body(c)
    BY <1>1 DEF IInv, Started, Kept, Origin, BodyKept, Imported, InProgress
<1>3. /\ BuildErrors(cfg, Examples(cfg.params), store) = {}
      /\ request.method = Method(cfg) /\ request.base = cfg.base
      /\ request.path = substitutePath(cfg, Examples(cfg.params))
      /\ request.body = substituteBody(cfg, Examples(cfg.params))
      /\ request.query \in QueryOver(EntryQuery(cfg, store), cfg, Examples(cfg.params))
      /\ request.headers \in HeadersOver(applyAuthentication(EntryHeaders(cfg, store), cfg.auth, store),
                                         cfg, Examples(cfg.params))
    BY <1>1, OkIsRequest, ExamplesResolve
<1>4. BodyErrors(cfg, Examples(cfg.params)) = {}
    BY <1>3, NoErrors, ExamplesResolve
<1>5. /\ Located(cfg.params, "query") = {} /\ Located(cfg.params, "header") = {}
      /\ Located(cfg.params, "body") = {}
    BY <1>2 DEF Located
<1>6. PICK n \in Nat : \E s \in [1..n -> Given(c)] : Stands(cfg, n, s, c)
    BY <1>1, PastedEntries DEF Kept
<1>7. PICK s \in [1..n -> Given(c)] : Stands(cfg, n, s, c)
    BY <1>6
<1>8. SameQuery(c, request)
  <2>1. QueryIsLast(EntryQuery(cfg, store), cfg, n, store)
      BY <1>7, LastOfQuery DEF Stands
  <2>2. request.query = EntryQuery(cfg, store)
    <3>1. EntryQuery(cfg, store) = [k \in DOMAIN EntryQuery(cfg, store) |-> EntryQuery(cfg, store)[k]]
        BY <2>1, Zenon DEF QueryIsLast
    <3> QED BY <1>3, <1>5, <3>1, NoneOverridden
  <2> QED BY <1>7, <2>2, SentQuery
<1>9. SameHeaders(c, request)
  <2>1. PICK entries : entries = EntryHeaders(cfg, store)
      OBVIOUS
  <2>2. PICK headers : headers = applyAuthentication(entries, cfg.auth, store)
      OBVIOUS
  <2>3. headers = [k \in DOMAIN headers |-> headers[k]]
    <3>1. HeadersAreLast(entries, cfg, n, store)
        BY <1>7, <2>1, LastOfHeaders DEF Stands
    <3>2. entries = [k \in DOMAIN entries |-> entries[k]]
        BY <3>1, Zenon DEF HeadersAreLast
    <3> QED BY <2>2, <3>2, AuthenticatedIsFunction
  <2>4. request.headers = applyAuthentication(EntryHeaders(cfg, store), cfg.auth, store)
      BY <1>3, <1>5, <2>1, <2>2, <2>3, NoneOverridden
  <2>5. \/ Logins(c) = {} /\ cfg.auth = NoAuth
        \/ /\ Logins(c) # {} /\ cfg.auth.type = "basic"
           /\ \A l \in Logins(c) : store[cfg.auth.ref] = l[1] \o ":" \o l[2]
      BY <1>1, SentLogin DEF Kept
  <2>6. DOMAIN c = 1..Len(c) /\ Len(c) \in Nat
    <3>1. c \in Seq(Pairs(c))
        BY <1>2, CommandAssumption
    <3> QED BY <3>1
  <2> QED BY <1>7, <2>4, <2>5, <2>6, SentHeaders
<1>10. SameBody(c, request)
    BY <1>2, <1>3, <1>4, <1>5, SentBody
<1>11. SamePath(c, cfg.params, request)
  <2>1. URL(c).path \in Seq(PathTexts) /\ cfg.path \in Seq(PathTexts)
      BY <1>1, <1>2, PathAssumption DEF Paths
  <2>2. KeepsPath(cfg.path, cfg.params, URL(c).path)
      BY <1>1 DEF Kept, PathKept, Imported, InProgress
  <2>3. \A i \in DOMAIN URL(c).path : /\ Decode(URL(c).path[i]) = << URL(c).path[i] >>
                                      /\ ~HoldsPlaceholder(URL(c).path[i])
      BY <1>1 DEF Plain
  <2>4. substitutePath(cfg, Examples(cfg.params))
            = IF DOMAIN cfg.params = {} THEN URL(c).path ELSE Trimmed(URL(c).path)
      BY <1>2, <2>1, <2>2, <2>3, SentPath
  <2> QED BY <1>2, <1>3, <2>4 DEF SamePath
<1>12. Places(c, MethodFlags) # {} =>
          request.method = Upper(c[LastOf(Places(c, MethodFlags))].method)
    BY <1>2, <1>3, SentMethod
<1> QED BY <1>1, <1>8, <1>9, <1>10, <1>11, <1>12

--------------------------------------------------------------------------------
(* What is kept of a command, step by step.                                  *)

\* A path of which nothing is written in another way is read as it stands.
LEMMA ReadAsIs ==
    ASSUME NEW path \in Seq(PathTexts), \A i \in DOMAIN path : Decode(path[i]) = << path[i] >>
    PROVE  ReadPath(path) = path
<1> DEFINE read == [i \in DOMAIN path |-> Decode(path[i])]
<1>1. DOMAIN path = 1..Len(path) /\ Len(path) \in Nat
    OBVIOUS
<1>2. \A i \in 1..Len(path) : Decode(path[i]) \in Seq(PathTexts)
    BY PathAssumption
<1>3. read \in Seq(Seq(PathTexts)) /\ Len(read) = Len(path)
    BY <1>1, <1>2
<1>4. \A i \in 1..Len(read) : Len(read[i]) = 1 /\ read[i][1] = path[i]
    BY <1>1, <1>3
<1>5. ReadPath(path) = FlattenSeq(read)
    BY DEF ReadPath
<1> HIDE DEF read
<1>6. FlattenSeq(read) = [i \in 1..Len(read) |-> read[i][1]]
    BY <1>3, <1>4, FlattenSingles
<1>7. ReadPath(path) = [i \in 1..Len(path) |-> path[i]]
    BY <1>3, <1>4, <1>5, <1>6
<1> QED BY <1>7, SequenceIs

\* A trimmed path begins and ends with text, and one that does is trimmed.
LEMMA TrimmedEnds ==
    ASSUME NEW path \in Seq(PathTexts), Len(Trimmed(path)) # 0
    PROVE  Trimmed(path)[1] # "" /\ Trimmed(path)[Len(Trimmed(path))] # ""
<1> DEFINE full == {i \in DOMAIN path : path[i] # ""}
<1>1. full # {}
  <2>1. Len(<< >>) = 0
      OBVIOUS
  <2> QED BY <2>1 DEF Trimmed
<1>2. Trimmed(path) = SubSeq(path, FirstOf(full), LastOf(full))
    BY <1>1 DEF Trimmed
<1>3. DOMAIN path = 1..Len(path) /\ Len(path) \in Nat
    OBVIOUS
<1>4. full \subseteq 1..Len(path)
    BY <1>3
<1>5. \A i \in full : path[i] # ""
    OBVIOUS
<1> HIDE DEF full
<1>6. PICK first, last : first = FirstOf(full) /\ last = LastOf(full)
    OBVIOUS
<1>7. first \in full /\ last \in full /\ first <= last
    BY <1>1, <1>3, <1>4, <1>6, FirstAndLast
<1>8. first \in 1..Len(path) /\ last \in 1..Len(path)
    BY <1>4, <1>7
<1>9. PICK part : part = SubSeq(path, first, last)
    OBVIOUS
<1>10. /\ Len(part) = last - first + 1 /\ part[1] = path[first]
       /\ part[last - first + 1] = path[last]
    BY <1>7, <1>8, <1>9
<1>11. part[1] # "" /\ part[Len(part)] # ""
    BY <1>5, <1>7, <1>10
<1> QED BY <1>2, <1>6, <1>9, <1>11

LEMMA TrimmedSame ==
    ASSUME NEW path \in Seq(PathTexts)
    PROVE  Len(path) # 0 /\ path[1] # "" /\ path[Len(path)] # "" => Trimmed(path) = path
<1> DEFINE full == {i \in DOMAIN path : path[i] # ""}
<1>1. DOMAIN path = 1..Len(path) /\ Len(path) \in Nat
    OBVIOUS
<1>2. SubSeq(path, 1, Len(path)) = path
    OBVIOUS
<1>3. PICK n \in Nat : n = Len(path)
    BY <1>1
<1>4. DOMAIN path = 1..n /\ SubSeq(path, 1, n) = path
    BY <1>1, <1>2, <1>3, Zenon
<1>5. SUFFICES ASSUME n # 0, path[1] # "", path[n] # ""
               PROVE  Trimmed(path) = path
    BY <1>3, Zenon
<1>6. full \subseteq 1..n /\ 1 \in full /\ n \in full
  <2>1. 1 \in 1..n /\ n \in 1..n
    <3>1. \A m \in Nat : m # 0 => 1 \in 1..m /\ m \in 1..m
        OBVIOUS
    <3> QED BY <1>5, <3>1, Zenon
  <2> QED BY <1>4, <1>5, <2>1, Zenon
<1>7. Trimmed(path) = SubSeq(path, FirstOf(full), LastOf(full))
  <2>1. full # {}
      BY <1>6, Zenon
  <2> QED BY <2>1, Zenon DEF Trimmed
<1> HIDE DEF full
<1>8. /\ FirstOf(full) \in full /\ FirstOf(full) <= 1
      /\ LastOf(full) \in full /\ n <= LastOf(full)
    BY <1>6, FirstAndLast
<1>9. FirstOf(full) \in 1..n /\ LastOf(full) \in 1..n
    BY <1>6, <1>8, Zenon
<1>10. FirstOf(full) = 1 /\ LastOf(full) = n
    BY <1>8, <1>9
<1> QED BY <1>4, <1>7, <1>10, Zenon

\* The path of a template in which segments were made dynamic is read as it stands.
LEMMA DynamicSegments ==
    ASSUME NEW d \in Drafts, NEW pasted \in Seq(PathTexts), config[d].path \in Seq(PathTexts),
           NEW params, params = config[d].params, DOMAIN params \subseteq Names,
           \A i \in DOMAIN pasted : Decode(pasted[i]) = << pasted[i] >>,
           \A p \in DOMAIN params : Decode(Braced(p)) = << Braced(p) >>,
           KeepsPath(config[d].path, params, pasted)
    PROVE  StandsIn(Segments(d), params, Trimmed(pasted))
<1>1. PICK path : path = config[d].path
    OBVIOUS
<1>2. PICK segments : segments = Trimmed(pasted)
    OBVIOUS
<1>3. path \in Seq(PathTexts) /\ segments \in Seq(PathTexts)
    BY <1>1, <1>2, TrimmedType
<1>4. \A i \in DOMAIN segments : Decode(segments[i]) = << segments[i] >>
    BY <1>2, TrimmedMembers
<1>5. CASE DOMAIN params = {}
  <2>1. path = pasted
      BY <1>1, <1>5 DEF KeepsPath
  <2>2. ReadPath(path) = path
      BY <2>1, ReadAsIs
  <2>3. Segments(d) = segments
      BY <1>1, <1>2, <2>1, <2>2 DEF Segments
  <2> QED BY <1>2, <2>3 DEF StandsIn
<1>6. CASE DOMAIN params # {}
  <2>1. StandsIn(path, params, segments)
      BY <1>1, <1>2, <1>6 DEF KeepsPath
  <2>2. /\ Len(path) = Len(segments)
        /\ \A i \in DOMAIN path :
              \/ path[i] = segments[i]
              \/ \E p \in DOMAIN params : path[i] = Braced(p)
      BY <2>1 DEF StandsIn
  <2>3. /\ DOMAIN path = DOMAIN segments /\ DOMAIN path = 1..Len(path) /\ Len(path) \in Nat
      BY <1>3, <2>2
  <2>4. \A i \in DOMAIN path : Decode(path[i]) = << path[i] >>
      BY <1>4, <2>2, <2>3
  <2>5. ReadPath(path) = path
      BY <1>3, <2>4, ReadAsIs
  <2>6. Trimmed(path) = path
    <3>1. CASE Len(path) = 0
      <4>1. {i \in DOMAIN path : path[i] # ""} = {}
          BY <2>3, <3>1
      <4>2. Trimmed(path) = << >>
          BY <4>1 DEF Trimmed
      <4>3. path = << >>
          BY <1>3, <3>1
      <4> QED BY <4>2, <4>3
    <3>2. CASE Len(path) # 0
      <4>1. segments[1] # "" /\ segments[Len(path)] # ""
          BY <1>2, <2>2, <3>2, TrimmedEnds
      <4>2. \A p \in DOMAIN params : Braced(p) # ""
          BY TextAssumption
      <4>3. 1 \in DOMAIN path /\ Len(path) \in DOMAIN path
          BY <2>3, <3>2
      <4>4. path[1] # "" /\ path[Len(path)] # ""
          BY <2>2, <4>1, <4>2, <4>3
      <4> QED BY <1>3, <3>2, <4>4, TrimmedSame
    <3> QED BY <3>1, <3>2
  <2>7. Segments(d) = path
      BY <1>1, <2>5, <2>6 DEF Segments
  <2> QED BY <1>2, <2>1, <2>7
<1> QED BY <1>5, <1>6

\* One more segment is made dynamic.
LEMMA StandsInMore ==
    ASSUME NEW path \in Seq(PathTexts), NEW params, NEW segments, StandsIn(path, params, segments),
           NEW k \in DOMAIN path, NEW name, name \notin DOMAIN params,
           NEW more, more = Put(params, name, PathParam(path[k])), Concrete(more)
    PROVE  StandsIn([path EXCEPT ![k] = Braced(name)], more, segments)
<1>1. PICK new : new = [path EXCEPT ![k] = Braced(name)]
    OBVIOUS
<1>2. Len(new) = Len(path) /\ DOMAIN new = DOMAIN path
    BY <1>1
<1>3. new[k] = Braced(name) /\ \A i \in DOMAIN path : i # k => new[i] = path[i]
    BY <1>1
<1>4. /\ DOMAIN more = DOMAIN params \cup {name} /\ more[name].example = path[k]
      /\ \A p \in DOMAIN params : more[p] = params[p]
    BY DEF Put, PathParam
<1>5. /\ Len(path) = Len(segments)
      /\ \A i \in DOMAIN path :
            \/ path[i] = segments[i]
            \/ \E p \in DOMAIN params : path[i] = Braced(p) /\ params[p].example = segments[i]
    BY DEF StandsIn
<1>6. path[k] = segments[k]
    BY <1>4, <1>5 DEF Concrete
<1>7. ASSUME NEW i \in DOMAIN path
      PROVE  \/ new[i] = segments[i]
             \/ \E p \in DOMAIN more : new[i] = Braced(p) /\ more[p].example = segments[i]
  <2>1. CASE i = k
      BY <1>3, <1>4, <1>6, <2>1
  <2>2. CASE i # k
      BY <1>3, <1>4, <1>5, <2>2
  <2> QED BY <2>1, <2>2
<1>8. StandsIn(new, more, segments)
    BY <1>2, <1>5, <1>7, Zenon DEF StandsIn
<1> QED BY <1>1, <1>8

LEMMA DynamicPathKept ==
    ASSUME IInv, Paths, NEW d \in Drafts, Kept(d), NEW k, NEW name \in Names,
           MakeDynamic(d, k, name), command' = command, at[d] = "ready", command[d] # NoCommand
    PROVE  PathKept(d)'
<1>1. PICK c, params, more, pasted :
         /\ c = command[d] /\ params = config[d].params /\ more = config'[d].params
         /\ pasted = URL(c).path
    OBVIOUS
<1>2. /\ k \in DOMAIN Segments(d) /\ name \notin DOMAIN params
      /\ config' = [config EXCEPT
              ![d].path = [Segments(d) EXCEPT ![k] = Braced(name)],
              ![d].params = Put(config[d].params, name, PathParam(Segments(d)[k]))]
    BY <1>1 DEF MakeDynamic
<1>3. /\ config'[d].path = [Segments(d) EXCEPT ![k] = Braced(name)]
      /\ more = Put(params, name, PathParam(Segments(d)[k]))
    BY <1>1, <1>2, RecordFields DEF IInv, TypeOK
<1>4. SUFFICES ASSUME Concrete(more), Plain(c, more)
               PROVE  KeepsPath(config'[d].path, more, pasted)
    BY <1>1 DEF PathKept
<1>5. /\ DOMAIN more = DOMAIN params \cup {name}
      /\ \A p \in DOMAIN params : more[p] = params[p]
    BY <1>2, <1>3 DEF Put
<1>6. Concrete(params) /\ Plain(c, params)
    BY <1>4, <1>5 DEF Concrete, Plain
<1>7. /\ c \in Commands(d) /\ Parses(c) /\ DOMAIN params \subseteq Names
      /\ KeepsPath(config[d].path, params, pasted)
    BY <1>1, <1>6 DEF IInv, Started, Kept, Origin, PathKept, Imported, InProgress
<1>8. pasted \in Seq(PathTexts) /\ config[d].path \in Seq(PathTexts)
    BY <1>1, <1>7, PathAssumption DEF Paths
<1>9. /\ \A i \in DOMAIN pasted : Decode(pasted[i]) = << pasted[i] >>
      /\ \A p \in DOMAIN params : Decode(Braced(p)) = << Braced(p) >>
    BY <1>1, <1>6 DEF Plain
<1>10. StandsIn(Segments(d), params, Trimmed(pasted))
    BY <1>1, <1>7, <1>8, <1>9, DynamicSegments
<1>11. Segments(d) \in Seq(PathTexts)
    BY SegmentsType
<1>12. StandsIn(config'[d].path, more, Trimmed(pasted))
    BY <1>2, <1>3, <1>4, <1>10, <1>11, StandsInMore
<1> QED BY <1>5, <1>12 DEF KeepsPath

\* A draft that a step leaves alone.
LEMMA KeptElsewhere ==
    ASSUME NEW d \in Drafts, Kept(d), at'[d] = at[d], command'[d] = command[d],
           todo'[d] = todo[d], config'[d] = config[d]
    PROVE  Kept(d)'
<1>1. Converted(d)' = Converted(d) /\ Imported(d)' = Imported(d)
    BY DEF Converted, Imported
<1>2. Origin(d)' /\ BodyKept(d)' /\ LoginKept(d)' /\ PathKept(d)'
    BY <1>1 DEF Kept, Origin, BodyKept, LoginKept, PathKept
<1>3. Arranged(d)'
    BY <1>1 DEF Kept, Arranged, Arranges
<1> QED BY <1>2, <1>3 DEF Kept

\* A draft that is not, or no longer, made of a command.
LEMMA KeptOfNone ==
    ASSUME NEW d \in Drafts, ~Imported(d)'
    PROVE  Kept(d)'
BY DEF Kept, Origin, BodyKept, LoginKept, Arranged, PathKept

\* The draft that is pasted.
LEMMA PastedKept ==
    ASSUME TypeOK, NEW d \in Drafts, NEW c \in Commands(d), Convert(d, c),
           command' = [command EXCEPT ![d] = c]
    PROVE  Kept(d)'
<1>1. /\ Parses(c) /\ ParsedMethod(c) \in allowedMethods
      /\ at'[d] = "converting" /\ command'[d] = c /\ todo'[d] = Given(c) /\ config'[d] = Blank(c)
    BY DEF Convert, Given, TypeOK
<1>2. /\ Blank(c).method = ParsedMethod(c) /\ Blank(c).base = URL(c).base
      /\ Blank(c).path = ReadPath(URL(c).path) /\ Blank(c).entries = << >>
      /\ Blank(c).params = NoParams /\ Blank(c).auth = NoAuth
    BY DEF Blank, NoConfig
<1>3. DOMAIN NoParams = {}
    BY DEF NoParams
<1>4. Converted(d)' = {}
    BY <1>1 DEF Converted
<1>5. Origin(d)'
    BY <1>1, <1>2, <1>3 DEF Origin
<1>6. BodyKept(d)' /\ LoginKept(d)'
    BY <1>1, <1>2, <1>4 DEF BodyKept, LoginKept
<1>7. Arranged(d)'
  <2>1. config'[d].entries = << >>
      BY <1>1, <1>2
  <2>2. DOMAIN << >> = {} /\ << >> \in [{} -> {}]
      OBVIOUS
  <2>3. Arranges(<< >>, d)'
      BY <1>4, <2>1, <2>2 DEF Arranges
  <2> QED BY <1>4, <2>1, <2>2, <2>3 DEF Arranged
<1>8. PathKept(d)'
  <2>1. SUFFICES ASSUME Plain(c, NoParams)
                 PROVE  ReadPath(URL(c).path) = URL(c).path
      BY <1>1, <1>2, <1>3 DEF PathKept, KeepsPath
  <2>2. URL(c).path \in Seq(PathTexts)
      BY <1>1, PathAssumption
  <2> QED BY <2>1, <2>2, ReadAsIs DEF Plain
<1> QED BY <1>5, <1>6, <1>7, <1>8 DEF Kept

\* One more of a command is converted.
LEMMA AppendIs ==
    ASSUME NEW S, NEW s \in Seq(S), NEW x \in S
    PROVE  \E n \in Nat : /\ DOMAIN s = 1..n /\ DOMAIN Append(s, x) = 1..(n + 1)
                          /\ Append(s, x)[n + 1] = x
                          /\ \A i \in 1..n : Append(s, x)[i] = s[i]
<1>1. /\ Len(s) \in Nat /\ DOMAIN s = 1..Len(s)
      /\ DOMAIN Append(s, x) = 1..(Len(s) + 1) /\ Append(s, x)[Len(s) + 1] = x
      /\ \A i \in 1..Len(s) : Append(s, x)[i] = s[i]
    OBVIOUS
<1> QED BY <1>1, Zenon

LEMMA OneMoreArranged ==
    ASSUME IInv, NEW d \in Drafts, Arranged(d), Imported(d), NEW e \in todo[d], IsNext(d, e),
           at' = at, command' = command, todo' = [todo EXCEPT ![d] = @ \ {e}],
           \/ config'[d].entries = Append(config[d].entries, Form(d, e))
           \/ e.place = "auth" /\ config'[d].entries = config[d].entries
    PROVE  Arranged(d)'
<1>1. /\ Converted(d)' = Converted(d) \cup {e} /\ e \in Given(command[d])
      /\ \A g \in Converted(d) : ~Before(e, g)
  <2>1. Converted(d)' = Converted(d) \cup {e} /\ e \in Given(command[d])
      BY ConvertOneKeeps
  <2>2. at[d] = "converting"
      BY DEF IsNext
  <2>3. \A g \in Converted(d) : ~Before(e, g)
      BY <2>2 DEF IInv, Ordered
  <2> QED BY <2>1, <2>3
<1>2. PICK entries, more : entries = config[d].entries /\ more = config'[d].entries
    OBVIOUS
<1>3. PICK s \in [DOMAIN entries -> Converted(d)] :
         /\ \A i \in DOMAIN entries : entries[i] = Form(d, s[i])
         /\ \A f \in Converted(d) : f.place = "auth" \/ \E i \in DOMAIN s : s[i] = f
         /\ \A i, j \in DOMAIN s : i < j => ~Before(s[j], s[i])
    BY <1>2 DEF Arranged, Arranges
<1>4. SUFFICES \E t \in [DOMAIN more -> Converted(d) \cup {e}] :
                  /\ \A i \in DOMAIN more : more[i] = Form(d, t[i])
                  /\ \A f \in Converted(d) \cup {e} : f.place = "auth" \/ \E i \in DOMAIN t : t[i] = f
                  /\ \A i, j \in DOMAIN t : i < j => ~Before(t[j], t[i])
    BY <1>1, <1>2, Zenon DEF Arranged, Arranges
<1>5. CASE e.place = "auth" /\ more = entries
  <2>1. s \in [DOMAIN more -> Converted(d) \cup {e}]
      BY <1>5
  <2> QED BY <1>3, <1>5, <2>1
<1>6. CASE more = Append(entries, Form(d, e))
  <2>1. entries \in Seq(Forms(d))
      BY <1>2 DEF IInv, Started, Lifted, Imported
  <2>2. PICK n \in Nat : /\ DOMAIN entries = 1..n /\ DOMAIN more = 1..(n + 1)
                         /\ more[n + 1] = Form(d, e)
                         /\ \A i \in 1..n : more[i] = entries[i]
    <3> DEFINE all == Forms(d) \cup {Form(d, e)}
    <3>1. entries \in Seq(all) /\ Form(d, e) \in all
        BY <2>1
    <3> HIDE DEF all
    <3> QED BY <1>6, <3>1, AppendIs
  <2>3. \A i \in 1..(n + 1) : i \in 1..n \/ i = n + 1
      OBVIOUS
  <2>4. PICK t : t = [i \in 1..(n + 1) |-> IF i = n + 1 THEN e ELSE s[i]]
      OBVIOUS
  <2>5. /\ DOMAIN t = 1..(n + 1) /\ t[n + 1] = e
        /\ \A i \in 1..n : t[i] = s[i] /\ s[i] \in Converted(d) /\ i \in 1..(n + 1)
        /\ n + 1 \in 1..(n + 1)
    <3>1. \A i \in 1..n : i \in 1..(n + 1) /\ i # n + 1
        OBVIOUS
    <3>2. n + 1 \in 1..(n + 1)
        OBVIOUS
    <3>3. \A i \in 1..n : s[i] \in Converted(d)
        BY <1>3, <2>2
    <3> QED BY <2>4, <3>1, <3>2, <3>3
  <2>6. t \in [DOMAIN more -> Converted(d) \cup {e}]
      BY <2>2, <2>3, <2>4, <2>5
  <2>7. \A i \in DOMAIN more : more[i] = Form(d, t[i])
      BY <1>3, <2>2, <2>3, <2>5
  <2>8. \A f \in Converted(d) \cup {e} : f.place = "auth" \/ \E i \in DOMAIN t : t[i] = f
    <3>1. DOMAIN s = 1..n
        BY <1>3, <2>2
    <3> QED BY <1>3, <2>5, <3>1
  <2>9. ASSUME NEW i \in DOMAIN t, NEW j \in DOMAIN t, i < j
        PROVE  ~Before(t[j], t[i])
    <3>1. i \in 1..n
        BY <2>5, <2>9
    <3>2. CASE j = n + 1
        BY <1>1, <2>5, <3>1, <3>2
    <3>3. CASE j \in 1..n
      <4>1. i \in DOMAIN s /\ j \in DOMAIN s
          BY <1>3, <2>2, <3>1, <3>3
      <4> QED BY <1>3, <2>5, <2>9, <3>1, <3>3, <4>1
    <3> QED BY <2>3, <2>5, <3>2, <3>3
  <2> QED BY <2>6, <2>7, <2>8, <2>9
<1> QED BY <1>2, <1>5, <1>6

LEMMA KeepKept ==
    ASSUME IInv, NEW d \in Drafts, Kept(d), Imported(d), Keep(d)
    PROVE  Kept(d)'
<1>1. PICK e \in todo[d] : /\ IsNext(d, e) /\ ~e.sensitive
                           /\ config' = [config EXCEPT ![d].entries = Append(@, Static(e))]
                           /\ todo' = [todo EXCEPT ![d] = @ \ {e}]
    BY DEF Keep, Keeps
<1>2. at' = at /\ command' = command
    BY DEF Keep
<1>3. /\ config'[d].entries = Append(config[d].entries, Static(e))
      /\ config'[d].auth = config[d].auth /\ config'[d].method = config[d].method
      /\ config'[d].base = config[d].base /\ config'[d].path = config[d].path
      /\ config'[d].params = config[d].params
    BY <1>1, RecordFields DEF IInv, TypeOK
<1>4. Converted(d)' = Converted(d) \cup {e} /\ e \in Given(command[d])
    BY <1>1, <1>2, ConvertOneKeeps
<1>5. e.place # "auth"
    BY <1>1, <1>4, GivenIs, AuthIs
<1>6. Origin(d)' /\ PathKept(d)'
    BY <1>2, <1>3 DEF Kept, Origin, PathKept, Imported
<1>7. BodyKept(d)'
    BY <1>1, <1>2 DEF BodyKept, IsNext
<1>8. LoginKept(d)'
    BY <1>2, <1>3, <1>4, <1>5 DEF Kept, LoginKept, Imported
<1>9. Arranged(d)'
  <2>1. Form(d, e) = Static(e)
      BY <1>1 DEF Form
  <2> QED BY <1>1, <1>2, <1>3, <2>1, OneMoreArranged DEF Kept
<1> QED BY <1>6, <1>7, <1>8, <1>9 DEF Kept

LEMMA LiftKept ==
    ASSUME IInv, NEW d \in Drafts, Kept(d), Imported(d), Lift(d)
    PROVE  Kept(d)'
<1>1. PICK e \in todo[d] :
         /\ IsNext(d, e) /\ e.sensitive
         /\ config' = IF e.place = "auth"
                      THEN [config EXCEPT ![d].auth = [type |-> "basic", ref |-> Reference(d, e),
                                                       header |-> ""]]
                      ELSE [config EXCEPT ![d].entries = Append(@, Secret(d, e))]
         /\ todo' = [todo EXCEPT ![d] = @ \ {e}]
    BY DEF Lift, Keeps
<1>2. at' = at /\ command' = command
    BY DEF Lift
<1>3. /\ config'[d].method = config[d].method /\ config'[d].base = config[d].base
      /\ config'[d].path = config[d].path /\ config'[d].params = config[d].params
      /\ e.place # "auth" => /\ config'[d].entries = Append(config[d].entries, Secret(d, e))
                             /\ config'[d].auth = config[d].auth
      /\ e.place = "auth" => /\ config'[d].entries = config[d].entries
                             /\ config'[d].auth = [type |-> "basic", ref |-> Reference(d, e),
                                                   header |-> ""]
    BY <1>1, RecordFields DEF IInv, TypeOK
<1>4. Converted(d)' = Converted(d) \cup {e} /\ e \in Given(command[d])
    BY <1>1, <1>2, ConvertOneKeeps
<1>5. e.place = "auth" => Reference(d, e) = << d, "auth", "auth" >>
    BY <1>4, GivenIs DEF Reference
<1>6. Origin(d)' /\ PathKept(d)'
    BY <1>2, <1>3 DEF Kept, Origin, PathKept, Imported
<1>7. BodyKept(d)'
    BY <1>1, <1>2 DEF BodyKept, IsNext
<1>8. LoginKept(d)'
  <2>1. CASE e.place = "auth"
      BY <1>3, <1>4, <1>5, <2>1 DEF LoginKept
  <2>2. CASE e.place # "auth"
      BY <1>2, <1>3, <1>4, <2>2 DEF Kept, LoginKept, Imported
  <2> QED BY <2>1, <2>2
<1>9. Arranged(d)'
  <2>1. Form(d, e) = Secret(d, e)
      BY <1>1 DEF Form
  <2> QED BY <1>1, <1>2, <1>3, <2>1, OneMoreArranged DEF Kept
<1> QED BY <1>6, <1>7, <1>8, <1>9 DEF Kept

\* The draft that a step is about.
LEMMA KeptHere ==
    ASSUME IInv, Paths, NEW d \in Drafts, Kept(d),
           \/ Paste(d) \/ Keep(d) \/ Lift(d) \/ StoreFails(d) \/ ConvertBody(d)
           \/ MakePathDynamic(d) \/ Load(d) \/ Build(d)
    PROVE  Kept(d)'
<1>0. TypeOK /\ Started
    BY DEF IInv
<1>1. CASE Paste(d)
  <2>1. PICK c \in Commands(d) : /\ command' = [command EXCEPT ![d] = c]
                                 /\ Refuse(d, c) \/ Convert(d, c)
      BY <1>1 DEF Paste
  <2>2. CASE Refuse(d, c)
    <3>1. at'[d] = "refused"
        BY <1>0, <2>2 DEF Refuse, TypeOK
    <3> QED BY <3>1, KeptOfNone DEF Imported, InProgress
  <2>3. CASE Convert(d, c)
      BY <1>0, <2>1, <2>3, PastedKept
  <2> QED BY <2>1, <2>2, <2>3
<1>2. CASE Keep(d)
  <2>1. CASE Imported(d)
      BY <1>2, <2>1, KeepKept
  <2>2. CASE ~Imported(d)
      BY <1>2, <2>2, KeptOfNone DEF Keep, Imported
  <2> QED BY <2>1, <2>2
<1>3. CASE Lift(d)
  <2>1. CASE Imported(d)
      BY <1>3, <2>1, LiftKept
  <2>2. CASE ~Imported(d)
      BY <1>3, <2>2, KeptOfNone DEF Lift, Imported
  <2> QED BY <2>1, <2>2
<1>4. CASE StoreFails(d)
  <2>1. at'[d] = "failed"
      BY <1>0, <1>4 DEF StoreFails, TypeOK
  <2> QED BY <2>1, KeptOfNone DEF Imported, InProgress
<1>5. CASE ConvertBody(d)
  <2>1. command' = command /\ todo' = todo /\ at[d] = "converting"
      BY <1>5 DEF ConvertBody
  <2>2. CASE at' = [at EXCEPT ![d] = "failed"]
    <3>1. at'[d] = "failed"
        BY <1>0, <2>2 DEF TypeOK
    <3> QED BY <3>1, KeptOfNone DEF Imported, InProgress
  <2>3. ASSUME NEW body \in Body(command[d]), at' = [at EXCEPT ![d] = "ready"],
               config' = [config EXCEPT ![d].body = body]
        PROVE  Kept(d)'
    <3>1. at'[d] = "ready"
        BY <1>0, <2>3 DEF TypeOK
    <3>2. /\ config'[d].body = body
          /\ config'[d].method = config[d].method /\ config'[d].base = config[d].base
          /\ config'[d].path = config[d].path /\ config'[d].params = config[d].params
          /\ config'[d].entries = config[d].entries /\ config'[d].auth = config[d].auth
        BY <1>0, <2>3, RecordFields DEF TypeOK
    <3>3. Converted(d)' = Converted(d) /\ (Imported(d)' => Imported(d))
        BY <2>1, <3>1 DEF Converted, Imported, InProgress
    <3>4. BodyKept(d)'
        BY <2>1, <3>2 DEF BodyKept
    <3>5. Origin(d)' /\ LoginKept(d)' /\ PathKept(d)'
        BY <2>1, <3>2, <3>3 DEF Kept, Origin, LoginKept, PathKept
    <3>6. Arranged(d)'
        BY <3>2, <3>3 DEF Kept, Arranged, Arranges
    <3> QED BY <3>4, <3>5, <3>6 DEF Kept
  <2> QED BY <1>5, <2>2, <2>3 DEF ConvertBody
<1>6. CASE MakePathDynamic(d)
  <2>1. PICK k \in 0..(Len(config[d].path) + 1), name \in Names :
           MakeDynamic(d, k, name) \/ MakeDynamicFails(d, k, name)
      BY <1>6 DEF MakePathDynamic
  <2>2. command' = command /\ todo' = todo /\ at[d] = "ready" /\ command[d] # NoCommand
      BY <1>6 DEF MakePathDynamic
  <2>3. CASE MakeDynamicFails(d, k, name)
    <3>1. at'[d] = "refused"
        BY <1>0, <2>3 DEF MakeDynamicFails, TypeOK
    <3> QED BY <3>1, KeptOfNone DEF Imported, InProgress
  <2>4. CASE MakeDynamic(d, k, name)
    <3>1. at' = at /\ config' = [config EXCEPT
                         ![d].path = [Segments(d) EXCEPT ![k] = Braced(name)],
                         ![d].params = Put(config[d].params, name, PathParam(Segments(d)[k]))]
        BY <2>4 DEF MakeDynamic
    <3>2. /\ config'[d].params = Put(config[d].params, name, PathParam(Segments(d)[k]))
          /\ config'[d].method = config[d].method /\ config'[d].base = config[d].base
          /\ config'[d].entries = config[d].entries /\ config'[d].auth = config[d].auth
          /\ config'[d].body = config[d].body
        BY <1>0, <3>1, RecordFields DEF TypeOK
    <3>3. Converted(d)' = Converted(d) /\ Imported(d)' = Imported(d) /\ at'[d] = at[d]
        BY <2>2, <3>1 DEF Converted, Imported
    <3>4. PathKept(d)'
        BY <2>2, <2>4, DynamicPathKept
    <3>5. Origin(d)'
      <4>1. /\ DOMAIN config'[d].params = DOMAIN config[d].params \cup {name}
            /\ \A p \in DOMAIN config'[d].params :
                  \/ config'[d].params[p].location = "path"
                  \/ p \in DOMAIN config[d].params /\ config'[d].params[p] = config[d].params[p]
        <5>1. PICK params, more, example :
                 /\ params = config[d].params /\ more = config'[d].params
                 /\ example = PathParam(Segments(d)[k])
            OBVIOUS
        <5>2. example.location = "path"
            BY <5>1 DEF PathParam
        <5>3. more = Put(params, name, example)
            BY <3>2, <5>1, Zenon
        <5>4. DOMAIN more = DOMAIN params \cup {name} /\ more[name] = example
              /\ \A p \in DOMAIN params : p = name \/ more[p] = params[p]
            BY <5>3 DEF Put
        <5>5. \A p \in DOMAIN more : \/ more[p].location = "path"
                                     \/ p \in DOMAIN params /\ more[p] = params[p]
            BY <5>2, <5>4
        <5> QED BY <5>1, <5>4, <5>5, Zenon
      <4> QED BY <2>2, <3>2, <3>3, <4>1 DEF Kept, Origin
    <3>6. BodyKept(d)' /\ LoginKept(d)'
        BY <2>2, <3>2, <3>3 DEF Kept, BodyKept, LoginKept
    <3>7. Arranged(d)'
        BY <3>2, <3>3 DEF Kept, Arranged, Arranges
    <3> QED BY <3>4, <3>5, <3>6, <3>7 DEF Kept
  <2> QED BY <2>1, <2>3, <2>4
<1>7. CASE Load(d)
  <2>1. command' = command /\ command[d] = NoCommand
      BY <1>0, <1>7 DEF Load, Started
  <2> QED BY <2>1, KeptOfNone DEF Imported
<1>8. CASE Build(d)
  <2>1. /\ command' = command /\ todo' = todo /\ config' = config
        /\ at[d] = "ready" /\ at'[d] = "built"
      BY <1>0, <1>8 DEF Build, TypeOK
  <2>2. Converted(d)' = Converted(d) /\ Imported(d)' = Imported(d)
      BY <2>1 DEF Converted, Imported, InProgress
  <2>3. Origin(d)' /\ BodyKept(d)' /\ LoginKept(d)' /\ PathKept(d)'
      BY <2>1, <2>2 DEF Kept, Origin, BodyKept, LoginKept, PathKept
  <2>4. Arranged(d)'
      BY <2>1, <2>2 DEF Kept, Arranged, Arranges
  <2> QED BY <2>3, <2>4 DEF Kept
<1> QED BY <1>1, <1>2, <1>3, <1>4, <1>5, <1>6, <1>7, <1>8

\* A step is about one draft.
LEMMA OthersStay ==
    ASSUME TypeOK, NEW x \in Drafts, NEW d \in Drafts, d # x,
           \/ Paste(x) \/ Keep(x) \/ Lift(x) \/ StoreFails(x) \/ ConvertBody(x)
           \/ MakePathDynamic(x) \/ Load(x) \/ Build(x)
    PROVE  /\ at'[d] = at[d] /\ command'[d] = command[d]
           /\ todo'[d] = todo[d] /\ config'[d] = config[d]
<1>1. \/ config' = config
      \/ \E new : config' = [config EXCEPT ![x] = new]
      \/ \E new : config' = [config EXCEPT ![x].entries = new]
      \/ \E new : config' = [config EXCEPT ![x].auth = new]
      \/ \E new : config' = [config EXCEPT ![x].body = new]
      \/ \E path, params : config' = [config EXCEPT ![x].path = path, ![x].params = params]
    BY DEF Paste, Refuse, Convert, Keep, Lift, StoreFails, ConvertBody,
           MakePathDynamic, MakeDynamic, MakeDynamicFails, Load, Build
<1>2. at' = at \/ \E new : at' = [at EXCEPT ![x] = new]
    BY DEF Paste, Refuse, Convert, Keep, Lift, StoreFails, ConvertBody,
           MakePathDynamic, MakeDynamic, MakeDynamicFails, Load, Build
<1>3. command' = command \/ \E new : command' = [command EXCEPT ![x] = new]
    BY DEF Paste, Refuse, Convert, Keep, Lift, StoreFails, ConvertBody,
           MakePathDynamic, MakeDynamic, MakeDynamicFails, Load, Build
<1>4. todo' = todo \/ \E new : todo' = [todo EXCEPT ![x] = new]
    BY DEF Paste, Refuse, Convert, Keep, Lift, StoreFails, ConvertBody,
           MakePathDynamic, MakeDynamic, MakeDynamicFails, Load, Build
<1> QED BY <1>1, <1>2, <1>3, <1>4 DEF TypeOK

\* What is sent of a draft, as SameRequest has it.
SameSent(d) ==
    LET c       == command[d]
        params  == config[d].params
        request == built[d]
    IN  /\ request.err = "ok" /\ c # NoCommand
        /\ values[d] = Examples(params) /\ Concrete(params) /\ Plain(c, params)
        => /\ Places(c, MethodFlags) # {} =>
                 request.method = Upper(c[LastOf(Places(c, MethodFlags))].method)
           /\ SamePath(c, params, request) /\ SameQuery(c, request)
           /\ SameHeaders(c, request) /\ SameBody(c, request)

LEMMA SameRequestIs == SameRequest <=> \A d \in Drafts : SameSent(d)
BY Zenon DEF SameRequest, SameSent

\* A draft has values when it is built.
Valued == values = [d \in Drafts |-> values[d]]

LEMMA BuildSameSent ==
    ASSUME IInv, Paths, BuiltLast, Valued, NEW d \in Drafts, Kept(d), Build(d)
    PROVE  SameSent(d)'
<1>1. PICK given \in {Examples(config[d].params)} \cup ParamSets :
         /\ values' = [values EXCEPT ![d] = given]
         /\ \E request \in Outcomes(config[d], given, store) : built' = [built EXCEPT ![d] = request]
    BY DEF Build
<1>2. PICK request \in Outcomes(config[d], given, store) : built' = [built EXCEPT ![d] = request]
    BY <1>1
<1>3. /\ at[d] = "ready" /\ command' = command /\ config' = config
      /\ values'[d] = given /\ built'[d] = request
    BY <1>1, <1>2 DEF Build, Valued, BuiltLast
<1>4. PICK c, params : c = command[d] /\ params = config[d].params
    OBVIOUS
<1>5. ASSUME request.err = "ok", c # NoCommand, given = Examples(params),
             Concrete(params), Plain(c, params)
      PROVE  /\ Places(c, MethodFlags) # {} =>
                   request.method = Upper(c[LastOf(Places(c, MethodFlags))].method)
             /\ SamePath(c, params, request) /\ SameQuery(c, request)
             /\ SameHeaders(c, request) /\ SameBody(c, request)
    BY <1>2, <1>3, <1>4, <1>5, BuildSends
<1>6. c = command'[d] /\ params = config'[d].params
    BY <1>3, <1>4
<1> QED BY <1>3, <1>5, <1>6, Zenon DEF SameSent

LEMMA StepSameSent ==
    ASSUME IInv, Paths, BuiltLast, Valued, NEW d \in Drafts, Kept(d), SameSent(d), [Next]_vars
    PROVE  SameSent(d)'
<1>0. TypeOK
    BY DEF IInv
<1>1. CASE UNCHANGED vars
    BY <1>1, Zenon DEF vars, SameSent
<1>2. ASSUME NEW x \in Drafts, Build(x)
      PROVE  SameSent(d)'
  <2>1. CASE x = d
      BY <1>2, <2>1, BuildSameSent
  <2>2. CASE x # d
    <3>1. /\ command'[d] = command[d] /\ config'[d] = config[d]
          /\ values'[d] = values[d] /\ built'[d] = built[d]
        BY <1>2, <2>2 DEF Build, Valued, BuiltLast
    <3> QED BY <3>1, Zenon DEF SameSent
  <2> QED BY <2>1, <2>2
<1>3. ASSUME NEW x \in Drafts,
             \/ Paste(x) \/ Keep(x) \/ Lift(x) \/ StoreFails(x) \/ ConvertBody(x)
             \/ MakePathDynamic(x) \/ Load(x)
      PROVE  SameSent(d)'
  <2>1. /\ built' = built /\ values' = values
        /\ at[d] = "built" => config'[d] = config[d] /\ command'[d] = command[d]
      BY <1>0, <1>3, BuiltStays
  <2>2. CASE at[d] = "built"
    <3>1. /\ command'[d] = command[d] /\ config'[d] = config[d]
          /\ values'[d] = values[d] /\ built'[d] = built[d]
        BY <2>1, <2>2
    <3> QED BY <3>1, Zenon DEF SameSent
  <2>3. CASE at[d] # "built"
    <3>1. built'[d].err # "ok"
        BY <2>1, <2>3, NotBuiltYet
    <3> QED BY <3>1, Zenon DEF SameSent
  <2> QED BY <2>2, <2>3
<1> QED BY <1>1, <1>2, <1>3 DEF Next

\* The inductive invariant, over that of conversions and that of what is built.
SentInv == Valued /\ \A d \in Drafts : Kept(d) /\ SameSent(d)

LEMMA InitSentInv == Init => SentInv
<1> SUFFICES ASSUME Init PROVE SentInv
    OBVIOUS
<1>1. Valued
    BY DEF Init, Valued
<1>2. ASSUME NEW d \in Drafts
      PROVE  Kept(d) /\ SameSent(d)
  <2>1. command[d] = NoCommand
      BY DEF Init
  <2> QED BY <2>1, Zenon DEF Kept, Origin, BodyKept, LoginKept, Arranged, PathKept, Imported,
                            SameSent
<1> QED BY <1>1, <1>2 DEF SentInv

LEMMA StepSentInv ==
    ASSUME IInv, Paths, BuiltLast, SentInv, [Next]_vars
    PROVE  SentInv'
<1>0. TypeOK
    BY DEF IInv
<1>1. Valued'
  <2>1. values' = values \/ \E x, given : values' = [values EXCEPT ![x] = given]
      BY DEF Next, vars, Paste, Keep, Lift, StoreFails, ConvertBody, MakePathDynamic, Load, Build
  <2> QED BY <2>1 DEF SentInv, Valued
<1>2. ASSUME NEW d \in Drafts
      PROVE  Kept(d)'
  <2>1. Kept(d)
      BY DEF SentInv
  <2>2. CASE UNCHANGED vars
      BY <2>1, <2>2, KeptElsewhere DEF vars
  <2>3. ASSUME NEW x \in Drafts,
               \/ Paste(x) \/ Keep(x) \/ Lift(x) \/ StoreFails(x) \/ ConvertBody(x)
               \/ MakePathDynamic(x) \/ Load(x) \/ Build(x)
        PROVE  Kept(d)'
    <3>1. CASE d = x
        BY <2>1, <2>3, <3>1, KeptHere
    <3>2. CASE d # x
        BY <1>0, <2>1, <2>3, <3>2, OthersStay, KeptElsewhere
    <3> QED BY <3>1, <3>2
  <2> QED BY <2>2, <2>3 DEF Next
<1>3. ASSUME NEW d \in Drafts
      PROVE  SameSent(d)'
    BY StepSameSent DEF SentInv
<1> QED BY <1>1, <1>2, <1>3 DEF SentInv

\* Whatever is pasted, and however the drafts' conversions alternate and fail: what is
\* sent for a draft built with its parameters' examples is the request of the command
\* (BuildRequest after FromImported and MakePathDynamic).
THEOREM PastedIsSent == Spec => []SameRequest
<1>1. Init => SentInv
    BY InitSentInv
<1>2. SentInv /\ IInv /\ RequestInv /\ [Next]_vars => SentInv'
    BY StepSentInv DEF RequestInv
<1>3. SentInv => SameRequest
    BY SameRequestIs DEF SentInv
<1>4. Spec => []IInv
    BY Invariance
<1>5. Spec => []RequestInv
  <2>1. Init => RequestInv
      BY InitRequestInv
  <2>2. RequestInv /\ TypeOK' /\ [Next]_vars => RequestInv'
      BY StepRequestInv
  <2>3. Spec => []TypeOK
      BY TypeCorrect
  <2> QED BY <2>1, <2>2, <2>3, PTL DEF Spec
<1> QED BY <1>1, <1>2, <1>3, <1>4, <1>5, PTL DEF Spec
--------------------------------------------------------------------------------
(* Credentials.  What a draft's configuration has beside its entries is      *)
(* copied from the command, whatever has become of the draft.                *)

\* Reading a text that came of a command's path yields no other texts.
LEMMA ReadingsAreClosed ==
    ASSUME NEW d \in Drafts, NEW c \in Commands(d), Parses(c), NEW text \in PathReadings(c)
    PROVE  text \in PathTexts /\ Decode(text) \in Seq(PathReadings(c))
<1>1. Pairs(URL(c).path) \cup {Braced(name) : name \in Names} \subseteq PathTexts
  <2>1. URL(c).path \in Seq(PathTexts)
      BY PathAssumption
  <2>2. \A i \in DOMAIN URL(c).path : URL(c).path[i] \in PathTexts
      BY <2>1
  <2> QED BY <2>2, PathAssumption DEF Pairs
<1>2. PICK first \in PathTexts : text \in ReadFrom[first] /\ ReadFrom[first] \subseteq PathReadings(c)
    BY <1>1 DEF PathReadings
<1>3. text \in PathTexts /\ \A S \in ReadSets : first \in S => text \in S
    BY <1>2 DEF ReadFrom
<1>4. Decode(text) \in Seq(PathTexts)
    BY <1>3, PathAssumption
<1>5. ASSUME NEW i \in DOMAIN Decode(text)
      PROVE  Decode(text)[i] \in PathReadings(c)
  <2>1. Decode(text)[i] \in PathTexts
      BY <1>4
  <2>2. ASSUME NEW S \in ReadSets, first \in S
        PROVE  Decode(text)[i] \in S
    <3>1. text \in S
        BY <1>3, <2>2
    <3> QED BY <3>1 DEF ReadSets, Pairs
  <2>3. Decode(text)[i] \in ReadFrom[first]
      BY <2>1, <2>2 DEF ReadFrom
  <2> QED BY <1>2, <2>3
<1>6. Decode(text) \in Seq(PathReadings(c))
    BY <1>4, <1>5
<1> QED BY <1>3, <1>6

LEMMA ReadingsStay ==
    ASSUME NEW d \in Drafts, NEW c \in Commands(d), Parses(c),
           NEW path \in Seq(PathReadings(c))
    PROVE  ReadPath(path) \in Seq(PathReadings(c))
<1> DEFINE read == [i \in DOMAIN path |-> Decode(path[i])]
<1>1. \A i \in 1..Len(path) : Decode(path[i]) \in Seq(PathReadings(c))
    BY ReadingsAreClosed
<1>2. read \in Seq(Seq(PathReadings(c)))
    BY <1>1
<1> HIDE DEF read
<1>3. FlattenSeq(read) \in Seq(PathReadings(c))
    BY <1>2, FlattenType
<1> QED BY <1>3 DEF ReadPath, read

\* A command's own path, and the placeholders, are among them.
LEMMA ReadingsHold ==
    ASSUME NEW d \in Drafts, NEW c \in Commands(d), Parses(c)
    PROVE  /\ URL(c).path \in Seq(PathReadings(c))
           /\ \A name \in Names : Braced(name) \in PathReadings(c)
<1>1. URL(c).path \in Seq(PathTexts)
    BY PathAssumption
<1>2. \A text \in PathTexts : text \in ReadFrom[text]
    BY DEF ReadFrom
<1>3. \A i \in DOMAIN URL(c).path : URL(c).path[i] \in PathReadings(c)
  <2>1. \A i \in DOMAIN URL(c).path : URL(c).path[i] \in PathTexts
      BY <1>1
  <2> QED BY <1>2, <2>1 DEF PathReadings, Pairs
<1>4. \A name \in Names : Braced(name) \in PathReadings(c)
    BY <1>2, PathAssumption DEF PathReadings
<1> QED BY <1>1, <1>3, <1>4

CopiedFrom(cfg, c) ==
    /\ cfg.method \in {"", ParsedMethod(c)} /\ cfg.base \in {"", URL(c).base}
    /\ cfg.path \in Seq(PathReadings(c))
    /\ DOMAIN cfg.params \subseteq Names
    /\ \A p \in DOMAIN cfg.params : cfg.params[p].example \in PathReadings(c)
    /\ cfg.body = NoBody \/ (HasBody(c) /\ cfg.body = Document(c))

Copied(d) == command[d] # NoCommand /\ Parses(command[d]) =>
                 command[d] \in Commands(d) /\ CopiedFrom(config[d], command[d])

\* Nothing, and what a command begins with.
LEMMA NothingCopied == \A c : CopiedFrom(NoConfig, c)
<1>1. \A S : << >> \in Seq(S)
    OBVIOUS
<1>2. DOMAIN NoParams = {}
    BY DEF NoParams
<1> QED BY <1>1, <1>2 DEF CopiedFrom, NoConfig

LEMMA BlankCopied ==
    ASSUME NEW d \in Drafts, NEW c \in Commands(d), Parses(c)
    PROVE  CopiedFrom(Blank(c), c)
<1>1. /\ Blank(c).method = ParsedMethod(c) /\ Blank(c).base = URL(c).base
      /\ Blank(c).path = ReadPath(URL(c).path)
      /\ Blank(c).params = NoParams /\ Blank(c).body = NoBody
    BY DEF Blank, NoConfig
<1>2. ReadPath(URL(c).path) \in Seq(PathReadings(c))
    BY ReadingsHold, ReadingsStay
<1>3. DOMAIN NoParams = {}
    BY DEF NoParams
<1> QED BY <1>1, <1>2, <1>3 DEF CopiedFrom

\* A document as it is converted.
LEMMA BodyIs ==
    ASSUME NEW c, NEW body \in Body(c)
    PROVE  body = NoBody \/ (HasBody(c) /\ body = Document(c))
BY Zenon DEF Body

\* A segment that becomes a placeholder is kept as its example.
LEMMA DynamicCopied ==
    ASSUME TypeOK, NEW d \in Drafts, NEW name \in Names, NEW k, MakeDynamic(d, k, name),
           command[d] \in Commands(d), Parses(command[d]), CopiedFrom(config[d], command[d])
    PROVE  CopiedFrom(config'[d], command[d])
<1> DEFINE c == command[d]
<1> DEFINE example == Segments(d)[k]
<1>1. /\ k \in DOMAIN Segments(d)
      /\ config' = [config EXCEPT
            ![d].path = [Segments(d) EXCEPT ![k] = Braced(name)],
            ![d].params = Put(config[d].params, name, PathParam(example))]
    BY DEF MakeDynamic
<1>2. /\ config'[d].path = [Segments(d) EXCEPT ![k] = Braced(name)]
      /\ config'[d].params = Put(config[d].params, name, PathParam(example))
      /\ config'[d].method = config[d].method /\ config'[d].base = config[d].base
      /\ config'[d].body = config[d].body
    BY <1>1, RecordFields DEF TypeOK
<1>3. Segments(d) \in Seq(PathReadings(c))
  <2>1. config[d].path \in Seq(PathReadings(c))
      BY DEF CopiedFrom
  <2>2. ReadPath(config[d].path) \in Seq(PathReadings(c))
      BY <2>1, ReadingsStay
  <2> QED BY <2>2, TrimmedType DEF Segments
<1>4. Braced(name) \in PathReadings(c)
    BY ReadingsHold
<1>5. config'[d].path \in Seq(PathReadings(c))
  <2> DEFINE S == PathReadings(c)
  <2>1. Segments(d) \in Seq(S) /\ Braced(name) \in S /\ k \in DOMAIN Segments(d)
      BY <1>1, <1>3, <1>4
  <2> HIDE DEF S
  <2>2. [Segments(d) EXCEPT ![k] = Braced(name)] \in Seq(S)
      BY <2>1, ExceptType
  <2> QED BY <1>2, <2>2 DEF S
<1>6. example \in PathReadings(c)
    BY <1>1, <1>3
<1>7. DOMAIN config'[d].params \subseteq Names
    BY <1>2 DEF CopiedFrom, Put
<1>8. \A p \in DOMAIN config'[d].params : config'[d].params[p].example \in PathReadings(c)
  <2>1. PathParam(example).example = example
      BY DEF PathParam
  <2> HIDE DEF example
  <2>2. \A p \in DOMAIN config'[d].params :
            config'[d].params[p] = IF p = name THEN PathParam(example) ELSE config[d].params[p]
      BY <1>2 DEF Put
  <2>3. \A p \in DOMAIN config'[d].params : p # name => p \in DOMAIN config[d].params
      BY <1>2 DEF Put
  <2> QED BY <1>6, <2>1, <2>2, <2>3 DEF CopiedFrom
<1> QED BY <1>2, <1>5, <1>7, <1>8 DEF CopiedFrom

LEMMA CopiedHere ==
    ASSUME TypeOK, Started, NEW d \in Drafts, Copied(d),
           \/ Paste(d) \/ Keep(d) \/ Lift(d) \/ StoreFails(d) \/ ConvertBody(d)
           \/ MakePathDynamic(d) \/ Load(d) \/ Build(d)
    PROVE  Copied(d)'
<1>1. CASE Paste(d)
  <2>1. PICK c \in Commands(d) : /\ command' = [command EXCEPT ![d] = c]
                                 /\ Refuse(d, c) \/ Convert(d, c)
      BY <1>1 DEF Paste
  <2>2. command'[d] = c
      BY <2>1 DEF TypeOK
  <2>3. CASE Refuse(d, c)
    <3>1. config'[d] = NoConfig
        BY <1>1, <2>3 DEF Paste, Refuse, Started
    <3> QED BY <2>2, <3>1, NothingCopied DEF Copied
  <2>4. CASE Convert(d, c)
    <3>1. config'[d] = Blank(c) /\ Parses(c)
        BY <2>4 DEF Convert, TypeOK
    <3> QED BY <2>2, <3>1, BlankCopied DEF Copied
  <2> QED BY <2>1, <2>3, <2>4
<1>2. CASE Keep(d) \/ Lift(d)
  <2>1. command' = command
      BY <1>2 DEF Keep, Lift
  <2>2. \/ \E new : config' = [config EXCEPT ![d].entries = new]
        \/ \E new : config' = [config EXCEPT ![d].auth = new]
      BY <1>2 DEF Keep, Lift
  <2>3. /\ config'[d].method = config[d].method /\ config'[d].base = config[d].base
        /\ config'[d].path = config[d].path /\ config'[d].params = config[d].params
        /\ config'[d].body = config[d].body
      BY <2>2, RecordFields DEF TypeOK
  <2> QED BY <2>1, <2>3 DEF Copied, CopiedFrom
<1>3. CASE StoreFails(d)
  <2>1. command' = command /\ config'[d] = NoConfig
      BY <1>3 DEF StoreFails, TypeOK
  <2> QED BY <2>1, NothingCopied DEF Copied
<1>4. CASE ConvertBody(d)
  <2>1. command' = command
      BY <1>4 DEF ConvertBody
  <2>2. CASE config' = [config EXCEPT ![d] = NoConfig]
    <3>1. config'[d] = NoConfig
        BY <2>2 DEF TypeOK
    <3> QED BY <2>1, <3>1, NothingCopied DEF Copied
  <2>3. ASSUME NEW body \in Body(command[d]), config' = [config EXCEPT ![d].body = body]
        PROVE  Copied(d)'
    <3>1. /\ config'[d].method = config[d].method /\ config'[d].base = config[d].base
          /\ config'[d].path = config[d].path /\ config'[d].params = config[d].params
          /\ config'[d].body = body
        BY <2>3, RecordFields DEF TypeOK
    <3>2. body = NoBody \/ (HasBody(command[d]) /\ body = Document(command[d]))
        BY BodyIs
    <3> QED BY <2>1, <3>1, <3>2 DEF Copied, CopiedFrom
  <2> QED BY <1>4, <2>2, <2>3 DEF ConvertBody
<1>5. CASE MakePathDynamic(d)
  <2>1. PICK k \in 0..(Len(config[d].path) + 1), name \in Names :
           MakeDynamic(d, k, name) \/ MakeDynamicFails(d, k, name)
      BY <1>5 DEF MakePathDynamic
  <2>2. command' = command
      BY <1>5 DEF MakePathDynamic
  <2>3. CASE MakeDynamic(d, k, name)
      BY <2>2, <2>3, DynamicCopied DEF Copied
  <2>4. CASE MakeDynamicFails(d, k, name)
      BY <2>2, <2>4 DEF MakeDynamicFails, Copied
  <2> QED BY <2>1, <2>3, <2>4
<1>6. CASE Load(d)
  <2>1. command'[d] = NoCommand
      BY <1>6 DEF Load, Started
  <2> QED BY <2>1 DEF Copied
<1>7. CASE Build(d)
    BY <1>7 DEF Build, Copied
<1> QED BY <1>1, <1>2, <1>3, <1>4, <1>5, <1>6, <1>7

CopiedInv == \A d \in Drafts : Copied(d)

LEMMA StepCopiedInv ==
    ASSUME IInv, CopiedInv, [Next]_vars
    PROVE  CopiedInv'
<1>0. TypeOK /\ Started
    BY DEF IInv
<1>1. SUFFICES ASSUME NEW d \in Drafts
               PROVE  Copied(d)'
    BY DEF CopiedInv
<1>2. Copied(d)
    BY DEF CopiedInv
<1>3. CASE UNCHANGED vars
    BY <1>2, <1>3 DEF vars, Copied
<1>4. ASSUME NEW x \in Drafts,
             \/ Paste(x) \/ Keep(x) \/ Lift(x) \/ StoreFails(x) \/ ConvertBody(x)
             \/ MakePathDynamic(x) \/ Load(x) \/ Build(x)
      PROVE  Copied(d)'
  <2>1. CASE d = x
      BY <1>0, <1>2, <1>4, <2>1, CopiedHere
  <2>2. CASE d # x
    <3>1. command'[d] = command[d] /\ config'[d] = config[d]
        BY <1>0, <1>4, <2>2, OthersStay
    <3> QED BY <1>2, <3>1 DEF Copied
  <2> QED BY <2>1, <2>2
<1> QED BY <1>3, <1>4 DEF Next

\* Neither the configuration made of a command nor what is printed of it has a
\* credential of the command, where credentials are looked for: for any command there
\* is, wherever its conversion ends and whatever is made dynamic after it.
THEOREM CredentialsDoNotLeave == Spec => []NoCredentialLeaves
<1>1. ASSUME IInv, CopiedInv
      PROVE  NoCredentialLeaves
  <2> SUFFICES ASSUME NEW d \in Drafts, command[d] # NoCommand, Parses(command[d]),
                      NEW text \in Texts(config[d]) \cup Redacted(command[d])
               PROVE  text \in Ordinary(command[d]) \cup Verbatim(command[d])
      BY DEF NoCredentialLeaves
  <2> DEFINE c   == command[d]
  <2> DEFINE cfg == config[d]
  <2>0. /\ c \in Commands(d) /\ CopiedFrom(cfg, c)
        /\ "masked" \in Ordinary(c) /\ "" \in Ordinary(c)
      BY <1>1 DEF CopiedInv, Copied, Ordinary
  <2>1. ASSUME NEW i \in DOMAIN cfg.entries, text \in {cfg.entries[i].name, cfg.entries[i].value}
        PROVE  text \in Ordinary(c)
    <3>1. cfg.entries \in Seq(Forms(d))
        BY <1>1 DEF IInv, Lifted
    <3>2. cfg.entries[i] \in Forms(d)
        BY <3>1
    <3>3. PICK e \in Given(c) : \/ ~e.sensitive /\ cfg.entries[i] = Static(e)
                                \/ /\ e.sensitive /\ e.place # "auth"
                                   /\ cfg.entries[i] = Secret(d, e)
        BY <3>2 DEF Forms, Converted
    <3>4. /\ Static(e).name = e.name /\ Static(e).value = e.value
          /\ Secret(d, e).name = e.name /\ Secret(d, e).value = ""
        BY DEF Static, Secret
    <3>5. e \in Headers(c) \cup Query(c)
        BY <3>3, GivenIs, AuthIs DEF Given
    <3>6. e.name \in Ordinary(c)
        BY <3>5 DEF Ordinary
    <3> QED BY <2>0, <2>1, <3>3, <3>4, <3>6, KeptIsOrdinary
  <2>2. CASE \E e \in Headers(c) \cup Query(c) :
                text = e.name \/ text = IF e.sensitive THEN "masked" ELSE e.value
    <3>1. PICK e \in Headers(c) \cup Query(c) :
                text = e.name \/ text = IF e.sensitive THEN "masked" ELSE e.value
        BY <2>2
    <3>2. e \in Given(c) /\ e.name \in Ordinary(c)
        BY DEF Given, Ordinary
    <3> QED BY <2>0, <3>1, <3>2, KeptIsOrdinary
  <2>3. /\ {cfg.method, cfg.base} \subseteq Ordinary(c) \cup Verbatim(c)
        /\ DOMAIN cfg.params \subseteq Verbatim(c)
        /\ Pairs(cfg.path) \subseteq Verbatim(c)
        /\ {cfg.params[p].example : p \in DOMAIN cfg.params} \subseteq Verbatim(c)
    <3>1. cfg.method \in {"", ParsedMethod(c)} /\ cfg.base \in {"", URL(c).base}
        BY <2>0, Zenon DEF CopiedFrom
    <3>2. cfg.path \in Seq(PathReadings(c))
        BY <2>0, Zenon DEF CopiedFrom
    <3>3. \A i \in DOMAIN cfg.path : cfg.path[i] \in PathReadings(c)
        BY <3>2
    <3>4. /\ DOMAIN cfg.params \subseteq Names
          /\ \A p \in DOMAIN cfg.params : cfg.params[p].example \in PathReadings(c)
        BY <2>0, Zenon DEF CopiedFrom
    <3>5. PathReadings(c) \cup Names \cup {ParsedMethod(c), URL(c).base} \subseteq Verbatim(c)
        BY DEF Verbatim
    <3> HIDE DEF c, cfg
    <3> QED BY <2>0, <3>1, <3>3, <3>4, <3>5 DEF Pairs
  <2>4. BodyTexts(cfg.body) \subseteq Verbatim(c)
    <3>1. BodyTexts(NoBody) = {}
        BY DEF BodyTexts, NoBody
    <3>2. HasBody(c) => BodyTexts(Document(c)) \subseteq Verbatim(c)
        BY DEF Verbatim
    <3> QED BY <2>0, <3>1, <3>2 DEF CopiedFrom
  <2>5. Pairs(ReadPath(URL(c).path)) \subseteq Verbatim(c)
    <3>1. ReadPath(URL(c).path) \in Seq(PathReadings(c))
        BY <2>0, ReadingsHold, ReadingsStay
    <3> QED BY <3>1 DEF Pairs, Verbatim
  <2>6. CASE text \in Redacted(c)
    <3>1. {l[1] : l \in {Login(c)} \ {<<>>}} \subseteq Ordinary(c)
        BY DEF Ordinary
    <3>2. HasBody(c) => {Data(c)[i].text : i \in DOMAIN Data(c)} \subseteq Verbatim(c)
        BY DEF Verbatim
    <3>3. ParsedMethod(c) \in Verbatim(c) /\ URL(c).base \in Verbatim(c)
        BY DEF Verbatim
    <3> QED BY <2>0, <2>2, <2>5, <2>6, <3>1, <3>2, <3>3 DEF Redacted
  <2>7. CASE text \in Texts(cfg)
    <3>1. text \in UNION {{cfg.entries[i].name, cfg.entries[i].value} : i \in DOMAIN cfg.entries}
          => text \in Ordinary(c)
        BY <2>1
    <3>2. text \in Ordinary(c) \cup Verbatim(c)
      <4> HIDE DEF c, cfg
      <4> QED BY <2>3, <2>4, <2>7, <3>1 DEF Texts
    <3> QED BY <3>2
  <2> QED BY <2>6, <2>7
<1>2. Init => CopiedInv
  <2>1. Init => \A d \in Drafts : command[d] = NoCommand
      BY DEF Init
  <2> QED BY <2>1 DEF CopiedInv, Copied
<1>3. IInv /\ CopiedInv /\ [Next]_vars => CopiedInv'
    BY StepCopiedInv
<1> QED BY <1>1, <1>2, <1>3, Invariance, PTL DEF Spec
================================================================================
