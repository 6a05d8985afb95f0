---------------------------- MODULE DraftImportProofs --------------------------
(* For any number of drafts and whatever is pasted for each: what a          *)
(* conversion makes of credentials (DraftImport), by the invariant IInv.     *)
EXTENDS DraftImport, TLAPS

--------------------------------------------------------------------------------
(* Facts about what is converted.                                            *)

\* A reference is of one draft, one place and one name.
LEMMA ReferenceIsOwn ==
    \A d1, d2, e, f : Reference(d1, e) = Reference(d2, f) <=> d1 = d2 /\ Alike(e, f)
BY DEF Reference, Alike

\* A header, a query parameter and the login as they stand in a command.
LEMMA HeadersAre ==
    ASSUME NEW c, NEW e \in Headers(c)
    PROVE  /\ e.place = "header" /\ (e.sensitive <=> isSensitiveHeader(e.name))
           /\ \E i \in Places(c, HeaderFlags) : e.name = c[i].name /\ e.value = c[i].value
BY DEF Headers, Entry

LEMMA QueryIs ==
    ASSUME NEW c, NEW e \in Query(c)
    PROVE  /\ e.place = "query" /\ (e.sensitive <=> isSensitiveQueryParam(e.name))
           /\ \E p \in QueryPairs(c) : e.name = p[1] /\ e.value = p[2]
BY DEF Query, Entry

LEMMA AuthIs ==
    ASSUME NEW c, NEW e \in Auth(c)
    PROVE  e.place = "auth" /\ e.name = "auth" /\ e.sensitive
<1>1. PICK value : e = Entry("auth", 0, "auth", value, TRUE)
    BY DEF Auth
<1>2. e.place = "auth" /\ e.name = "auth" /\ e.sensitive = TRUE
    BY <1>1 DEF Entry
<1> QED BY <1>2

LEMMA GivenIs ==
    ASSUME NEW c, NEW e \in Given(c)
    PROVE  /\ e.place \in {"header", "query", "auth"}
           /\ e.place = "header" => e \in Headers(c)
           /\ e.place = "query" => e \in Query(c)
           /\ e.place = "auth" => e \in Auth(c) /\ e.name = "auth"
BY HeadersAre, QueryIs, AuthIs DEF Given

\* What goes by one place and one name is sensitive or not as a whole.
LEMMA SensitiveByName ==
    ASSUME NEW c, NEW e \in Given(c), NEW f \in Given(c), Alike(e, f)
    PROVE  e.sensitive <=> f.sensitive
BY GivenIs, HeadersAre, QueryIs, AuthIs DEF Alike

\* What is kept as it is was given for something that is no credential.
LEMMA KeptIsOrdinary ==
    ASSUME NEW c, NEW e \in Given(c), ~e.sensitive
    PROVE  e.value \in Ordinary(c)
<1>1. CASE e \in Headers(c)
  <2>1. PICK i \in Places(c, HeaderFlags) : e.name = c[i].name /\ e.value = c[i].value
      BY <1>1, HeadersAre
  <2>2. Lower(c[i].name) \in nonSensitiveHeaderNames
      BY <1>1, <2>1, HeadersAre DEF isSensitiveHeader
  <2> QED BY <2>1, <2>2 DEF Ordinary
<1>2. CASE e \in Query(c)
  <2>1. PICK p \in QueryPairs(c) : e.name = p[1] /\ e.value = p[2]
      BY <1>2, QueryIs
  <2>2. ~isSensitiveQueryParam(p[1])
      BY <1>2, <2>1, QueryIs
  <2> QED BY <2>1, <2>2 DEF Ordinary
<1> QED BY <1>1, <1>2, AuthIs DEF Given

--------------------------------------------------------------------------------
(* Steps that leave a draft's conversion alone keep what IInv says of it.    *)

\* Nothing of the conversion changes, and no draft starts one.
LEMMA ConversionUntouched ==
    ASSUME IInv, TypeOK', UNCHANGED <<command, todo, store>>,
           \A d \in Drafts : /\ config'[d].entries = config[d].entries \/ config'[d].entries = <<>>
                             /\ config'[d].auth = config[d].auth \/ config'[d].auth = NoAuth
                             /\ at'[d] = "idle" => at[d] = "idle" /\ config'[d] = config[d]
                             /\ at'[d] \in InProgress /\ command[d] # NoCommand => at[d] \in InProgress
                             /\ at'[d] = "converting" => at[d] = "converting"
    PROVE  IInv'
<1> USE DEF IInv
<1>0. \A d \in Drafts : Converted(d)' = Converted(d) /\ Forms(d)' = Forms(d)
    BY DEF Converted, Forms
<1>1. Started'
    BY DEF Started
<1>2. Lifted'
  <2> SUFFICES ASSUME NEW d \in Drafts, command[d] # NoCommand, Parses(command[d])
               PROVE  /\ config'[d].entries \in Seq(Forms(d))
                      /\ config'[d].auth = NoAuth
                           \/ \E e \in Converted(d) : /\ e.sensitive /\ e.place = "auth" /\ e.name = "auth"
                                                      /\ config'[d].auth.ref = Reference(d, e)
      BY <1>0 DEF Lifted
  <2>1. config[d].entries \in Seq(Forms(d))
      BY DEF Lifted
  <2>2. <<>> \in Seq(Forms(d))
      OBVIOUS
  <2>3. config'[d].entries \in Seq(Forms(d))
      BY <2>1, <2>2
  <2>4. \/ config[d].auth = NoAuth
        \/ \E e \in Converted(d) : /\ e.sensitive /\ e.place = "auth" /\ e.name = "auth"
                                   /\ config[d].auth.ref = Reference(d, e)
      BY DEF Lifted
  <2> QED BY <2>3, <2>4
<1>3. Ordered'
    BY <1>0 DEF Ordered
<1>4. Held'
  <2>1. \A d \in Drafts : \A f : LastOfName(f, d)' <=> LastOfName(f, d)
      BY <1>0 DEF LastOfName
  <2> QED BY <1>0, <2>1 DEF Held
<1> QED BY <1>1, <1>2, <1>3, <1>4

--------------------------------------------------------------------------------
(* The initial state and the steps of a conversion.                          *)

LEMMA InitIInv == Init => IInv
<1> SUFFICES ASSUME Init PROVE IInv
    OBVIOUS
<1> USE DEF Init
<1>1. TypeOK
    BY DEF TypeOK
<1>2. Started /\ Ordered /\ Held /\ Lifted
    BY DEF Started, Ordered, Held, Lifted, InProgress
<1> QED BY <1>1, <1>2 DEF IInv

\* A configuration keeps its fields.
LEMMA RecordFields ==
    DOMAIN NoConfig = {"method", "base", "path", "entries", "params", "auth", "body"}
BY DEF NoConfig

LEMMA NothingYet == NoConfig.entries = <<>> /\ NoConfig.auth = NoAuth
BY DEF NoConfig

LEMMA BlankIs ==
    \A c : /\ Blank(c).entries = <<>> /\ Blank(c).auth = NoAuth
           /\ DOMAIN Blank(c) = DOMAIN NoConfig
BY Zenon DEF Blank, NoConfig

\* A command is pasted: nothing of it is converted yet.
LEMMA PasteKeeps ==
    ASSUME IInv, NEW d \in Drafts, Paste(d)
    PROVE  IInv'
<1> USE DEF IInv
<1>1. PICK c \in Commands(d) : /\ command' = [command EXCEPT ![d] = c]
                               /\ Refuse(d, c) \/ Convert(d, c)
    BY DEF Paste
<1>2. at[d] = "idle" /\ command[d] = NoCommand /\ UNCHANGED store
    BY DEF Paste, Started
<1>3. /\ command'[d] = c
      /\ at'[d] \in {"refused", "converting"}
      /\ at'[d] = "converting" => Parses(c) /\ todo'[d] = Given(c)
      /\ at'[d] = "refused" => todo'[d] = {}
      /\ Converted(d)' = {} \/ at'[d] = "refused"
      /\ \A x \in Drafts \ {d} : /\ at'[x] = at[x] /\ command'[x] = command[x]
                                 /\ todo'[x] = todo[x] /\ config'[x] = config[x]
    BY <1>1, <1>2 DEF Refuse, Convert, TypeOK, Given, Converted
<1>4. TypeOK'
    BY <1>1, <1>2, <1>3, BlankIs DEF TypeOK, Refuse, Convert, Given
<1>5. config'[d].entries = <<>> /\ config'[d].auth = NoAuth
    BY <1>1, <1>2, BlankIs, NothingYet DEF Refuse, Convert, TypeOK, Started
<1>6. \A x \in Drafts \ {d} :
         /\ Converted(x)' = Converted(x) /\ Forms(x)' = Forms(x)
         /\ \A f : LastOfName(f, x)' <=> LastOfName(f, x)
    BY <1>3 DEF Converted, Forms, LastOfName
<1>7. Started'
    BY <1>3 DEF Started, InProgress
<1>8. Lifted'
  <2> SUFFICES ASSUME NEW x \in Drafts, command'[x] # NoCommand, Parses(command'[x])
               PROVE  /\ config'[x].entries \in Seq(Forms(x)')
                      /\ \/ config'[x].auth = NoAuth
                         \/ \E e \in Converted(x)' :
                               /\ e.sensitive /\ e.place = "auth" /\ e.name = "auth"
                               /\ config'[x].auth.ref = Reference(x, e)
      BY DEF Lifted
  <2>1. <<>> \in Seq(Forms(x)')
      OBVIOUS
  <2>2. CASE x = d
      BY <1>5, <2>1, <2>2
  <2>3. CASE x # d
      BY <1>3, <1>6, <2>3 DEF Lifted
  <2> QED BY <2>2, <2>3
<1>9. Ordered'
    BY <1>3, <1>6 DEF Ordered
<1>10. Held'
  <2> SUFFICES ASSUME NEW x \in Drafts, command'[x] # NoCommand, at'[x] \in InProgress,
                      NEW e \in Converted(x)', e.sensitive
               PROVE  /\ Reference(x, e) \in DOMAIN store'
                      /\ \E f \in Converted(x)' : /\ Alike(e, f) /\ LastOfName(f, x)'
                                                  /\ store'[Reference(x, e)] = f.value
      BY DEF Held
  <2>1. x # d
      BY <1>3 DEF InProgress
  <2> QED BY <1>2, <1>3, <1>6, <2>1 DEF Held
<1> QED BY <1>4, <1>7, <1>8, <1>9, <1>10

\* One more of a draft is converted, and whatever it leaves of the others: what is
\* true of Keep and of Lift alike.
LEMMA ConvertOneKeeps ==
    ASSUME IInv, NEW d \in Drafts, NEW e \in todo[d], IsNext(d, e),
           at' = at, command' = command, todo' = [todo EXCEPT ![d] = @ \ {e}]
    PROVE  /\ Converted(d)' = Converted(d) \cup {e} /\ e \notin Converted(d)
           /\ e \in Given(command[d])
           /\ \A x \in Drafts \ {d} :
                 /\ Converted(x)' = Converted(x) /\ Forms(x)' = Forms(x)
                 /\ \A f : LastOfName(f, x)' <=> LastOfName(f, x)
           /\ Forms(d) \subseteq Forms(d)'
           /\ LastOfName(e, d)'
           /\ Ordered'
<1> USE DEF IInv
<1>1. at[d] = "converting" /\ todo[d] \subseteq Given(command[d])
    BY DEF IsNext, TypeOK
<1>2. todo'[d] = todo[d] \ {e} /\ \A x \in Drafts \ {d} : todo'[x] = todo[x]
    BY DEF TypeOK
<1>3. /\ Converted(d)' = Converted(d) \cup {e} /\ e \notin Converted(d)
      /\ e \in Given(command[d])
    BY <1>1, <1>2 DEF Converted
<1>4. \A x \in Drafts \ {d} :
         /\ Converted(x)' = Converted(x) /\ Forms(x)' = Forms(x)
         /\ \A f : LastOfName(f, x)' <=> LastOfName(f, x)
    BY <1>2 DEF Converted, Forms, LastOfName
<1>5. Forms(d) \subseteq Forms(d)'
  <2> DEFINE Lift1 == {x \in Converted(d) : x.sensitive /\ x.place # "auth"}
             Lift2 == {x \in Converted(d)' : x.sensitive /\ x.place # "auth"}
  <2>1. Lift1 \subseteq Lift2
      BY <1>3
  <2>2. {Secret(d, x) : x \in Lift1} \subseteq {Secret(d, x) : x \in Lift2}
      BY <2>1
  <2> QED BY <2>2 DEF Forms
<1>6. \A g \in Converted(d) : ~Before(e, g)
    BY <1>1 DEF Ordered
<1>7. LastOfName(e, d)'
    BY <1>3, <1>6 DEF LastOfName
<1>8. Ordered'
    BY <1>2, <1>3, <1>4 DEF Ordered, IsNext
<1> QED BY <1>3, <1>4, <1>5, <1>7, <1>8

LEMMA KeepKeeps ==
    ASSUME IInv, NEW d \in Drafts, Keep(d)
    PROVE  IInv'
<1> USE DEF IInv
<1>1. PICK e \in todo[d] : /\ IsNext(d, e) /\ ~e.sensitive
                           /\ config' = [config EXCEPT ![d].entries = Append(@, Static(e))]
                           /\ todo' = [todo EXCEPT ![d] = @ \ {e}]
    BY DEF Keep, Keeps
<1>2. at' = at /\ command' = command /\ store' = store
    BY DEF Keep
<1>3. /\ Converted(d)' = Converted(d) \cup {e} /\ e \notin Converted(d)
      /\ e \in Given(command[d])
      /\ \A x \in Drafts \ {d} :
            /\ Converted(x)' = Converted(x) /\ Forms(x)' = Forms(x)
            /\ \A f : LastOfName(f, x)' <=> LastOfName(f, x)
      /\ Forms(d) \subseteq Forms(d)'
      /\ Ordered'
    BY <1>1, <1>2, ConvertOneKeeps
<1>4. /\ config'[d].entries = Append(config[d].entries, Static(e))
      /\ config'[d].auth = config[d].auth
      /\ \A x \in Drafts \ {d} : config'[x] = config[x]
    BY <1>1, RecordFields DEF TypeOK
<1>5. TypeOK'
    BY <1>1, <1>2, RecordFields DEF TypeOK
<1>6. Started'
    BY <1>1, <1>2, <1>4 DEF Started, IsNext
<1>7. Lifted'
  <2> SUFFICES ASSUME NEW x \in Drafts, command[x] # NoCommand, Parses(command[x])
               PROVE  /\ config'[x].entries \in Seq(Forms(x)')
                      /\ \/ config'[x].auth = NoAuth
                         \/ \E f \in Converted(x)' :
                               /\ f.sensitive /\ f.place = "auth" /\ f.name = "auth"
                               /\ config'[x].auth.ref = Reference(x, f)
      BY <1>2 DEF Lifted
  <2>1. CASE x = d
    <3>1. Static(e) \in Forms(d)'
        BY <1>1, <1>2, <1>3 DEF Forms
    <3>2. config[d].entries \in Seq(Forms(d)')
      <4>1. config[d].entries \in Seq(Forms(d))
          BY <2>1 DEF Lifted
      <4> QED BY <1>3, <4>1
    <3>3. config'[d].entries \in Seq(Forms(d)')
        BY <1>4, <3>1, <3>2
    <3>4. \/ config[d].auth = NoAuth
          \/ \E f \in Converted(d) : /\ f.sensitive /\ f.place = "auth" /\ f.name = "auth"
                                     /\ config[d].auth.ref = Reference(d, f)
        BY <2>1 DEF Lifted
    <3>5. Converted(d) \subseteq Converted(d)' /\ config'[d].auth = config[d].auth
        BY <1>3, <1>4
    <3> QED BY <2>1, <3>3, <3>4, <3>5
  <2>2. CASE x # d
      BY <1>3, <1>4, <2>2 DEF Lifted
  <2> QED BY <2>1, <2>2
<1>8. Held'
  <2> SUFFICES ASSUME NEW x \in Drafts, command[x] # NoCommand, at[x] \in InProgress,
                      NEW f \in Converted(x)', f.sensitive
               PROVE  /\ Reference(x, f) \in DOMAIN store
                      /\ \E g \in Converted(x)' : /\ Alike(f, g) /\ LastOfName(g, x)'
                                                  /\ store[Reference(x, f)] = g.value
      BY <1>2 DEF Held
  <2>1. CASE x = d
    <3>1. f \in Converted(d) /\ f # e
        BY <1>1, <1>3, <2>1
    <3>2. PICK g \in Converted(d) : /\ Alike(f, g) /\ LastOfName(g, d)
                                    /\ store[Reference(d, f)] = g.value
        BY <2>1, <3>1 DEF Held
    <3>3. ~Alike(g, e)
      <4>1. f \in Given(command[d]) /\ g \in Given(command[d])
          BY <3>1 DEF Converted
      <4>2. g.sensitive
          BY <3>2, <4>1, SensitiveByName
      <4> QED BY <1>1, <1>3, <4>1, <4>2, SensitiveByName
    <3>4. LastOfName(g, d)'
        BY <1>3, <3>2, <3>3 DEF LastOfName
    <3> QED BY <1>3, <2>1, <3>1, <3>2, <3>4 DEF Held
  <2>2. CASE x # d
      BY <1>3, <2>2 DEF Held
  <2> QED BY <2>1, <2>2
<1> QED BY <1>3, <1>5, <1>6, <1>7, <1>8

LEMMA LiftKeeps ==
    ASSUME IInv, NEW d \in Drafts, Lift(d)
    PROVE  IInv'
<1> USE DEF IInv
<1>1. PICK e \in todo[d] :
         /\ IsNext(d, e) /\ e.sensitive
         /\ store' = Put(store, Reference(d, e), e.value)
         /\ config' = IF e.place = "auth"
                      THEN [config EXCEPT ![d].auth = [type |-> "basic", ref |-> Reference(d, e),
                                                       header |-> ""]]
                      ELSE [config EXCEPT ![d].entries = Append(@, Secret(d, e))]
         /\ todo' = [todo EXCEPT ![d] = @ \ {e}]
    BY DEF Lift, Keeps
<1>2. at' = at /\ command' = command
    BY DEF Lift
<1>3. /\ Converted(d)' = Converted(d) \cup {e} /\ e \notin Converted(d)
      /\ e \in Given(command[d])
      /\ \A x \in Drafts \ {d} :
            /\ Converted(x)' = Converted(x) /\ Forms(x)' = Forms(x)
            /\ \A f : LastOfName(f, x)' <=> LastOfName(f, x)
      /\ Forms(d) \subseteq Forms(d)'
      /\ LastOfName(e, d)'
      /\ Ordered'
    BY <1>1, <1>2, ConvertOneKeeps
<1>4. /\ e.place # "auth" => /\ config'[d].entries = Append(config[d].entries, Secret(d, e))
                             /\ config'[d].auth = config[d].auth
      /\ e.place = "auth" => /\ config'[d].entries = config[d].entries
                             /\ config'[d].auth.ref = Reference(d, e)
      /\ \A x \in Drafts \ {d} : config'[x] = config[x]
    BY <1>1, RecordFields DEF TypeOK
<1>5. TypeOK'
    BY <1>1, <1>2, RecordFields DEF TypeOK
<1>6. Started'
    BY <1>1, <1>2, <1>4 DEF Started, IsNext
<1>7. Lifted'
  <2> SUFFICES ASSUME NEW x \in Drafts, command[x] # NoCommand, Parses(command[x])
               PROVE  /\ config'[x].entries \in Seq(Forms(x)')
                      /\ \/ config'[x].auth = NoAuth
                         \/ \E f \in Converted(x)' :
                               /\ f.sensitive /\ f.place = "auth" /\ f.name = "auth"
                               /\ config'[x].auth.ref = Reference(x, f)
      BY <1>2 DEF Lifted
  <2>1. CASE x = d
    <3>1. e.place # "auth" => Secret(d, e) \in Forms(d)'
        BY <1>1, <1>2, <1>3 DEF Forms
    <3>2. config[d].entries \in Seq(Forms(d)')
      <4>1. config[d].entries \in Seq(Forms(d))
          BY <2>1 DEF Lifted
      <4> QED BY <1>3, <4>1
    <3>3. config'[d].entries \in Seq(Forms(d)')
      <4>1. CASE e.place = "auth"
          BY <1>4, <3>2, <4>1
      <4>2. CASE e.place # "auth"
        <5>1. config'[d].entries = Append(config[d].entries, Secret(d, e))
            BY <1>4, <4>2
        <5> QED BY <3>1, <3>2, <4>2, <5>1
      <4> QED BY <4>1, <4>2
    <3>4. e.place = "auth" => e.name = "auth"
        BY <1>3, GivenIs
    <3>5. CASE e.place = "auth"
        BY <1>1, <1>3, <1>4, <2>1, <3>3, <3>4, <3>5
    <3>6. CASE e.place # "auth"
      <4>1. \/ config[d].auth = NoAuth
            \/ \E f \in Converted(d) : /\ f.sensitive /\ f.place = "auth" /\ f.name = "auth"
                                       /\ config[d].auth.ref = Reference(d, f)
          BY <2>1 DEF Lifted
      <4> QED BY <1>3, <1>4, <2>1, <3>3, <3>6, <4>1
    <3> QED BY <3>5, <3>6
  <2>2. CASE x # d
      BY <1>3, <1>4, <2>2 DEF Lifted
  <2> QED BY <2>1, <2>2
<1>8. /\ DOMAIN store' = DOMAIN store \cup {Reference(d, e)}
      /\ store'[Reference(d, e)] = e.value
      /\ \A ref \in DOMAIN store : ref # Reference(d, e) => store'[ref] = store[ref]
    BY <1>1 DEF Put
<1>9. Held'
  <2> SUFFICES ASSUME NEW x \in Drafts, command[x] # NoCommand, at[x] \in InProgress,
                      NEW f \in Converted(x)', f.sensitive
               PROVE  /\ Reference(x, f) \in DOMAIN store'
                      /\ \E g \in Converted(x)' : /\ Alike(f, g) /\ LastOfName(g, x)'
                                                  /\ store'[Reference(x, f)] = g.value
      BY <1>2 DEF Held
  <2>1. CASE x = d /\ Alike(f, e)
    <3>1. Reference(x, f) = Reference(d, e)
        BY <2>1, ReferenceIsOwn
    <3> QED BY <1>3, <1>8, <2>1, <3>1
  <2>2. CASE x = d /\ ~Alike(f, e)
    <3>1. f \in Converted(d)
        BY <1>3, <2>2 DEF Alike
    <3>2. PICK g \in Converted(d) : /\ Alike(f, g) /\ LastOfName(g, d)
                                    /\ store[Reference(d, f)] = g.value
        BY <2>2, <3>1 DEF Held
    <3>3. LastOfName(g, d)'
        BY <1>3, <2>2, <3>2 DEF LastOfName, Alike
    <3>4. Reference(d, f) # Reference(d, e) /\ Reference(d, f) \in DOMAIN store
        BY <2>2, <3>1, ReferenceIsOwn DEF Held
    <3> QED BY <1>3, <1>8, <2>2, <3>2, <3>3, <3>4
  <2>3. CASE x # d
    <3>1. PICK g \in Converted(x) : /\ Alike(f, g) /\ LastOfName(g, x)
                                    /\ store[Reference(x, f)] = g.value
        BY <1>3, <2>3 DEF Held
    <3>2. Reference(x, f) # Reference(d, e)
        BY <2>3, ReferenceIsOwn
    <3>3. Reference(x, f) \in DOMAIN store
        BY <1>3, <2>3 DEF Held
    <3> QED BY <1>3, <1>8, <2>3, <3>1, <3>2, <3>3
  <2> QED BY <2>1, <2>2, <2>3
<1> QED BY <1>3, <1>5, <1>6, <1>7, <1>9

\* The store fails, and the draft ends without a configuration.
LEMMA StoreFailsKeeps ==
    ASSUME IInv, NEW d \in Drafts, StoreFails(d)
    PROVE  IInv'
<1> USE DEF IInv
<1>1. /\ UNCHANGED <<command, store>> /\ at'[d] = "failed" /\ todo'[d] = {}
      /\ config'[d] = NoConfig
      /\ \A x \in Drafts \ {d} : at'[x] = at[x] /\ todo'[x] = todo[x] /\ config'[x] = config[x]
    BY DEF StoreFails, TypeOK
<1>2. TypeOK'
    BY <1>1 DEF StoreFails, TypeOK
<1>3. \A x \in Drafts \ {d} :
         /\ Converted(x)' = Converted(x) /\ Forms(x)' = Forms(x)
         /\ \A f : LastOfName(f, x)' <=> LastOfName(f, x)
    BY <1>1 DEF Converted, Forms, LastOfName
<1>4. Started'
    BY <1>1 DEF Started, InProgress
<1>5. Lifted'
  <2>1. <<>> \in Seq(Forms(d)')
      OBVIOUS
  <2>2. config'[d].entries = <<>> /\ config'[d].auth = NoAuth
      BY <1>1, NothingYet
  <2>3. ASSUME NEW x \in Drafts \ {d}, command[x] # NoCommand, Parses(command[x])
        PROVE  /\ config'[x].entries \in Seq(Forms(x)')
               /\ \/ config'[x].auth = NoAuth
                  \/ \E f \in Converted(x)' : /\ f.sensitive /\ f.place = "auth" /\ f.name = "auth"
                                              /\ config'[x].auth.ref = Reference(x, f)
      BY <1>1, <1>3, <2>3 DEF Lifted
  <2> QED BY <1>1, <2>1, <2>2, <2>3 DEF Lifted
<1>6. Ordered'
    BY <1>1, <1>3 DEF Ordered
<1>7. Held'
  <2> SUFFICES ASSUME NEW x \in Drafts, command[x] # NoCommand, at'[x] \in InProgress,
                      NEW e \in Converted(x)', e.sensitive
               PROVE  /\ Reference(x, e) \in DOMAIN store
                      /\ \E f \in Converted(x)' : /\ Alike(e, f) /\ LastOfName(f, x)'
                                                  /\ store[Reference(x, e)] = f.value
      BY <1>1 DEF Held
  <2>1. x # d
      BY <1>1 DEF InProgress
  <2> QED BY <1>1, <1>3, <2>1 DEF Held
<1> QED BY <1>2, <1>4, <1>5, <1>6, <1>7

\* The steps that convert no header, no query parameter and no login.
LEMMA OthersKeep ==
    ASSUME IInv, NEW d \in Drafts,
           ConvertBody(d) \/ MakePathDynamic(d) \/ Load(d) \/ Build(d)
    PROVE  IInv'
<1> USE DEF IInv
<1>1. CASE ConvertBody(d)
  <2>1. /\ UNCHANGED <<command, todo, store>>
        /\ at' = [at EXCEPT ![d] = "failed"] \/ at' = [at EXCEPT ![d] = "ready"]
        /\ \/ config' = [config EXCEPT ![d] = NoConfig]
           \/ \E body : config' = [config EXCEPT ![d].body = body]
        /\ at[d] = "converting" /\ todo[d] = {}
      BY <1>1 DEF ConvertBody
  <2>2. TypeOK'
      BY <2>1, RecordFields DEF TypeOK
  <2>3. /\ config'[d].entries = config[d].entries \/ config'[d].entries = <<>>
        /\ config'[d].auth = config[d].auth \/ config'[d].auth = NoAuth
        /\ \A x \in Drafts \ {d} : config'[x] = config[x]
      BY <2>1, RecordFields, NothingYet DEF TypeOK
  <2> QED BY <2>1, <2>2, <2>3, ConversionUntouched DEF TypeOK, InProgress
<1>2. CASE MakePathDynamic(d)
  <2>1. /\ UNCHANGED <<command, todo, store>> /\ at[d] = "ready"
        /\ \/ /\ \E path, params : config' = [config EXCEPT ![d].path = path, ![d].params = params]
              /\ at' = at
           \/ at' = [at EXCEPT ![d] = "refused"] /\ config' = config
      BY <1>2 DEF MakePathDynamic, MakeDynamic, MakeDynamicFails
  <2>2. TypeOK'
      BY <2>1, RecordFields DEF TypeOK
  <2>3. \A x \in Drafts : config'[x].entries = config[x].entries /\ config'[x].auth = config[x].auth
    <3>1. CASE config' = config
        BY <3>1
    <3>2. ASSUME NEW path, NEW params,
                 config' = [config EXCEPT ![d].path = path, ![d].params = params]
          PROVE  \A x \in Drafts : /\ config'[x].entries = config[x].entries
                                   /\ config'[x].auth = config[x].auth
      <4>1. config'[d] = [[config[d] EXCEPT !.path = path] EXCEPT !.params = params]
          BY <3>2 DEF TypeOK
      <4>2. \A x \in Drafts \ {d} : config'[x] = config[x]
          BY <3>2 DEF TypeOK
      <4>3. DOMAIN config[d] = {"method", "base", "path", "entries", "params", "auth", "body"}
          BY RecordFields DEF TypeOK
      <4>4. config'[d].entries = config[d].entries /\ config'[d].auth = config[d].auth
          BY <4>1, <4>3
      <4> QED BY <4>2, <4>4
    <3> QED BY <2>1, <3>1, <3>2
  <2> QED BY <2>1, <2>2, <2>3, ConversionUntouched DEF TypeOK, InProgress
<1>3. CASE Load(d)
  <2>1. /\ UNCHANGED <<command, todo, store>> /\ at[d] = "idle" /\ command[d] = NoCommand
        /\ at' = [at EXCEPT ![d] = "ready"]
        /\ \E c \in Stored(d) : config' = [config EXCEPT ![d] = c]
      BY <1>3 DEF Load, Started
  <2>2. TypeOK'
      BY <2>1, RecordFields, StoredAssumption DEF TypeOK
  <2>3. /\ \A x \in Drafts : Converted(x)' = Converted(x) /\ Forms(x)' = Forms(x)
        /\ \A x \in Drafts : \A f : LastOfName(f, x)' <=> LastOfName(f, x)
      BY <2>1 DEF Converted, Forms, LastOfName
  <2>4. /\ at'[d] = "ready"
        /\ \A x \in Drafts \ {d} : at'[x] = at[x] /\ config'[x] = config[x]
      BY <2>1 DEF TypeOK
  <2>5. Started'
      BY <2>1, <2>4 DEF Started
  <2>6. Lifted'
      BY <2>1, <2>3, <2>4 DEF Lifted
  <2>7. Ordered'
      BY <2>1, <2>3, <2>4 DEF Ordered
  <2>8. Held'
      BY <2>1, <2>3, <2>4 DEF Held
  <2> QED BY <2>2, <2>5, <2>6, <2>7, <2>8
<1>4. CASE Build(d)
  <2>1. /\ UNCHANGED <<command, todo, store, config>> /\ at[d] = "ready"
        /\ at' = [at EXCEPT ![d] = "built"]
      BY <1>4 DEF Build
  <2>2. TypeOK'
      BY <2>1 DEF TypeOK
  <2> QED BY <2>1, <2>2, ConversionUntouched DEF TypeOK, InProgress
<1> QED BY <1>1, <1>2, <1>3, <1>4

LEMMA NextIInv == IInv /\ [Next]_vars => IInv'
<1> SUFFICES ASSUME IInv, [Next]_vars PROVE IInv'
    OBVIOUS
<1>1. ASSUME NEW d \in Drafts,
             \/ Paste(d) \/ Keep(d) \/ Lift(d) \/ StoreFails(d) \/ ConvertBody(d)
             \/ MakePathDynamic(d) \/ Load(d) \/ Build(d)
      PROVE  IInv'
    BY <1>1, PasteKeeps, KeepKeeps, LiftKeeps, StoreFailsKeeps, OthersKeep
<1>2. CASE UNCHANGED vars
  <2>1. UNCHANGED <<at, command, todo, config, store>>
      BY <1>2 DEF vars
  <2>2. TypeOK'
      BY <2>1 DEF IInv, TypeOK
  <2>3. \A d \in Drafts : at'[d] = at[d] /\ config'[d] = config[d]
      BY <2>1
  <2>4. UNCHANGED <<command, todo, store>>
      BY <2>1
  <2> QED BY <2>2, <2>3, <2>4, ConversionUntouched
<1> QED BY <1>1, <1>2 DEF Next

--------------------------------------------------------------------------------

\* The invariant of conversions holds whatever is pasted, and however the steps of
\* the drafts alternate.
THEOREM Invariance == Spec => []IInv
BY InitIInv, NextIInv, PTL DEF Spec

\* Type correctness: something is left to convert only of a draft being converted.
THEOREM TypeCorrect == Spec => []TypeOK
<1>1. IInv => TypeOK
    BY DEF IInv
<1> QED BY <1>1, Invariance, PTL

\* Every reference of a converted draft yields the value it was made for, the last
\* of its name, whatever other drafts store meanwhile and wherever the store fails.
THEOREM ReferencesAreOwn == Spec => []RefsAreOwn
<1>1. IInv => RefsAreOwn
  <2> SUFFICES ASSUME IInv, NEW d \in Drafts, command[d] # NoCommand, at[d] \in {"ready", "built"}
               PROVE  /\ \A i \in DOMAIN config[d].entries : config[d].entries[i].source = "secret" =>
                            LET x == config[d].entries[i]
                            IN  /\ x.ref \in DOMAIN store
                                /\ \E f \in Given(command[d]) :
                                      /\ f.place = x.place /\ f.name = x.name /\ store[x.ref] = f.value
                                      /\ \A g \in Given(command[d]) \ {f} : Alike(f, g) => ~Before(f, g)
                      /\ config[d].auth # NoAuth =>
                            /\ config[d].auth.ref \in DOMAIN store
                            /\ \E f \in Given(command[d]) :
                                  /\ f.place = "auth" /\ f.name = "auth"
                                  /\ store[config[d].auth.ref] = f.value
                                  /\ \A g \in Given(command[d]) \ {f} : Alike(f, g) => ~Before(f, g)
      BY DEF RefsAreOwn
  <2>1. Parses(command[d]) /\ Converted(d) = Given(command[d])
      BY DEF IInv, Started, InProgress, TypeOK, Converted
  <2>2. \A e \in Given(command[d]) : e.sensitive =>
           /\ Reference(d, e) \in DOMAIN store
           /\ \E f \in Given(command[d]) :
                 /\ f.place = e.place /\ f.name = e.name /\ store[Reference(d, e)] = f.value
                 /\ \A g \in Given(command[d]) \ {f} : Alike(f, g) => ~Before(f, g)
      BY <2>1 DEF IInv, Held, InProgress, LastOfName, Alike
  <2>3. ASSUME NEW i \in DOMAIN config[d].entries, config[d].entries[i].source = "secret"
        PROVE  \E e \in Given(command[d]) : e.sensitive /\ config[d].entries[i] = Secret(d, e)
    <3>1. config[d].entries \in Seq(Forms(d))
        BY <2>1 DEF IInv, Lifted
    <3>2. config[d].entries[i] \in Forms(d)
        BY <2>3, <3>1
    <3>3. \A e : Static(e).source = "static"
        BY DEF Static
    <3> QED BY <2>1, <2>3, <3>2, <3>3 DEF Forms
  <2>4. \A e : /\ Secret(d, e).ref = Reference(d, e)
               /\ Secret(d, e).place = e.place /\ Secret(d, e).name = e.name
      BY DEF Secret
  <2>5. config[d].auth # NoAuth =>
           \E e \in Given(command[d]) : /\ e.sensitive /\ e.place = "auth" /\ e.name = "auth"
                                        /\ config[d].auth.ref = Reference(d, e)
      BY <2>1 DEF IInv, Lifted
  <2> QED BY <2>2, <2>3, <2>4, <2>5
<1> QED BY <1>1, Invariance, PTL
================================================================================
