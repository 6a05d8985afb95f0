----------------------------- MODULE RaceDialProofs ----------------------------
(***************************************************************************)
(* raceDial leaks no connection and no goroutine, for any number of        *)
(* addresses: every goroutine sends one result, and every result is read   *)
(* once, by raceDial or by drainConns.                                     *)
(***************************************************************************)
EXTENDS RaceDial, FiniteSetTheorems, TLAPS

\* Taking the oldest result out of the channel leaves the others in it.
LEMMA TakeResult ==
    ASSUME IInv, results # <<>>, results' = Tail(results)
    PROVE  /\ results' \in Seq(Addrs) /\ Len(results') = Len(results) - 1
           /\ Len(results) \in Nat \ {0}
           /\ Head(results) \in Addrs /\ 1 \in DOMAIN results /\ Head(results) = results[1]
           /\ \A i \in DOMAIN results' : results'[i] # Head(results)
           /\ \A i \in DOMAIN results' :
                 i + 1 \in DOMAIN results /\ results'[i] = results[i + 1]
           /\ \A i \in DOMAIN results :
                 i # 1 => \E j \in DOMAIN results' : results'[j] = results[i]
<1>1. results \in Seq(Addrs)
  BY DEF IInv, TypeOK
<1>2. /\ results' \in Seq(Addrs) /\ Len(results') = Len(results) - 1
      /\ Len(results) \in Nat \ {0}
      /\ Head(results) \in Addrs /\ 1 \in DOMAIN results /\ Head(results) = results[1]
      /\ \A i \in DOMAIN results' :
            i + 1 \in DOMAIN results /\ results'[i] = results[i + 1]
  BY <1>1
<1>3. ASSUME NEW i \in DOMAIN results, i # 1
      PROVE  \E j \in DOMAIN results' : results'[j] = results[i]
  <2>1. i - 1 \in DOMAIN results' /\ results'[i - 1] = results[i]
    BY <1>1, <1>3
  <2> QED
    BY <2>1
<1>4. ASSUME NEW i \in DOMAIN results' PROVE results'[i] # Head(results)
  <2>1. i + 1 # 1 /\ i + 1 \in DOMAIN results
    BY <1>1
  <2> QED
    BY <1>2, <2>1 DEF IInv, InTransit
<1> QED
  BY <1>2, <1>3, <1>4

\* What InTransit says of the channel and of the dialers survives a step that
\* takes the oldest result out and gives its connection, if there is one, away.
LEMMA TakeInTransit ==
    ASSUME IInv, results # <<>>, results' = Tail(results), dialer' = dialer,
           NEW status \in {"none", "returned", "closed"},
           conn' = [conn EXCEPT ![Head(results)] = status],
           conn[Head(results)] = "none" => status = "none",
           status = "closed" => caller = "returned",
           caller = "returned" => caller' = "returned"
    PROVE  InTransit'
<1> DEFINE h == Head(results)
<1>1. /\ h \in Addrs /\ 1 \in DOMAIN results /\ h = results[1]
      /\ \A i \in DOMAIN results' : results'[i] # h
      /\ \A i \in DOMAIN results' :
            i + 1 \in DOMAIN results /\ results'[i] = results[i + 1]
      /\ \A i \in DOMAIN results :
            i # 1 => \E j \in DOMAIN results' : results'[j] = results[i]
      /\ results' \in Seq(Addrs)
  BY TakeResult
<1>2. dialer[h] = "done" /\ conn[h] \in {"none", "open"}
  BY <1>1 DEF IInv, InTransit
<1>3. conn'[h] = status /\ \A a \in Addrs : a # h => conn'[a] = conn[a]
  BY <1>1 DEF IInv, TypeOK
<1> HIDE DEF h
<1>4. \A i \in DOMAIN results' : results'[i] \in Addrs /\ dialer[results'[i]] = "done"
                                 /\ conn'[results'[i]] \in {"none", "open"}
  BY <1>1, <1>3 DEF IInv, InTransit
<1>5. ASSUME NEW i \in DOMAIN results', NEW j \in DOMAIN results', results'[i] = results'[j]
      PROVE  i = j
  <2>1. i \in Nat /\ j \in Nat
    BY <1>1
  <2>2. i + 1 = j + 1
    BY <1>1, <1>5 DEF IInv, InTransit
  <2> QED
    BY <2>1, <2>2
<1>6. ASSUME NEW a \in Addrs, conn'[a] = "open"
      PROVE  dialer[a] = "sending" \/ \E i \in DOMAIN results' : results'[i] = a
  <2>1. a # h /\ conn[a] = "open"
    BY <1>3, <1>6
  <2>2. CASE dialer[a] = "sending"
    BY <2>2
  <2>3. ASSUME NEW i \in DOMAIN results, results[i] = a
        PROVE  \E j \in DOMAIN results' : results'[j] = a
    <3>1. i # 1
      BY <1>1, <2>1, <2>3
    <3> QED
      BY <1>1, <2>3, <3>1
  <2> QED
    BY <2>1, <2>2, <2>3 DEF IInv, InTransit
<1>7. \A a \in Addrs :
         /\ dialer[a] \in {"waiting", "dialing"} => conn'[a] = "none"
         /\ conn'[a] \in {"returned", "closed"} => dialer[a] = "done"
         /\ conn'[a] = "closed" => caller' = "returned"
  BY <1>2, <1>3 DEF IInv, InTransit
<1> QED
  BY <1>4, <1>5, <1>6, <1>7 DEF InTransit

\* The goroutines that have not sent are finitely many.
LEMMA UnsentCount ==
    ASSUME IsFiniteSet(Unsent)
    PROVE  Cardinality(Unsent) \in Nat /\ (Cardinality(Unsent) = 0 <=> Unsent = {})
  BY FS_CardinalityType, FS_EmptySet

LEMMA InitIInv == Init => IInv
<1> SUFFICES ASSUME Init PROVE IInv
  OBVIOUS
<1>1. TypeOK
  <2>1. results \in Seq(Addrs)
    BY DEF Init
  <2>2. received \in 0..N /\ draining \in 0..N
    BY RaceAssumption DEF Init, RaceAssumption
  <2> QED
    BY <2>1, <2>2 DEF Init, TypeOK
<1>2. Unsent = 1..N
  BY DEF Init, Unsent, Addrs
<1>3. IsFiniteSet(Unsent) /\ Cardinality(Unsent) = N
  BY <1>2, FS_Interval, RaceAssumption DEF RaceAssumption
<1>4. Accounts
  BY <1>3, RaceAssumption DEF Init, Accounts, RaceAssumption
<1>5. OneWinner /\ InTransit
  BY RaceAssumption DEF Init, OneWinner, InTransit, NoAddr, Addrs, RaceAssumption
<1> QED
  BY <1>1, <1>4, <1>5 DEF IInv

\* A goroutine that has not sent yet moves on, without sending.
LEMMA DialingKeeps ==
    ASSUME IInv, NEW a \in Addrs,
           StaggerEnds(a) \/ StaggerCancelled(a) \/ DialConnects(a) \/ DialFails(a)
    PROVE  IInv'
<1> USE DEF IInv, StaggerEnds, StaggerCancelled, DialConnects, DialFails
<1>1. TypeOK'
  BY DEF TypeOK
<1>2. Unsent' = Unsent
  BY DEF TypeOK, Unsent
<1>3. Accounts'
  BY <1>2 DEF Accounts
<1>4. OneWinner'
  BY DEF TypeOK, OneWinner, InTransit
<1>5. InTransit'
  BY DEF TypeOK, InTransit
<1> QED
  BY <1>1, <1>3, <1>4, <1>5

LEMMA SendKeeps ==
    ASSUME IInv, NEW a \in Addrs, Send(a)
    PROVE  IInv'
<1> USE DEF IInv
<1>1. TypeOK'
  BY DEF TypeOK, Send
<1>2. /\ IsFiniteSet(Unsent') /\ Cardinality(Unsent') = Cardinality(Unsent) - 1
      /\ Unsent # {}
  <2>1. a \in Unsent /\ Unsent' = Unsent \ {a}
    BY DEF TypeOK, Unsent, Send
  <2> QED
    BY <2>1, FS_RemoveElement DEF Accounts
<1>3. Accounts'
  <2>1. Len(results') = Len(results) + 1 /\ Len(results) \in Nat
    BY DEF TypeOK, Send
  <2>2. Cardinality(Unsent) \in Nat
    BY UnsentCount DEF Accounts
  <2>3. caller' = caller /\ received' = received /\ draining' = draining
        /\ received \in Nat /\ draining \in Nat
    BY DEF TypeOK, Send
  <2> QED
    BY <1>2, <2>1, <2>2, <2>3 DEF Accounts
<1>4. OneWinner'
  BY DEF OneWinner, Send
<1>5. InTransit'
  <2>1. /\ DOMAIN results' = 1..(Len(results) + 1)
        /\ results'[Len(results) + 1] = a
        /\ \A i \in DOMAIN results : results'[i] = results[i]
    BY DEF TypeOK, Send
  <2>2. \A i \in DOMAIN results : results[i] # a
    BY DEF InTransit, Send
  <2>3. /\ dialer[a] = "sending" /\ conn' = conn /\ caller' = caller /\ conn[a] \in {"none", "open"}
        /\ dialer'[a] = "done" /\ \A b \in Addrs \ {a} : dialer'[b] = dialer[b]
    BY DEF TypeOK, InTransit, Send
  <2>4. \A i \in DOMAIN results' : /\ dialer'[results'[i]] = "done"
                                  /\ conn'[results'[i]] \in {"none", "open"}
    BY <2>1, <2>3 DEF TypeOK, InTransit
  <2>5. \A i, j \in DOMAIN results' : results'[i] = results'[j] => i = j
    BY <2>1, <2>2 DEF InTransit
  <2>6. \A b \in Addrs : conn'[b] = "open" =>
            dialer'[b] = "sending" \/ \E i \in DOMAIN results' : results'[i] = b
    <3> SUFFICES ASSUME NEW b \in Addrs, conn[b] = "open"
                 PROVE  dialer'[b] = "sending" \/ \E i \in DOMAIN results' : results'[i] = b
      BY <2>3
    <3>1. CASE b = a
      BY <2>1, <3>1 DEF TypeOK
    <3>2. CASE b # a
      BY <2>1, <2>3, <3>2 DEF TypeOK, InTransit
    <3> QED
      BY <3>1, <3>2
  <2>7. \A b \in Addrs :
            /\ dialer'[b] \in {"waiting", "dialing"} => conn'[b] = "none"
            /\ conn'[b] \in {"returned", "closed"} => dialer'[b] = "done"
            /\ conn'[b] = "closed" => caller' = "returned"
    BY <2>3 DEF InTransit
  <2> QED
    BY <2>4, <2>5, <2>6, <2>7 DEF InTransit
<1> QED
  BY <1>1, <1>3, <1>4, <1>5

LEMMA ReceiveConnKeeps ==
    ASSUME IInv, ReceiveConn
    PROVE  IInv'
<1> USE DEF IInv
<1>1. TypeOK'
  <2>1. received \in Nat /\ received < N
    BY DEF TypeOK, Accounts, ReceiveConn
  <2>2. received' \in 0..N /\ draining' \in 0..N
    BY <2>1, RaceAssumption DEF ReceiveConn, StillToCome, RaceAssumption
  <2> QED
    BY <2>2, TakeResult DEF TypeOK, ReceiveConn
<1>2. Unsent' = Unsent
  BY DEF Unsent, ReceiveConn
<1>3. Accounts'
  <2>1. Len(results') = Len(results) - 1 /\ Len(results) \in Nat
    BY TakeResult DEF ReceiveConn
  <2>2. Cardinality(Unsent) \in Nat /\ received \in Nat
    BY UnsentCount DEF TypeOK, Accounts
  <2>3. /\ Cardinality(Unsent) + Len(results) + received = N
        /\ caller' = "returned" /\ draining' = N - received - 1
    BY DEF Accounts, ReceiveConn, StillToCome
  <2> QED
    BY <1>2, <2>1, <2>2, <2>3, RaceAssumption DEF Accounts, RaceAssumption
<1>4. OneWinner'
  BY TakeResult DEF TypeOK, OneWinner, ReceiveConn, NoAddr, Addrs
<1>5. InTransit'
  BY TakeInTransit DEF ReceiveConn
<1> QED
  BY <1>1, <1>3, <1>4, <1>5

LEMMA ReceiveErrorKeeps ==
    ASSUME IInv, ReceiveError
    PROVE  IInv'
<1> USE DEF IInv
<1>1. TypeOK'
  <2>1. received \in Nat /\ received < N
    BY DEF TypeOK, Accounts, ReceiveError
  <2>2. received' \in 0..N
    BY <2>1, RaceAssumption DEF ReceiveError, RaceAssumption
  <2>3. /\ caller' \in {"receiving", "failed"} /\ cancelled' \in BOOLEAN
    BY DEF TypeOK, ReceiveError
  <2> QED
    BY <2>2, <2>3, TakeResult DEF TypeOK, ReceiveError
<1>2. Unsent' = Unsent
  BY DEF Unsent, ReceiveError
<1>3. Accounts'
  <2>1. Len(results') = Len(results) - 1 /\ Len(results) \in Nat \ {0} /\ results' \in Seq(Addrs)
    BY TakeResult DEF ReceiveError
  <2>2. Cardinality(Unsent) \in Nat /\ received \in Nat
        /\ (Cardinality(Unsent) = 0 => Unsent = {})
    BY UnsentCount DEF TypeOK, Accounts
  <2>3. /\ Cardinality(Unsent) + Len(results) + received = N /\ received < N
        /\ draining' = 0 /\ received' = received + 1
    BY DEF Accounts, ReceiveError
  <2>4. CASE received' = N
    <3>1. caller' = "failed"
      BY <2>4 DEF ReceiveError
    <3>2. Cardinality(Unsent) = 0 /\ Len(results') = 0
      BY <2>1, <2>2, <2>3, <2>4, RaceAssumption DEF RaceAssumption
    <3>3. results' = <<>>
      BY <2>1, <3>2
    <3> QED
      BY <1>2, <2>2, <2>3, <3>1, <3>2, <3>3 DEF Accounts
  <2>5. CASE received' # N
    <3>1. caller' = "receiving"
      BY <2>5 DEF ReceiveError
    <3>2. received' < N /\ Cardinality(Unsent) + Len(results') + received' = N
      BY <2>1, <2>2, <2>3, <2>5, RaceAssumption DEF RaceAssumption
    <3> QED
      BY <1>2, <2>3, <3>1, <3>2 DEF Accounts
  <2> QED
    BY <2>4, <2>5
<1>4. OneWinner'
  BY DEF OneWinner, ReceiveError
<1>5. InTransit'
  <2>1. Head(results) \in Addrs /\ conn[Head(results)] = "none"
    BY TakeResult DEF InTransit, ReceiveError
  <2>2. conn' = [conn EXCEPT ![Head(results)] = "none"]
    BY <2>1 DEF TypeOK, ReceiveError
  <2> QED
    BY <2>1, <2>2, TakeInTransit DEF ReceiveError
<1> QED
  BY <1>1, <1>3, <1>4, <1>5

LEMMA DrainKeeps ==
    ASSUME IInv, Drain
    PROVE  IInv'
<1> USE DEF IInv
<1>1. TypeOK'
  <2>1. draining' \in 0..N
    BY RaceAssumption DEF TypeOK, Drain, RaceAssumption
  <2>2. conn' \in [Addrs -> {"none", "open", "returned", "closed"}]
    BY DEF TypeOK, Drain
  <2> QED
    BY <2>1, <2>2, TakeResult DEF TypeOK, Drain
<1>2. Unsent' = Unsent /\ caller = "returned"
  BY DEF TypeOK, Accounts, Unsent, Drain
<1>3. Accounts'
  <2>1. Len(results') = Len(results) - 1 /\ Len(results) \in Nat
    BY TakeResult DEF Drain
  <2>2. Cardinality(Unsent) \in Nat /\ draining \in Nat
    BY UnsentCount DEF TypeOK, Accounts
  <2>3. caller' = "returned" /\ draining' = draining - 1
        /\ Cardinality(Unsent) + Len(results) = draining
    BY <1>2 DEF Accounts, Drain
  <2> QED
    BY <1>2, <2>1, <2>2, <2>3 DEF Accounts
<1>4. OneWinner'
  <2>1. Head(results) \in Addrs /\ conn[Head(results)] \in {"none", "open"}
    BY TakeResult DEF InTransit, Drain
  <2> QED
    BY <2>1 DEF TypeOK, OneWinner, Drain
<1>5. InTransit'
  <2> DEFINE status == IF conn[Head(results)] = "none" THEN "none" ELSE "closed"
  <2>1. conn' = [conn EXCEPT ![Head(results)] = status]
    BY DEF Drain
  <2> QED
    BY <1>2, <2>1, TakeInTransit DEF Drain
<1> QED
  BY <1>1, <1>3, <1>4, <1>5

LEMMA Inductive == Spec => []IInv
<1>1. IInv /\ [Next]_vars => IInv'
  <2> SUFFICES ASSUME IInv, [Next]_vars PROVE IInv'
    OBVIOUS
  <2>1. CASE \E a \in Addrs : DialerStep(a)
    BY <2>1, DialingKeeps, SendKeeps DEF DialerStep
  <2>2. CASE Receive
    BY <2>2, ReceiveConnKeeps, ReceiveErrorKeeps DEF Receive
  <2>3. CASE Drain
    BY <2>3, DrainKeeps
  <2>4. CASE ParentCancels
    <3>1. TypeOK'
      BY <2>4 DEF ParentCancels, IInv, TypeOK
    <3> QED
      BY <2>4, <3>1 DEF ParentCancels, IInv, OneWinner, Accounts, InTransit, Unsent
  <2>5. CASE UNCHANGED vars
    BY <2>5 DEF vars, IInv, TypeOK, OneWinner, Accounts, InTransit, Unsent
  <2> QED
    BY <2>1, <2>2, <2>3, <2>4, <2>5 DEF Next
<1> QED
  BY <1>1, InitIInv, PTL DEF Spec

--------------------------------------------------------------------------------
\* Every variable of raceDial keeps its type.
THEOREM TypeCorrect == Spec => []TypeOK
  BY Inductive, PTL DEF IInv

\* One connection is returned, or an error, and it stays open.
THEOREM SingleWinner == Spec => []OneWinner
  BY Inductive, PTL DEF IInv

\* Once everything has come to rest no socket but the winner's is open.
THEOREM NoSocketLeak == Spec => []NoLeak
<1>1. IInv => NoLeak
  <2> SUFFICES ASSUME IInv, Quiet PROVE (\A a \in Addrs : conn[a] # "open") /\ results = <<>>
    BY DEF NoLeak
  <2>1. Unsent = {}
    BY DEF Quiet, Unsent
  <2>2. Len(results) = 0
    BY <2>1, UnsentCount DEF IInv, TypeOK, Accounts, Quiet
  <2>3. results = <<>>
    BY <2>2 DEF IInv, TypeOK
  <2> QED
    BY <2>3 DEF IInv, InTransit, Quiet
<1> QED
  BY <1>1, Inductive, PTL

\* raceDial fails only when every dial did.
THEOREM FailureIsTotal == Spec => []ErrorMeansNone
<1>1. IInv => ErrorMeansNone
  <2> SUFFICES ASSUME IInv, caller = "failed", NEW a \in Addrs PROVE conn[a] = "none"
    BY DEF ErrorMeansNone
  <2>1. dialer[a] = "done" /\ results = <<>>
    BY DEF IInv, TypeOK, Accounts, Unsent
  <2>2. conn[a] # "returned"
    BY DEF IInv, TypeOK, OneWinner, NoAddr, Addrs
  <2> QED
    BY <2>1, <2>2 DEF IInv, TypeOK, InTransit
<1> QED
  BY <1>1, Inductive, PTL

\* No goroutine ever waits for room in the channel.
THEOREM SendersNeverBlock == Spec => []NeverBlocks
<1>1. IInv => NeverBlocks
  <2> SUFFICES ASSUME IInv PROVE NeverBlocks
    OBVIOUS
  <2>1. Cardinality(Unsent) \in Nat
    BY UnsentCount DEF IInv, Accounts
  <2>2. /\ Len(results) \in Nat /\ received \in Nat /\ draining \in 0..N
        /\ caller \in {"receiving", "returned", "failed"}
    BY RaceAssumption DEF IInv, TypeOK, RaceAssumption
  <2>3. CASE caller = "failed"
    <3>1. Cardinality(Unsent) = 0 /\ Len(results) = 0
      BY <2>3, FS_EmptySet DEF IInv, Accounts
    <3> QED
      BY <3>1, RaceAssumption DEF NeverBlocks, RaceAssumption
  <2>4. CASE caller # "failed"
    BY <2>1, <2>2, <2>4, RaceAssumption DEF IInv, Accounts, NeverBlocks, RaceAssumption
  <2> QED
    BY <2>3, <2>4
<1> QED
  BY <1>1, Inductive, PTL
================================================================================
