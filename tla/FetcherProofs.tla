------------------------------ MODULE FetcherProofs ----------------------------
(* Proofs about Fetcher, for any calls, URLs, policy and limits.           *)
EXTENDS Fetcher, TLAPS

(* A verdict is "ok" or one of the sentinels, and "ok" means what it says. *)
LEMMA Verdicts ==
    ASSUME NEW u \in URLs, NEW answer \in SUBSET Addresses, NEW made \in Nat
    PROVE  /\ ValidateURL(u) \in SecuritySentinels \cup {"ok"}
           /\ ValidateHost(u.host, answer) \in SecuritySentinels \cup {"ok"}
           /\ ValidateRedirect(made, u, answer) \in SecuritySentinels \cup {"ok"}
           /\ Resolved(u.host, answer) \in SUBSET Addresses
           /\ ValidateHost(u.host, answer) = "ok" =>
                 \A a \in Resolved(u.host, answer) : ~IsBlockedIP(a)
           /\ ValidateRedirect(made, u, answer) = "ok" =>
                 ValidateURL(u) = "ok" /\ made < MaxRedirects
<1>1. ValidateURL(u) \in SecuritySentinels \cup {"ok"}
  BY DEF ValidateURL, SecuritySentinels
<1>2. /\ ValidateHost(u.host, answer) \in SecuritySentinels \cup {"ok"}
      /\ ValidateHost(u.host, answer) = "ok" =>
            \A a \in Resolved(u.host, answer) : ~IsBlockedIP(a)
  BY DEF ValidateHost, SecuritySentinels
<1>3. Resolved(u.host, answer) \in SUBSET Addresses
  BY DEF Resolved
<1>4. ValidateRedirect(made, u, answer) \in SecuritySentinels \cup {"ok"}
  BY <1>1, <1>2 DEF ValidateRedirect, SecuritySentinels
<1>5. ValidateRedirect(made, u, answer) = "ok" =>
         ValidateURL(u) = "ok" /\ made < MaxRedirects
  BY FetcherAssumption DEF ValidateRedirect
<1> QED
  BY <1>1, <1>2, <1>3, <1>4, <1>5

(* The body Do returns is whole, or the body was over the limit.           *)
LEMMA Bodies ==
    ASSUME NEW n \in Nat
    PROVE  /\ BodyOutcome(Limit(n)).read \in 0..MaxBytes
           /\ BodyOutcome(Limit(n)).is \in SUBSET {"ErrResponseTooLarge"}
           /\ BodyOutcome(Limit(n)).cause \in {"none", "ErrResponseTooLarge"}
           /\ BodyOutcome(Limit(n)).is = {} => BodyOutcome(Limit(n)).read = n
           /\ BodyOutcome(Limit(n)).cause = "ErrResponseTooLarge" => n > MaxBytes
           /\ BodyOutcome(Limit(n)) = [is    |-> BodyOutcome(Limit(n)).is,
                                       cause |-> BodyOutcome(Limit(n)).cause,
                                       read  |-> BodyOutcome(Limit(n)).read]
<1>1. /\ Limit(n) \in Nat
      /\ Limit(n) <= MaxBytes => Limit(n) = n
      /\ Limit(n) > MaxBytes => n > MaxBytes
  BY FetcherAssumption DEF Limit
<1>2. CASE Limit(n) > MaxBytes
  <2>1. BodyOutcome(Limit(n)) = [is |-> {"ErrResponseTooLarge"},
                                 cause |-> "ErrResponseTooLarge", read |-> 0]
    BY <1>2 DEF BodyOutcome
  <2>2. 0 \in 0..MaxBytes /\ n > MaxBytes
    BY <1>1, <1>2, FetcherAssumption
  <2> QED
    BY <2>1, <2>2
<1>3. CASE ~(Limit(n) > MaxBytes)
  <2>1. BodyOutcome(Limit(n)) = [is |-> {}, cause |-> "none", read |-> Limit(n)]
    BY <1>3 DEF BodyOutcome
  <2>2. Limit(n) \in 0..MaxBytes /\ Limit(n) = n
    BY <1>1, <1>3, FetcherAssumption
  <2> QED
    BY <2>1, <2>2
<1> QED
  BY <1>2, <1>3

Outcomes == [is : SUBSET (SecuritySentinels \cup {"ErrRequestFailed", "ErrResponseTooLarge"}),
             cause : SecuritySentinels \cup {"none", "ErrDialFailed", "ErrResponseTooLarge",
                                             "interrupted"},
             read : 0..MaxBytes]

(* Failing returns a well-typed outcome that claims nothing about a body.  *)
LEMMA Failing ==
    ASSUME TypeOK, NEW c \in Calls,
           NEW cause \in SecuritySentinels \cup {"ErrDialFailed", "interrupted"}, Fail(c, cause)
    PROVE  /\ at' = [at EXCEPT ![c] = "returned"]
           /\ outcome' \in [Calls -> Outcomes]
           /\ outcome'[c].is # {} /\ outcome'[c].cause # "ErrResponseTooLarge"
           /\ \A d \in Calls \ {c} : outcome'[d] = outcome[d]
<1>1. [is |-> {"ErrRequestFailed"}, cause |-> cause, read |-> 0] \in Outcomes
  BY FetcherAssumption DEF Outcomes
<1>2. outcome \in [Calls -> Outcomes]
  BY DEF TypeOK, Outcomes
<1> QED
  BY <1>1, <1>2 DEF Fail, Return, SecuritySentinels

(* NoConn is not a connection, and neither is the URL that stands for none.*)
LEMMA NoConnIsNone == NoConn \notin Conns
BY DEF NoConn, Conns

LEMMA InitIInv == Init => IInv
<1> SUFFICES ASSUME Init PROVE IInv
  OBVIOUS
<1>1. TypeOK
  <2>1. NoOutcome \in Outcomes
    BY FetcherAssumption DEF NoOutcome, Outcomes
  <2> QED
    BY <2>1, FetcherAssumption DEF Init, TypeOK, Outcomes
<1>2. Judged /\ OnlyAllowedAddresses
  BY DEF Init, Judged, OnlyAllowedAddresses
<1>3. OnlyCheckedURLs /\ Connected /\ Counted /\ WholeBody
  BY FetcherAssumption DEF Init, OnlyCheckedURLs, Connected, Counted, WholeBody, Busy
<1> QED
  BY <1>1, <1>2, <1>3 DEF IInv

LEMMA StepIInv == IInv /\ [Next]_vars => IInv'
<1> SUFFICES ASSUME IInv, [Next]_vars PROVE IInv'
  OBVIOUS
<1> USE DEF IInv
<1>1. ASSUME NEW c \in Calls, NEW u \in URLs, StartDo(c, u) PROVE IInv'
  <2> USE <1>1 DEF StartDo
  <2>1. CASE ValidateURL(u) = "ok"
    <3>1. TypeOK'
      <4>1. url' \in [Calls -> URLs \cup {NoURL}]
        BY DEF TypeOK
      <4>2. via' \in [Calls -> Nat]
        BY <2>1 DEF TypeOK
      <4>3. at' \in [Calls -> Busy \cup {"idle", "returned"}]
        BY <2>1 DEF TypeOK, Busy
      <4> QED
        BY <2>1, <4>1, <4>2, <4>3 DEF TypeOK
    <3>2. Judged' /\ OnlyAllowedAddresses'
      BY <2>1 DEF Judged, OnlyAllowedAddresses, TypeOK, IsBlockedIP
    <3>3. OnlyCheckedURLs'
      BY <2>1 DEF OnlyCheckedURLs, TypeOK, Busy, Connected
    <3>4. Connected' /\ Counted' /\ WholeBody'
      BY <2>1, FetcherAssumption DEF Connected, Counted, WholeBody, TypeOK
    <3> QED
      BY <3>1, <3>2, <3>3, <3>4
  <2>2. CASE ValidateURL(u) # "ok"
    <3> DEFINE o == [is |-> {ValidateURL(u)}, cause |-> ValidateURL(u), read |-> 0]
    <3>1. o \in Outcomes /\ o.is # {} /\ o.cause # "ErrResponseTooLarge"
      BY <2>2, FetcherAssumption DEF Outcomes, ValidateURL, SecuritySentinels
    <3>2. at' = [at EXCEPT ![c] = "returned"] /\ outcome' = [outcome EXCEPT ![c] = o]
      BY <2>2 DEF Return
    <3> HIDE DEF o
    <3>3. TypeOK'
      BY <2>2, <3>1, <3>2 DEF TypeOK, Outcomes
    <3>4. Judged' /\ OnlyAllowedAddresses'
      BY <2>2 DEF Judged, OnlyAllowedAddresses, TypeOK, IsBlockedIP
    <3>5. OnlyCheckedURLs'
      BY <2>2, <3>2 DEF OnlyCheckedURLs, TypeOK, Busy, Connected
    <3>6. Connected' /\ Counted' /\ WholeBody'
      BY <2>2, <3>1, <3>2 DEF Connected, Counted, WholeBody, TypeOK
    <3> QED
      BY <3>3, <3>4, <3>5, <3>6
  <2> QED
    BY <2>1, <2>2
<1>2. ASSUME NEW c \in Calls, ReuseConn(c) PROVE IInv'
  <2> USE <1>2 DEF ReuseConn
  <2>1. PICK k \in idle : k.to = url[c] /\ idle' = idle \ {k} /\ conn' = [conn EXCEPT ![c] = k]
    OBVIOUS
  <2>2. k \in Conns /\ k # NoConn
    BY <2>1, NoConnIsNone DEF TypeOK
  <2>3. TypeOK'
    BY <2>1, <2>2 DEF TypeOK, Busy
  <2>4. Judged' /\ OnlyAllowedAddresses'
    BY <2>1 DEF Judged, OnlyAllowedAddresses, TypeOK, IsBlockedIP
  <2>5. OnlyCheckedURLs'
    BY <2>1 DEF OnlyCheckedURLs, TypeOK, Busy
  <2>6. Connected' /\ Counted' /\ WholeBody'
    BY <2>1, <2>2 DEF Connected, Counted, WholeBody, TypeOK
  <2> QED
    BY <2>3, <2>4, <2>5, <2>6
<1>3. ASSUME NEW c \in Calls, Resolve(c) PROVE IInv'
  <2> USE <1>3 DEF Resolve
  <2>0. url[c] \in URLs
    BY DEF OnlyCheckedURLs, Busy, TypeOK, ValidateURL, NoURL
  <2>1. PICK answer \in SUBSET Addresses :
           LET verdict == ValidateHost(url[c].host, answer)
           IN  IF verdict = "ok"
               THEN /\ at' = [at EXCEPT ![c] = "dialing"]
                    /\ addrs' = [addrs EXCEPT ![c] = Resolved(url[c].host, answer)]
                    /\ UNCHANGED outcome
               ELSE Fail(c, verdict) /\ UNCHANGED addrs
    OBVIOUS
  <2>2. CASE ValidateHost(url[c].host, answer) = "ok"
    <3>1. /\ Resolved(url[c].host, answer) \in SUBSET Addresses
          /\ \A a \in Resolved(url[c].host, answer) : ~IsBlockedIP(a)
      BY <2>0, <2>2, Verdicts
    <3>2. TypeOK'
      BY <2>1, <2>2, <3>1 DEF TypeOK, Busy
    <3>3. Judged' /\ OnlyAllowedAddresses'
      BY <2>1, <2>2, <3>1 DEF Judged, OnlyAllowedAddresses, TypeOK, IsBlockedIP
    <3>4. OnlyCheckedURLs' /\ Connected' /\ Counted' /\ WholeBody'
      BY <2>1, <2>2 DEF OnlyCheckedURLs, Connected, Counted, WholeBody, TypeOK, Busy
    <3> QED
      BY <3>2, <3>3, <3>4
  <2>3. CASE ValidateHost(url[c].host, answer) # "ok"
    <3>1. ValidateHost(url[c].host, answer) \in SecuritySentinels
      BY <2>0, <2>3, Verdicts
    <3>2. Fail(c, ValidateHost(url[c].host, answer)) /\ UNCHANGED addrs
      BY <2>1, <2>3
    <3> DEFINE o == outcome'[c]
    <3>3. /\ at' = [at EXCEPT ![c] = "returned"]
          /\ outcome' \in [Calls -> Outcomes]
          /\ outcome'[c].is # {} /\ outcome'[c].cause # "ErrResponseTooLarge"
          /\ \A d \in Calls \ {c} : outcome'[d] = outcome[d]
      BY <3>1, <3>2, Failing
    <3>4. TypeOK'
      BY <3>2, <3>3 DEF TypeOK, Outcomes
    <3>5. Judged' /\ OnlyAllowedAddresses'
      BY <3>2 DEF Judged, OnlyAllowedAddresses, TypeOK, IsBlockedIP
    <3>6. OnlyCheckedURLs' /\ Connected' /\ Counted' /\ WholeBody'
      BY <3>3 DEF OnlyCheckedURLs, Connected, Counted, WholeBody, TypeOK, Busy
    <3> QED
      BY <3>4, <3>5, <3>6
  <2> QED
    BY <2>2, <2>3
<1>4. ASSUME NEW c \in Calls, Dial(c) PROVE IInv'
  <2> USE <1>4 DEF Dial
  <2>0. url[c] \in URLs
    BY DEF OnlyCheckedURLs, Busy, TypeOK, ValidateURL, NoURL
  <2>1. PICK a \in addrs[c] : conn' = [conn EXCEPT ![c] = [to |-> url[c], addr |-> a]]
    OBVIOUS
  <2>2. /\ [to |-> url[c], addr |-> a] \in Conns /\ [to |-> url[c], addr |-> a] # NoConn
        /\ ~IsBlockedIP(a)
    BY <2>0, <2>1, NoConnIsNone DEF TypeOK, Conns, Judged
  <2>3. TypeOK'
    BY <2>1, <2>2 DEF TypeOK, Busy
  <2>4. Judged' /\ OnlyAllowedAddresses'
    BY <2>1, <2>2 DEF Judged, OnlyAllowedAddresses, TypeOK, IsBlockedIP
  <2>5. OnlyCheckedURLs' /\ Connected' /\ Counted' /\ WholeBody'
    BY <2>1, <2>2 DEF OnlyCheckedURLs, Connected, Counted, WholeBody, TypeOK, Busy
  <2> QED
    BY <2>3, <2>4, <2>5
<1>5. ASSUME NEW c \in Calls, DialFails(c) PROVE IInv'
  <2> USE <1>5 DEF DialFails
  <2>1. /\ at' = [at EXCEPT ![c] = "returned"]
        /\ outcome' \in [Calls -> Outcomes]
        /\ outcome'[c].is # {} /\ outcome'[c].cause # "ErrResponseTooLarge"
        /\ \A d \in Calls \ {c} : outcome'[d] = outcome[d]
    BY Failing
  <2>2. TypeOK'
    BY <2>1 DEF TypeOK, Outcomes
  <2>3. Judged' /\ OnlyAllowedAddresses'
    BY DEF Judged, OnlyAllowedAddresses, TypeOK, IsBlockedIP
  <2>4. OnlyCheckedURLs' /\ Connected' /\ Counted' /\ WholeBody'
    BY <2>1 DEF OnlyCheckedURLs, Connected, Counted, WholeBody, TypeOK, Busy
  <2> QED
    BY <2>2, <2>3, <2>4
<1>6. ASSUME NEW c \in Calls, NEW u \in URLs, Redirected(c, u) PROVE IInv'
  <2> USE <1>6 DEF Redirected, Release
  <2>1. PICK answer \in SUBSET Addresses :
           LET verdict == ValidateRedirect(via[c], u, answer)
           IN  IF verdict = "ok"
               THEN /\ at' = [at EXCEPT ![c] = "sending"]
                    /\ url' = [url EXCEPT ![c] = u]
                    /\ via' = [via EXCEPT ![c] = CountHop(@)]
                    /\ UNCHANGED outcome
               ELSE Fail(c, verdict) /\ UNCHANGED <<url, via>>
    OBVIOUS
  <2>2. via[c] \in Nat /\ conn[c] \in Conns
    BY DEF TypeOK, Connected
  <2>3. idle' \subseteq Conns /\ \A k \in idle' : ~IsBlockedIP(k.addr)
    BY <2>2, NoConnIsNone DEF OnlyAllowedAddresses, TypeOK
  <2>4. Judged' /\ OnlyAllowedAddresses'
    BY <2>3 DEF Judged, OnlyAllowedAddresses, TypeOK, IsBlockedIP
  <2>5. CASE ValidateRedirect(via[c], u, answer) = "ok"
    <3>1. ValidateURL(u) = "ok" /\ via[c] < MaxRedirects
      BY <2>2, <2>5, Verdicts
    <3>2. CountHop(via[c]) = via[c] + 1
      BY <2>2, <3>1, FetcherAssumption DEF CountHop
    <3>3. via' \in [Calls -> Nat] /\ url' \in [Calls -> URLs \cup {NoURL}]
      <4>1. via' = [via EXCEPT ![c] = via[c] + 1] /\ url' = [url EXCEPT ![c] = u]
        BY <2>1, <2>5, <3>2
      <4> QED
        BY <2>2, <4>1 DEF TypeOK
    <3>7. at' \in [Calls -> Busy \cup {"idle", "returned"}]
      BY <2>1, <2>5 DEF TypeOK, Busy
    <3>8. conn' \in [Calls -> Conns \cup {NoConn}]
      BY DEF TypeOK
    <3>9. TypeOK'
      BY <2>1, <2>3, <2>5, <3>3, <3>7, <3>8 DEF TypeOK
    <3>4. OnlyCheckedURLs'
      BY <2>1, <2>5, <3>1 DEF OnlyCheckedURLs, TypeOK, Busy
    <3>5. Connected' /\ WholeBody'
      BY <2>1, <2>5 DEF Connected, WholeBody, TypeOK
    <3>6. Counted'
      BY <2>1, <2>2, <2>5, <3>1, <3>2, FetcherAssumption DEF Counted, TypeOK
    <3> QED
      BY <2>4, <3>4, <3>5, <3>6, <3>9
  <2>6. CASE ValidateRedirect(via[c], u, answer) # "ok"
    <3>1. ValidateRedirect(via[c], u, answer) \in SecuritySentinels
      BY <2>2, <2>6, Verdicts
    <3>2. Fail(c, ValidateRedirect(via[c], u, answer)) /\ UNCHANGED <<url, via>>
      BY <2>1, <2>6
    <3>3. /\ at' = [at EXCEPT ![c] = "returned"]
          /\ outcome' \in [Calls -> Outcomes]
          /\ outcome'[c].is # {} /\ outcome'[c].cause # "ErrResponseTooLarge"
          /\ \A d \in Calls \ {c} : outcome'[d] = outcome[d]
      BY <3>1, <3>2, Failing
    <3>4. TypeOK'
      BY <2>3, <3>2, <3>3 DEF TypeOK, Outcomes
    <3>5. OnlyCheckedURLs' /\ Connected' /\ Counted' /\ WholeBody'
      BY <3>2, <3>3 DEF OnlyCheckedURLs, Connected, Counted, WholeBody, TypeOK, Busy
    <3> QED
      BY <2>4, <3>4, <3>5
  <2> QED
    BY <2>5, <2>6
<1>7. ASSUME NEW c \in Calls, NEW n \in 0..SizeBound, Responds(c, n) PROVE IInv'
  <2> USE <1>7 DEF Responds
  <2>1. TypeOK'
    BY DEF TypeOK, Busy
  <2>2. Judged' /\ OnlyAllowedAddresses'
    BY DEF Judged, OnlyAllowedAddresses, TypeOK, IsBlockedIP
  <2>3. OnlyCheckedURLs' /\ Connected' /\ Counted' /\ WholeBody'
    BY DEF OnlyCheckedURLs, Connected, Counted, WholeBody, TypeOK, Busy
  <2> QED
    BY <2>1, <2>2, <2>3
<1>8. ASSUME NEW c \in Calls, ReadBody(c) PROVE IInv'
  <2> USE <1>8 DEF ReadBody, Release
  <2> DEFINE o == BodyOutcome(Limit(size[c]))
  <2>1. size[c] \in Nat /\ conn[c] \in Conns
    BY FetcherAssumption DEF TypeOK, Connected
  <2>2. /\ o \in Outcomes
        /\ o.is = {} => o.read = size[c]
        /\ o.cause = "ErrResponseTooLarge" => size[c] > MaxBytes
    BY <2>1, Bodies DEF Outcomes
  <2>3. at' = [at EXCEPT ![c] = "returned"] /\ outcome' = [outcome EXCEPT ![c] = o]
    BY DEF Return
  <2> HIDE DEF o
  <2>4. idle' \subseteq Conns /\ \A k \in idle' : ~IsBlockedIP(k.addr)
    BY <2>1, NoConnIsNone DEF OnlyAllowedAddresses, TypeOK
  <2>5. TypeOK'
    BY <2>2, <2>3, <2>4 DEF TypeOK, Outcomes
  <2>6. Judged' /\ OnlyAllowedAddresses'
    BY <2>4 DEF Judged, OnlyAllowedAddresses, TypeOK, IsBlockedIP
  <2>7. OnlyCheckedURLs' /\ Connected' /\ Counted' /\ WholeBody'
    BY <2>2, <2>3 DEF OnlyCheckedURLs, Connected, Counted, WholeBody, TypeOK, Busy
  <2> QED
    BY <2>5, <2>6, <2>7
<1>9. ASSUME NEW c \in Calls, Interrupted(c) PROVE IInv'
  <2> USE <1>9 DEF Interrupted, Drop
  <2>1. /\ at' = [at EXCEPT ![c] = "returned"]
        /\ outcome' \in [Calls -> Outcomes]
        /\ outcome'[c].is # {} /\ outcome'[c].cause # "ErrResponseTooLarge"
        /\ \A d \in Calls \ {c} : outcome'[d] = outcome[d]
    BY Failing
  <2>2. TypeOK'
    BY <2>1 DEF TypeOK, Outcomes
  <2>3. Judged' /\ OnlyAllowedAddresses'
    BY DEF Judged, OnlyAllowedAddresses, TypeOK, IsBlockedIP
  <2>4. OnlyCheckedURLs' /\ Connected' /\ Counted' /\ WholeBody'
    BY <2>1 DEF OnlyCheckedURLs, Connected, Counted, WholeBody, TypeOK, Busy
  <2> QED
    BY <2>2, <2>3, <2>4
<1>10. ASSUME NEW k \in idle, IdleCloses(k) PROVE IInv'
  BY <1>10 DEF IdleCloses, TypeOK, Judged, OnlyAllowedAddresses, OnlyCheckedURLs, Connected,
               Counted, WholeBody, IsBlockedIP
<1>11. CASE UNCHANGED vars
  BY <1>11 DEF vars, TypeOK, Judged, OnlyAllowedAddresses, OnlyCheckedURLs, Connected,
               Counted, WholeBody, IsBlockedIP
<1> QED
  BY <1>1, <1>2, <1>3, <1>4, <1>5, <1>6, <1>7, <1>8, <1>9, <1>10, <1>11
     DEF Next, ClientStep, ServerAnswers

LEMMA Invariance == Spec => []IInv
<1> QED
  BY InitIInv, StepIInv, PTL DEF Spec

(* Every variable keeps its type, for any policy and any limits.           *)
THEOREM TypeCorrect == Spec => []TypeOK
<1>1. IInv => TypeOK
  BY DEF IInv
<1> QED
  BY Invariance, <1>1, PTL

(* Whatever DNS answers and however redirects chain, no connection of the  *)
(* client leads to an address that IsBlockedIPPolicy refuses.              *)
THEOREM DialsAreGuarded == Spec => []OnlyAllowedAddresses
<1>1. IInv => OnlyAllowedAddresses
  BY DEF IInv
<1> QED
  BY Invariance, <1>1, PTL

(* Every URL asked for has passed ValidateURL, and every request is on a   *)
(* connection that was made for its URL.                                   *)
THEOREM EveryHopIsChecked == Spec => []OnlyCheckedURLs
<1>1. IInv => OnlyCheckedURLs
  BY DEF IInv
<1> QED
  BY Invariance, <1>1, PTL

(* No call makes more than MaxRedirects + 1 requests (in fact one fewer).  *)
THEOREM RedirectsAreCapped == Spec => []HopsCapped
<1>1. ASSUME IInv, NEW c \in Calls PROVE via[c] <= MaxRedirects + 1
  <2>1. via[c] \in Nat /\ via[c] <= MaxRedirects
    BY <1>1 DEF IInv, Counted, TypeOK
  <2> QED
    BY <2>1, FetcherAssumption
<1>2. IInv => HopsCapped
  BY <1>1 DEF HopsCapped
<1> QED
  BY Invariance, <1>2, PTL

(* A body is returned whole or refused for its length.                     *)
THEOREM NoTruncation == Spec => []WholeBody
<1>1. IInv => WholeBody
  BY DEF IInv
<1> QED
  BY Invariance, <1>1, PTL

(* A call that has returned holds no connection.                           *)
THEOREM NoHeldConnection == Spec => []NothingHeld
<1>1. IInv => NothingHeld
  BY DEF IInv, Connected, NothingHeld
<1> QED
  BY Invariance, <1>1, PTL
================================================================================
