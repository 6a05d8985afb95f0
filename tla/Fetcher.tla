--------------------------------- MODULE Fetcher --------------------------------
(***************************************************************************)
(* fetcher.Fetcher: calls of Do that share one http.Client, with the       *)
(* address policy of internal/security applied to the first URL, to every  *)
(* redirect and to every dial.  net/http's part is modelled by what Do     *)
(* relies on: keep-alive, following redirects and the client's timer.      *)
(* raceDial is one step here; RaceDial has its inside.                     *)
(***************************************************************************)
EXTENDS Naturals

CONSTANTS
    Calls,         \* calls of Do
    Names,         \* host names
    Addresses,     \* IP addresses
    Class,         \* what kind of address each one is
    NoHost,        \* the host of a URL that has none
    URLs,          \* the URLs a call or a redirect may ask for
    Policy,        \* Options: what AllowHTTP and AllowLoopback say
    MaxRedirects,
    MaxBytes,      \* the limit on a response body
    SizeBound      \* bound: the longest body a server sends

ASSUME FetcherAssumption ==
    /\ Names \cap Addresses = {} /\ NoHost \notin Names \cup Addresses
    /\ Class \in [Addresses -> {"public", "loopback", "reserved"}]
    /\ URLs \subseteq [ scheme : {"https", "http", "other"},
                        host   : Names \cup Addresses \cup {NoHost},
                        port   : {"default", "allowed", "other"} ]
    /\ Policy \in [http : BOOLEAN, loopback : BOOLEAN]
    /\ MaxRedirects \in Nat \ {0}
    /\ MaxBytes \in Nat /\ SizeBound \in Nat

VARIABLES
    at,        \* how far each call of Do is
    url,       \* the URL it asks for now
    via,       \* how many requests it has made
    addrs,     \* the addresses its dial is to choose from
    conn,      \* the connection its request went out on
    size,      \* the length of the body it is being sent
    outcome,   \* what it returned
    idle       \* kept-alive connections, shared by all calls

vars == <<at, url, via, addrs, conn, size, outcome, idle>>

NoURL     == [scheme |-> "other", host |-> NoHost, port |-> "other"]
NoConn    == [none |-> TRUE]
NoOutcome == [is |-> {}, cause |-> "none", read |-> 0]

SecuritySentinels == {"ErrBlockedScheme", "ErrBlockedPort", "ErrBlockedTarget",
                      "ErrDNSFailure", "ErrTooManyRedirects"}
Busy == {"sending", "dialing", "waiting", "reading"}

Init ==
    /\ at      = [c \in Calls |-> "idle"]
    /\ url     = [c \in Calls |-> NoURL]
    /\ via     = [c \in Calls |-> 0]
    /\ addrs   = [c \in Calls |-> {}]
    /\ conn    = [c \in Calls |-> NoConn]
    /\ size    = [c \in Calls |-> 0]
    /\ outcome = [c \in Calls |-> NoOutcome]
    /\ idle    = {}

--------------------------------------------------------------------------------
(* internal/security.                                                      *)

IsBlockedIP(a) ==
    \/ Class[a] = "reserved"
    \/ Class[a] = "loopback" /\ ~Policy.loopback

\* The first rule a URL breaks.
ValidateURL(u) ==
    IF ~(u.scheme = "https" \/ (u.scheme = "http" /\ Policy.http)) THEN "ErrBlockedScheme"
    ELSE IF u.host = NoHost THEN "ErrBlockedTarget"
    ELSE IF u.port = "other" THEN "ErrBlockedPort"
    ELSE IF u.host \in Addresses /\ IsBlockedIP(u.host) THEN "ErrBlockedTarget"
    ELSE "ok"

\* The addresses of a host, given what DNS answers just now; a literal address
\* needs no lookup.  No address at all stands for a failed lookup too.
Resolved(host, answer) == IF host \in Addresses THEN {host} ELSE answer

ValidateHost(host, answer) ==
    IF Resolved(host, answer) = {} THEN "ErrDNSFailure"
    ELSE IF \E a \in Resolved(host, answer) : IsBlockedIP(a) THEN "ErrBlockedTarget"
    ELSE "ok"

\* Mutant: the number of hops is not looked at.
ValidateRedirectNoLimit(made, u, answer) ==
    IF ValidateURL(u) # "ok" THEN ValidateURL(u) ELSE ValidateHost(u.host, answer)

\* Mutant: only the resolution of the new host is checked.
ValidateRedirectHostOnly(made, u, answer) ==
    IF made >= MaxRedirects THEN "ErrTooManyRedirects" ELSE ValidateHost(u.host, answer)

\* made is len(via): the requests made so far, the first one included.
ValidateRedirect(made, u, answer) ==
    IF made >= MaxRedirects THEN "ErrTooManyRedirects"
    ELSE IF ValidateURL(u) # "ok" THEN ValidateURL(u)
    ELSE ValidateHost(u.host, answer)

--------------------------------------------------------------------------------
(* Do.                                                                     *)

Return(c, o) ==
    /\ at' = [at EXCEPT ![c] = "returned"]
    /\ outcome' = [outcome EXCEPT ![c] = o]

\* client.Do failed: its error is flattened into the text of ErrRequestFailed.
Fail(c, cause) ==
    Return(c, [is |-> {"ErrRequestFailed"}, cause |-> cause, read |-> 0])

Drop(c) == conn' = [conn EXCEPT ![c] = NoConn] /\ UNCHANGED idle

\* The connection is closed, or kept for the next request to the same place.
Release(c) ==
    /\ conn' = [conn EXCEPT ![c] = NoConn]
    /\ idle' \in {idle, idle \cup {conn[c]}}

StartDo(c, u) ==
    /\ at[c] = "idle"
    /\ url' = [url EXCEPT ![c] = u]
    /\ IF ValidateURL(u) = "ok"
       THEN /\ at' = [at EXCEPT ![c] = "sending"]
            /\ via' = [via EXCEPT ![c] = 1]
            /\ UNCHANGED outcome
       ELSE /\ Return(c, [is |-> {ValidateURL(u)}, cause |-> ValidateURL(u), read |-> 0])
            /\ UNCHANGED via
    /\ UNCHANGED <<addrs, conn, size, idle>>

\* The request goes out on a kept-alive connection to the same scheme, host
\* and port, without a dial.
ReuseConn(c) ==
    /\ at[c] = "sending"
    /\ \E k \in idle :
          /\ k.to = url[c]
          /\ idle' = idle \ {k}
          /\ conn' = [conn EXCEPT ![c] = k]
    /\ at' = [at EXCEPT ![c] = "waiting"]
    /\ UNCHANGED <<url, via, addrs, size, outcome>>

\* guardedDial resolves and judges the host ...
Resolve(c) ==
    /\ at[c] = "sending"
    /\ \E answer \in SUBSET Addresses :
          LET verdict == ValidateHost(url[c].host, answer)
          IN  IF verdict = "ok"
              THEN /\ at' = [at EXCEPT ![c] = "dialing"]
                   /\ addrs' = [addrs EXCEPT ![c] = Resolved(url[c].host, answer)]
                   /\ UNCHANGED outcome
              ELSE Fail(c, verdict) /\ UNCHANGED addrs
    /\ UNCHANGED <<url, via, conn, size, idle>>

\* Mutant: the name is handed to the dialer, which looks it up once more.
DialByName(c) ==
    /\ at[c] = "dialing"
    /\ \E answer \in SUBSET Addresses : \E a \in Resolved(url[c].host, answer) :
          conn' = [conn EXCEPT ![c] = [to |-> url[c], addr |-> a]]
    /\ at' = [at EXCEPT ![c] = "waiting"]
    /\ addrs' = [addrs EXCEPT ![c] = {}]
    /\ UNCHANGED <<url, via, size, outcome, idle>>

\* ... and races the addresses it found; the request goes out to the winner.
Dial(c) ==
    /\ at[c] = "dialing"
    /\ \E a \in addrs[c] : conn' = [conn EXCEPT ![c] = [to |-> url[c], addr |-> a]]
    /\ at' = [at EXCEPT ![c] = "waiting"]
    /\ addrs' = [addrs EXCEPT ![c] = {}]
    /\ UNCHANGED <<url, via, size, outcome, idle>>

DialFails(c) ==
    /\ at[c] = "dialing"
    /\ Fail(c, "ErrDialFailed")
    /\ addrs' = [addrs EXCEPT ![c] = {}]
    /\ UNCHANGED <<url, via, conn, size, idle>>

\* Bound: requests beyond this many are alike.
CountHop(n) == IF n <= MaxRedirects + 1 THEN n + 1 ELSE n

\* The server answers with a redirect to u and checkRedirect judges it.
Redirected(c, u) ==
    /\ at[c] = "waiting"
    /\ \E answer \in SUBSET Addresses :
          LET verdict == ValidateRedirect(via[c], u, answer)
          IN  IF verdict = "ok"
              THEN /\ at' = [at EXCEPT ![c] = "sending"]
                   /\ url' = [url EXCEPT ![c] = u]
                   /\ via' = [via EXCEPT ![c] = CountHop(@)]
                   /\ UNCHANGED outcome
              ELSE Fail(c, verdict) /\ UNCHANGED <<url, via>>
    /\ Release(c)
    /\ UNCHANGED <<addrs, size>>

\* The server answers with a response whose body is n bytes long.
Responds(c, n) ==
    /\ at[c] = "waiting"
    /\ at' = [at EXCEPT ![c] = "reading"]
    /\ size' = [size EXCEPT ![c] = n]
    /\ UNCHANGED <<url, via, addrs, conn, outcome, idle>>

\* Mutant: the reader stops at max and never sees the byte too many.
LimitExact(n) == IF n <= MaxBytes THEN n ELSE MaxBytes

\* How much of an n-byte body io.LimitReader(resp.Body, max+1) lets through.
Limit(n) == IF n <= MaxBytes + 1 THEN n ELSE MaxBytes + 1

\* Mutant: the extra byte that was asked for is let pass.
BodyOutcomeLoose(read) ==
    IF read > MaxBytes + 1
    THEN [is |-> {"ErrResponseTooLarge"}, cause |-> "ErrResponseTooLarge", read |-> 0]
    ELSE [is |-> {}, cause |-> "none", read |-> read]

BodyOutcome(read) ==
    IF read > MaxBytes
    THEN [is |-> {"ErrResponseTooLarge"}, cause |-> "ErrResponseTooLarge", read |-> 0]
    ELSE [is |-> {}, cause |-> "none", read |-> read]

\* Mutant: the body is closed only on success.
ReadBodyLeaky(c) ==
    /\ at[c] = "reading"
    /\ Return(c, BodyOutcome(Limit(size[c])))
    /\ IF Limit(size[c]) > MaxBytes THEN UNCHANGED <<conn, idle>> ELSE Release(c)
    /\ UNCHANGED <<url, via, addrs, size>>

ReadBody(c) ==
    /\ at[c] = "reading"
    /\ Return(c, BodyOutcome(Limit(size[c])))
    /\ Release(c)
    /\ UNCHANGED <<url, via, addrs, size>>

\* The connection breaks, or client.Timeout or the caller's context expires.
Interrupted(c) ==
    /\ at[c] \in Busy
    /\ Fail(c, "interrupted")
    /\ Drop(c)
    /\ addrs' = [addrs EXCEPT ![c] = {}]
    /\ UNCHANGED <<url, via, size>>

\* A kept-alive connection is closed by the server or by IdleConnTimeout; when
\* that is noticed only on reuse, net/http sends the request again.
IdleCloses(k) ==
    /\ idle' = idle \ {k}
    /\ UNCHANGED <<at, url, via, addrs, conn, size, outcome>>

--------------------------------------------------------------------------------
ClientStep(c) == ReuseConn(c) \/ Resolve(c) \/ Dial(c) \/ DialFails(c) \/ ReadBody(c)

ServerAnswers(c) ==
    (\E u \in URLs : Redirected(c, u)) \/ (\E n \in 0..SizeBound : Responds(c, n))

Next ==
    \/ \E c \in Calls, u \in URLs : StartDo(c, u)
    \/ \E c \in Calls : ClientStep(c) \/ ServerAnswers(c) \/ Interrupted(c)
    \/ \E k \in idle : IdleCloses(k)

Spec == Init /\ [][Next]_vars

\* Servers and DNS answer, in whatever way; no timer need ever fire.
FairSpec == Spec /\ \A c \in Calls : WF_vars(ClientStep(c) \/ ServerAnswers(c))

--------------------------------------------------------------------------------
(* Properties.                                                             *)

Conns == [to : URLs, addr : Addresses]

\* Every variable has its type.
TypeOK ==
    /\ at \in [Calls -> Busy \cup {"idle", "returned"}]
    /\ url \in [Calls -> URLs \cup {NoURL}]
    /\ via \in [Calls -> Nat]
    /\ addrs \in [Calls -> SUBSET Addresses]
    /\ conn \in [Calls -> Conns \cup {NoConn}]
    /\ size \in [Calls -> 0..SizeBound]
    /\ outcome \in [Calls ->
          [is : SUBSET (SecuritySentinels \cup {"ErrRequestFailed", "ErrResponseTooLarge"}),
           cause : SecuritySentinels \cup {"none", "ErrDialFailed", "ErrResponseTooLarge",
                                           "interrupted"},
           read : 0..MaxBytes]]
    /\ idle \subseteq Conns

\* No connection, in use or kept alive, leads to an address the policy refuses,
\* however a name's answers change between redirect check, dial and reuse.
OnlyAllowedAddresses ==
    /\ \A c \in Calls : conn[c] # NoConn => ~IsBlockedIP(conn[c].addr)
    /\ \A k \in idle : ~IsBlockedIP(k.addr)

\* Every URL a call asks for has passed ValidateURL, first or redirected to, and
\* its request is on a connection made for that URL.
OnlyCheckedURLs ==
    \A c \in Calls :
        /\ at[c] \in Busy => ValidateURL(url[c]) = "ok"
        /\ conn[c] # NoConn => at[c] \in Busy /\ conn[c].to = url[c]

\* A call follows at most MaxRedirects redirects: it makes that many requests
\* and the first one.
HopsCapped == \A c \in Calls : via[c] <= MaxRedirects + 1

\* The body that Do returns is all of what the server sent, and a body is
\* refused only when it is over the limit: no response is cut short silently.
WholeBody ==
    \A c \in Calls : at[c] = "returned" =>
        /\ outcome[c].is = {} => outcome[c].read = size[c]
        /\ outcome[c].cause = "ErrResponseTooLarge" => size[c] > MaxBytes

\* A call that has returned holds no connection, whichever way it returned.
NothingHeld == \A c \in Calls : at[c] = "returned" => conn[c] = NoConn

\* As long as servers answer, every call returns without the help of a timer: a
\* cycle of redirects is broken off.
DoReturns == \A c \in Calls : at[c] = "sending" ~> at[c] = "returned"

\* "MaxRedirects caps how many hops a request may follow" (redirect_validator.go):
\* a call that failed with ErrTooManyRedirects, "more than MaxRedirects", was
\* redirected more often than that.
TooManyIsTrue ==
    \A c \in Calls : outcome[c].cause = "ErrTooManyRedirects" => via[c] > MaxRedirects

--------------------------------------------------------------------------------
(* The inductive invariant behind the safety properties.                   *)

\* The addresses a dial chooses from have been judged.
Judged == \A c \in Calls : \A a \in addrs[c] : ~IsBlockedIP(a)

\* Only a request that is under way has a connection.
Connected ==
    \A c \in Calls : /\ conn[c] # NoConn <=> at[c] \in {"waiting", "reading"}
                     /\ at[c] # "returned" => outcome[c] = NoOutcome

\* What is still to be counted stays within MaxRedirects.
Counted == \A c \in Calls : via[c] <= MaxRedirects

IInv == /\ TypeOK /\ Judged /\ OnlyAllowedAddresses /\ OnlyCheckedURLs
        /\ Connected /\ Counted /\ WholeBody
================================================================================
