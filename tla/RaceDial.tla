-------------------------------- MODULE RaceDial -------------------------------
(***************************************************************************)
(* One call of Fetcher.raceDial (internal/fetcher/client.go): a goroutine  *)
(* per address dials it after its stagger and sends one result over a      *)
(* buffered channel; the caller takes results until one is a connection,   *)
(* cancels the rest and leaves drainConns behind to close what still       *)
(* arrives.  Time is abstracted: a stagger or a dial ends at some moment.  *)
(***************************************************************************)
EXTENDS Naturals, FiniteSets, Sequences

CONSTANTS N,          \* how many addresses ValidateHost returned
          Unroutable  \* the addresses whose dial never connects

Addrs == 1..N

ASSUME RaceAssumption == N \in Nat \ {0} /\ Unroutable \subseteq Addrs

VARIABLES
    dialer,     \* where the goroutine of each address is
    conn,       \* the connection each dial made, if any
    results,    \* the channel: addresses whose results wait, oldest first
    caller,     \* raceDial itself
    received,   \* its loop counter i
    winner,     \* the address of the connection it returned
    draining,   \* how many results drainConns still waits for
    cancelled   \* the context of the dials is done

vars == <<dialer, conn, results, caller, received, winner, draining, cancelled>>

NoAddr == 0

\* The first address has no stagger.
Init ==
    /\ dialer = [a \in Addrs |-> IF a = 1 THEN "dialing" ELSE "waiting"]
    /\ conn = [a \in Addrs |-> "none"]
    /\ results = <<>>
    /\ caller = "receiving"
    /\ received = 0
    /\ winner = NoAddr
    /\ draining = 0
    /\ cancelled = FALSE

--------------------------------------------------------------------------------
(* The goroutine of address a.                                             *)

\* Mutant: the addresses are dialed one after the other.
StaggerEndsSerial(a) ==
    /\ dialer[a] = "waiting"
    /\ dialer[a - 1] = "done"
    /\ dialer' = [dialer EXCEPT ![a] = "dialing"]
    /\ UNCHANGED <<conn, results, caller, received, winner, draining, cancelled>>

StaggerEnds(a) ==
    /\ dialer[a] = "waiting"
    /\ dialer' = [dialer EXCEPT ![a] = "dialing"]
    /\ UNCHANGED <<conn, results, caller, received, winner, draining, cancelled>>

\* Mutant: the goroutine sends the context's error and goes on to dial.
StaggerCancelledNoReturn(a) ==
    /\ dialer[a] = "waiting"
    /\ cancelled
    /\ results' = Append(results, a)
    /\ dialer' = [dialer EXCEPT ![a] = "dialing"]
    /\ UNCHANGED <<conn, caller, received, winner, draining, cancelled>>

StaggerCancelled(a) ==
    /\ dialer[a] = "waiting"
    /\ cancelled
    /\ dialer' = [dialer EXCEPT ![a] = "sending"]
    /\ UNCHANGED <<conn, results, caller, received, winner, draining, cancelled>>

\* The handshake may complete although the context was cancelled meanwhile.
DialConnects(a) ==
    /\ dialer[a] = "dialing"
    /\ a \notin Unroutable
    /\ conn' = [conn EXCEPT ![a] = "open"]
    /\ dialer' = [dialer EXCEPT ![a] = "sending"]
    /\ UNCHANGED <<results, caller, received, winner, draining, cancelled>>

\* Refused, cancelled, or DialTimeout.
DialFails(a) ==
    /\ dialer[a] = "dialing"
    /\ dialer' = [dialer EXCEPT ![a] = "sending"]
    /\ UNCHANGED <<conn, results, caller, received, winner, draining, cancelled>>

\* The channel has room for len(addrs) results.
ChannelHasRoom == Len(results) < N

Send(a) ==
    /\ dialer[a] = "sending"
    /\ ChannelHasRoom
    /\ results' = Append(results, a)
    /\ dialer' = [dialer EXCEPT ![a] = "done"]
    /\ UNCHANGED <<conn, caller, received, winner, draining, cancelled>>

--------------------------------------------------------------------------------
(* raceDial and drainConns.                                                *)

\* len(addrs)-i-1, with an off-by-one either way as mutants.
StillToComeShort == N - received - 2
StillToComeLong  == N - received
StillToCome == N - received - 1

\* Mutant: the winning result is looked at and left in the channel.
ReceiveConnPeek ==
    /\ caller = "receiving"
    /\ results # <<>>
    /\ conn[Head(results)] = "open"
    /\ winner' = Head(results)
    /\ conn' = [conn EXCEPT ![Head(results)] = "returned"]
    /\ received' = received + 1
    /\ caller' = "returned"
    /\ cancelled' = TRUE
    /\ draining' = StillToCome + 1
    /\ UNCHANGED <<dialer, results>>

ReceiveConn ==
    /\ caller = "receiving"
    /\ results # <<>>
    /\ conn[Head(results)] = "open"
    /\ winner' = Head(results)
    /\ conn' = [conn EXCEPT ![Head(results)] = "returned"]
    /\ results' = Tail(results)
    /\ received' = received + 1
    /\ caller' = "returned"
    /\ cancelled' = TRUE
    /\ draining' = StillToCome
    /\ UNCHANGED dialer

\* Mutant: the first failure is returned at once.
ReceiveErrorFirst ==
    /\ caller = "receiving"
    /\ results # <<>>
    /\ conn[Head(results)] # "open"
    /\ results' = Tail(results)
    /\ received' = received + 1
    /\ caller' = "failed"
    /\ cancelled' = TRUE
    /\ UNCHANGED <<dialer, conn, winner, draining>>

ReceiveError ==
    /\ caller = "receiving"
    /\ results # <<>>
    /\ conn[Head(results)] # "open"
    /\ results' = Tail(results)
    /\ received' = received + 1
    /\ IF received' = N
       THEN caller' = "failed" /\ cancelled' = TRUE
       ELSE UNCHANGED <<caller, cancelled>>
    /\ UNCHANGED <<dialer, conn, winner, draining>>

Drain ==
    /\ draining > 0
    /\ results # <<>>
    /\ results' = Tail(results)
    /\ draining' = draining - 1
    /\ conn' = [conn EXCEPT ![Head(results)] = IF @ = "none" THEN @ ELSE "closed"]
    /\ UNCHANGED <<dialer, caller, received, winner, cancelled>>

\* The request's context ends; raceDial does not look at it, the dials do.
ParentCancels ==
    /\ ~cancelled
    /\ cancelled' = TRUE
    /\ UNCHANGED <<dialer, conn, results, caller, received, winner, draining>>

--------------------------------------------------------------------------------
DialerStep(a) ==
    \/ StaggerEnds(a) \/ StaggerCancelled(a)
    \/ DialConnects(a) \/ DialFails(a)
    \/ Send(a)

Receive == ReceiveConn \/ ReceiveError

Next ==
    \/ \E a \in Addrs : DialerStep(a)
    \/ Receive \/ Drain
    \/ ParentCancels

Spec == Init /\ [][Next]_vars

\* Goroutines run and timers fire, but a dial to an unroutable address need only
\* end when it is cancelled.
FairSpec ==
    /\ Spec
    /\ \A a \in Addrs \ Unroutable : WF_vars(DialerStep(a))
    /\ \A a \in Unroutable : WF_vars(DialerStep(a) /\ (dialer[a] # "dialing" \/ cancelled))
    /\ WF_vars(Receive) /\ WF_vars(Drain)

\* DialTimeout ends the dials to unroutable addresses too.
DialsTimeOut == \A a \in Unroutable : WF_vars(DialerStep(a))

--------------------------------------------------------------------------------
(* Properties.                                                             *)

\* Every variable has its type; drainConns never waits for a negative number.
TypeOK ==
    /\ dialer \in [Addrs -> {"waiting", "dialing", "sending", "done"}]
    /\ conn \in [Addrs -> {"none", "open", "returned", "closed"}]
    /\ results \in Seq(Addrs)
    /\ caller \in {"receiving", "returned", "failed"}
    /\ received \in 0..N
    /\ winner \in Addrs \cup {NoAddr}
    /\ draining \in 0..N
    /\ cancelled \in BOOLEAN

\* Nothing of the call runs any more.
Quiet ==
    /\ caller # "receiving"
    /\ draining = 0
    /\ \A a \in Addrs : dialer[a] = "done"

\* When all is quiet no socket is left open but the one that was returned, and
\* no result lies unread in the channel.
NoLeak ==
    Quiet => /\ \A a \in Addrs : conn[a] # "open"
             /\ results = <<>>

\* raceDial returns exactly one connection or an error, and the connection it
\* returned is never closed behind its caller's back.
OneWinner ==
    /\ caller = "returned" <=> winner # NoAddr
    /\ \A a \in Addrs : conn[a] = "returned" <=> a = winner

\* An error means that no address could be dialed.
ErrorMeansNone == caller = "failed" => \A a \in Addrs : conn[a] = "none"

Unsent == {a \in Addrs : dialer[a] # "done"}

\* The channel has room for every result still to be sent, so that no goroutine
\* ever blocks on it, whether or not anyone still reads.
NeverBlocks == Len(results) + Cardinality(Unsent) <= N

\* The call, its goroutines and drainConns all come to an end.
EventuallyQuiet == DialsTimeOut => <>Quiet

\* An unroutable address costs nothing: without any of its dials timing out,
\* raceDial returns a connection, or every other address has failed.
HangCostsNothing ==
    <>(\/ caller = "returned"
       \/ \A a \in Addrs \ Unroutable : dialer[a] = "done" /\ conn[a] = "none")

--------------------------------------------------------------------------------
(* The inductive invariant behind the safety properties.                   *)

\* Every result is sent once and read once, by raceDial or by drainConns.
Accounts ==
    /\ IsFiniteSet(Unsent)
    /\ caller = "receiving" => /\ Cardinality(Unsent) + Len(results) + received = N
                               /\ draining = 0 /\ received < N
    /\ caller = "returned"  => Cardinality(Unsent) + Len(results) = draining
    /\ caller = "failed"    => Unsent = {} /\ results = <<>> /\ draining = 0

\* A result in the channel is that of a goroutine that has ended, and is there
\* once; an open connection is on its way to whoever reads the channel.
InTransit ==
    /\ \A i \in DOMAIN results : /\ dialer[results[i]] = "done"
                                 /\ conn[results[i]] \in {"none", "open"}
    /\ \A i, j \in DOMAIN results : results[i] = results[j] => i = j
    /\ \A a \in Addrs : dialer[a] \in {"waiting", "dialing"} => conn[a] = "none"
    /\ \A a \in Addrs : conn[a] \in {"returned", "closed"} => dialer[a] = "done"
    /\ \A a \in Addrs :
          conn[a] = "open" => dialer[a] = "sending" \/ \E i \in DOMAIN results : results[i] = a
    /\ \A a \in Addrs : conn[a] = "closed" => caller = "returned"

IInv == TypeOK /\ OneWinner /\ Accounts /\ InTransit
================================================================================
