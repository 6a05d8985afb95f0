-------------------------------- MODULE MCFetcher ------------------------------
(* Small instances of Fetcher.                                             *)
EXTENDS Fetcher, TLC

CONSTANTS c1, c2

Url(scheme, host, port) == [scheme |-> scheme, host |-> host, port |-> port]

Api     == Url("https", "api", "default")
Moved   == Url("https", "cdn", "allowed")
Plain   == Url("http", "api", "default")
Literal == Url("https", "127.0.0.1", "default")
Odd     == Url("https", "api", "other")
Hostless == Url("https", NoHost, "default")

RedirectURLs == {Api, Plain, Literal, Odd, Hostless}
LoopURLs == {Api, Moved}

MCClass == "203" :> "public" @@ "127.0.0.1" :> "loopback" @@ "10" :> "reserved"

Strict   == [http |-> FALSE, loopback |-> FALSE]
Local    == [http |-> FALSE, loopback |-> TRUE]
================================================================================
