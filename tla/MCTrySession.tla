------------------------------ MODULE MCTrySession -----------------------------
(* Small instances of TrySession.                                          *)
EXTENDS TrySession, TLC

CONSTANTS k1, k2, p1, p2, u1, t1

MCLower == "mine" :> "mine" @@ "Mine" :> "mine" @@ "long" :> "long" @@ "" :> ""
           @@ "api-0" :> "api-0" @@ "api-1" :> "api-1"
MCPipelineOf == k1 :> p1 @@ k2 :> p2
MCDefaultName == "api" :> [t \in 0..1 |-> IF t = 0 THEN "api-0" ELSE "api-1"]

Recipe1 == [upstream |-> "complete", author |-> u1, fields |-> <<"price">>]
Unsigned == [Recipe1 EXCEPT !.author = NilId]
Blank    == [Recipe1 EXCEPT !.fields = <<>>]

SessionDrafts == {Recipe1, Unsigned, Blank}
================================================================================
