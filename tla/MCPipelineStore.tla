---------------------------- MODULE MCPipelineStore ----------------------------
(* Small instances of PipelineStore.                                       *)
EXTENDS PipelineStore, TLC

CONSTANTS s1, s2, s3, r1, r2, p1, p2, u1, t1

MCLower == "api" :> "api" @@ "feed" :> "feed" @@ "" :> ""

Draft(upstream, author, set) ==
    [upstream |-> upstream, author |-> author, fields |-> set]

\* A good recipe, one whose second row the table refuses, and one of each kind
\* that is turned away earlier.
Good      == Draft("complete", u1, <<"price", "stock">>)
Short     == Draft("complete", u1, <<"price">>)
BadRow    == Draft("complete", u1, <<"price", "huge">>)
Repeated  == Draft("complete", u1, <<"price", "price">>)
NoJson    == Draft("unmarshalable", u1, <<"price">>)

RaceDrafts == {Good, BadRow, Repeated, NoJson}
ReadDrafts == {Good, Short}

MCFields == {"price", "stock", "huge", "9lives"}

RaceSymmetry == Permutations({s1, s2, s3}) \cup Permutations({p1, p2})
================================================================================
