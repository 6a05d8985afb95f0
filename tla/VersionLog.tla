------------------------------- MODULE VersionLog ------------------------------
(***************************************************************************)
(* What internal/pipeline.Repository promises: each registered pipeline    *)
(* has a log of recipes that only ever grows at its end, one whole recipe  *)
(* at a time; version n is the n-th recipe of the log.                     *)
(***************************************************************************)
EXTENDS Naturals, Sequences

CONSTANTS Pipelines, Recipes

VARIABLES registered, log

TypeOK ==
    /\ registered \subseteq Pipelines
    /\ log \in [Pipelines -> Seq(Recipes)]

Init ==
    /\ registered = {}
    /\ log = [p \in Pipelines |-> <<>>]

Register(p) ==
    /\ p \notin registered
    /\ registered' = registered \cup {p}
    /\ UNCHANGED log

AppendVersion(p, recipe) ==
    /\ p \in registered
    /\ log' = [log EXCEPT ![p] = Append(@, recipe)]
    /\ UNCHANGED registered

\* Deleting the pipeline is the only way to lose a version.
Remove(p) ==
    /\ p \in registered
    /\ registered' = registered \ {p}
    /\ log' = [log EXCEPT ![p] = <<>>]

Next ==
    \E p \in Pipelines :
        \/ Register(p)
        \/ \E recipe \in Recipes : AppendVersion(p, recipe)
        \/ Remove(p)

Spec == Init /\ [][Next]_<<registered, log>>

\* While its pipeline is registered, a version once read reads the same for ever.
OnlyGrows ==
    [][\A p \in registered \cap registered' :
          \A n \in DOMAIN log[p] : n \in DOMAIN log'[p] /\ log'[p][n] = log[p][n]]_<<registered, log>>
================================================================================
