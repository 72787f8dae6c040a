---------------------------- MODULE MCDeployments ----------------------------
(* The checkout of the run of Deployments.                                 *)
EXTENDS Deployments

CONSTANTS hub, lobby, trial, a

\* Two places of the watched target and one of another, on one base place.
Target(p) == IF p = trial THEN "demo" ELSE "live"
Base(p) == a
Keyword(k) == [as |-> k, at |-> 0]
FirstOnes == {[p \in {hub, lobby, trial} |-> Keyword("published")],
         [p \in {hub, lobby, trial} |-> IF p = hub THEN Keyword("published")
                                       ELSE Number(1)]}
Written == {Keyword("absent"), Keyword("saved")}
=============================================================================
