------------------------------- MODULE MCBatch -------------------------------
(* Properties of LogReport and DeployBundles, and the run that checks them *)
(* with those of BatchRun, MCVerdicts and MCPlaces.                        *)
EXTENDS MCPlaces, LogReport

CONSTANTS MaxPlaces, OddNames
Deploys == INSTANCE MCDeployBundles

\* Two items of one project, and one of another.
TwoProjects(i) == IF i <= 2 THEN "shared" ELSE "own"

-----------------------------------------------------------------------------
(* The log, as it is shown.                                                *)
Count(page, is) == Cardinality({i \in DOMAIN page : page[i].is = is})
OpenAt(page, n) == Count(SubSeq(page, 1, n), "open") - Count(SubSeq(page, 1, n), "close")

\* Whatever is missing or out of order, groups are opened and closed in turn and every
\* line of output is shown once; every package has a group, unless the log is damaged
\* in both ways.
RendersWell ==
    \A i, j \in DOMAIN RunLog([p \in Packages |-> "trips"]) :
    \A from \in 0 .. Len(RunLog([p \in Packages |-> "trips"])) :
      LET log == Window(Displaced(RunLog([p \in Packages |-> "trips"]), i, j), from)
          page == RenderBatchLog(log)
          content == {n \in DOMAIN log : TokenizeBatchLog(log)[n].kind = "content"}
      IN /\ \A n \in DOMAIN page : OpenAt(page, n) \in {0, 1}
         /\ OpenAt(page, Len(page)) = 0
         /\ {page[n].line : n \in {m \in DOMAIN page : page[m].is = "line"}} = content
         /\ Count(page, "line") = Cardinality(content)
         /\ i = j \/ from = 0 =>
              \A p \in Packages : \E n \in DOMAIN page :
                page[n].is = "open" /\ page[n].slug = p

\* Every failure and every stack of a log that was not cut inside one is reported, as
\* what it is, once.
Reports(lines) ==
    LET inStack(n) == \E b \in 1 .. n - 1 :
                        /\ lines[b] = "begin"
                        /\ \A e \in b .. n - 1 : lines[e] # "end"
        opening == {n \in DOMAIN lines : lines[n] \in {"header", "begin"} /\ ~inStack(n)}
        found == ParseJestLuaOutput(lines)
    IN /\ Len(found) = Cardinality(opening)
       /\ Cardinality({n \in DOMAIN found : found[n].is = "failure"})
            = Cardinality({n \in opening : lines[n] = "header"})

AllReported == \A n \in 0 .. 4 : \A lines \in [1 .. n -> JestLines] : Reports(lines)

\* What a log says reaches the reader: the groups and the failures.
LogShown == First => RendersWell /\ AllReported

-----------------------------------------------------------------------------
(* Bundles of places.                                                      *)
\* A build is deployed to the place that this checkout means by its name, or not at all.
RightPlaces ==
    First => Deploys!BundleIsTheRun /\ Deploys!TestsAreTheRun /\ Deploys!StaysHome
               /\ Deploys!DamageIsRefused /\ Deploys!SelectorsNarrow
=============================================================================
