------------------------------- MODULE BatchRun -------------------------------
(* A batch of nevermore-cli: `batch test`, aggregated into shared places   *)
(* or package by package, and `batch deploy` (commands/batch-command,      *)
(* utils/batch, utils/job-context). Items are the packages 1, 2, ...; a    *)
(* place that has been built keeps its files until it is released, and     *)
(* places of one project share one build. What a test says of its package  *)
(* is in BatchLog; here a step succeeds, or fails, at most MaxFailures     *)
(* times, for good or for a reason that is tried once more.                *)
EXTENDS Naturals, FiniteSets

CONSTANTS Items,        \* 1 .. n, in the order they start
          Chunks,       \* the places of an aggregated run
          KeyOf(_),     \* the project an item is built from
          NeedsMerge,   \* items whose target has a base place
          Modes,        \* of "aggregated", "test" and "deploy", those explored
          Concurrency,
          MaxFailures

ASSUME BatchAssumption ==
    /\ IsFiniteSet(Items) /\ Items \subseteq Nat
    /\ Modes \subseteq {"aggregated", "test", "deploy"}
    /\ Concurrency \in Nat \ {0}
    /\ MaxFailures \in Nat

VARIABLES mode,      \* the command that runs
          local,     \* in Studio instead of Open Cloud
          phase,     \* "batch", "items", "register", "dispose", "end"
          combined,  \* the shared build of an aggregated run
          chunk,     \* the upload and the execution of each of its places
          outcome,   \* the execution of all of them
          attempt,   \* of the execution: 1, or 2 for the retry
          item,      \* each item's step, its attempt and its verdict
          shared,    \* builds by project: state and count of users
          tracked,   \* places that have been built and not released
          dirs,      \* temporary directories that exist
          studios,   \* Studio processes that run
          failures,  \* steps that have failed
          exit       \* the exit code, and whether watches were registered

aggregatedVars == <<combined, chunk, outcome, attempt>>
itemVars == <<item, shared, tracked>>
batchVars == <<mode, local, phase, combined, chunk, outcome, attempt, item, shared,
               tracked, dirs, studios, failures, exit>>

Idle == [step |-> "waiting", try |-> 1, verdict |-> "none"]
NoChunk == [deploy |-> "none", exec |-> "none"]

\* In a test every build has a file name of its own, so nothing is shared; deploys of
\* one project share it.
BuildKey(i) == IF mode = "deploy" THEN <<KeyOf(i)>> ELSE <<i, item[i].try>>
Keys == {<<KeyOf(i)>> : i \in Items} \cup (Items \X {1, 2})
NoBuild == [is |-> "none", refs |-> 0]

\* An aggregated run may bring its places, read from a bundle, whose directory it then
\* owns; nothing keeps a run in Studio from it.
Prebuilt == IF mode = "aggregated" THEN {"built"} ELSE {}

BatchInit ==
    /\ mode \in Modes
    /\ local \in BOOLEAN
    /\ mode = "deploy" => ~local
    /\ phase = IF mode = "aggregated" THEN "batch" ELSE "items"
    /\ combined \in {"none"} \cup Prebuilt
    /\ chunk = [c \in Chunks |-> NoChunk]
    /\ outcome = "none"
    /\ attempt = 1
    /\ item = [i \in Items |-> Idle]
    /\ shared = [k \in Keys |-> NoBuild]
    /\ tracked = {}
    /\ dirs = IF combined = "built" THEN {<<"combined">>} ELSE {}
    /\ studios = {}
    /\ failures = 0
    /\ exit = [code |-> 0, registered |-> FALSE]

\* A step ends well, or fails for good, or in a way that counts as transient.
Results == IF failures < MaxFailures THEN {"ok", "failed", "transient"} ELSE {"ok"}
Counted(result) == failures' = failures + (IF result = "ok" THEN 0 ELSE 1)

-----------------------------------------------------------------------------
(* The aggregated run: one build, and an upload and an execution per       *)
(* place, each remembered until it fails.                                  *)

\* The executions of all places are asked for; one that is remembered goes on, the
\* others start with their upload, which may be remembered too.
Asked(chunks) ==
    [c \in Chunks |->
       IF chunks[c].exec # "none" THEN chunks[c]
       ELSE [exec |-> IF chunks[c].deploy = "done" THEN "running" ELSE "uploading",
             deploy |-> IF chunks[c].deploy = "none" THEN "running"
                        ELSE chunks[c].deploy]]

AllDone(chunks) == \A c \in Chunks : chunks[c].exec = "done"

\* _doBatchExecutionAsync: waits for the combined build; one that has failed is
\* remembered for good, and fails again at once.
RunBatch ==
    /\ phase = "batch" /\ outcome = "none"
    /\ IF combined = "failed"
         THEN outcome' = "failed" /\ UNCHANGED <<combined, chunk>>
         ELSE /\ outcome' = "pending"
              /\ IF combined = "built"
                   THEN chunk' = Asked(chunk) /\ UNCHANGED combined
                   ELSE combined' = "building" /\ UNCHANGED chunk
    /\ UNCHANGED <<mode, local, phase, attempt, itemVars, dirs, studios, failures,
                   exit>>

\* _doCombinedBuildAsync: the directory is remembered for the clean-up only when the
\* places have been generated.
CombinedBuilt(result) ==
    /\ combined = "building"
    /\ IF result = "ok"
         THEN /\ combined' = "built"
              /\ dirs' = dirs \cup {<<"combined">>}
              /\ chunk' = Asked(chunk)
              /\ UNCHANGED outcome
         ELSE /\ combined' = "failed"
              /\ dirs' = dirs \cup {<<"unfinished">>}
              /\ outcome' = result
              /\ UNCHANGED chunk
    /\ Counted(result)
    /\ UNCHANGED <<mode, local, phase, attempt, itemVars, studios, exit>>

\* The first place that fails fails the execution; the others go on, unwatched.
Rejected(result) == outcome' = IF outcome = "pending" THEN result ELSE outcome

\* _doChunkDeployAsync: a Studio is one of those that are stopped at the end once it
\* has started; a failed upload is forgotten, and so is the execution waiting for it.
ChunkDeployed(c, result) ==
    /\ phase # "end" /\ chunk[c].deploy = "running"
    /\ IF result = "ok"
         THEN /\ chunk' = [chunk EXCEPT ![c] =
                             [deploy |-> "done",
                              exec |-> IF @.exec = "uploading" THEN "running"
                                       ELSE @.exec]]
              /\ studios' = IF local THEN studios \cup {<<"chunk", c>>} ELSE studios
              /\ UNCHANGED outcome
         ELSE /\ chunk' = [chunk EXCEPT ![c] = NoChunk]
              /\ Rejected(result)
              /\ UNCHANGED studios
    /\ Counted(result)
    /\ UNCHANGED <<mode, local, phase, combined, attempt, itemVars, dirs, exit>>

\* _doChunkExecutionAsync: in Studio an error is an outcome, in the cloud it rejects.
ChunkRan(c, result) ==
    /\ phase # "end" /\ chunk[c].exec = "running"
    /\ local => result = "ok"
    /\ chunk' = [chunk EXCEPT ![c].exec = IF result = "ok" THEN "done" ELSE "none"]
    /\ IF result = "ok"
         THEN outcome' = IF outcome = "pending" /\ AllDone(chunk') THEN "done"
                         ELSE outcome
         ELSE Rejected(result)
    /\ Counted(result)
    /\ UNCHANGED <<mode, local, phase, combined, attempt, itemVars, dirs, studios,
                   exit>>

\* _retryOnTransientAsync around the execution, and its ends.
RetryBatch ==
    /\ phase = "batch" /\ outcome = "transient" /\ attempt = 1
    /\ attempt' = 2
    /\ outcome' = "none"
    /\ UNCHANGED <<mode, local, phase, combined, chunk, itemVars, dirs, studios,
                   failures, exit>>

BatchOver ==
    /\ phase = "batch"
    /\ \/ /\ outcome = "done"
          /\ phase' = "items"
          /\ UNCHANGED exit
       \/ /\ outcome = "failed" \/ (outcome = "transient" /\ attempt = 2)
          /\ phase' = "dispose"
          /\ exit' = [exit EXCEPT !.code = 1]
    /\ UNCHANGED <<mode, local, aggregatedVars, itemVars, dirs, studios, failures>>

-----------------------------------------------------------------------------
(* The items: runBatchAsync starts them in order, Concurrency at a time.   *)

Busy == {i \in Items : item[i].step \notin {"waiting", "done"}}
Place(i) == [item |-> i, key |-> BuildKey(i), try |-> item[i].try, merged |-> FALSE]
Held(i) == CHOOSE p \in tracked : p.item = i /\ p.try = item[i].try

\* The step after a build: a test is prepared, a deploy goes on to its upload.
Built == IF mode = "test" THEN "preparing" ELSE "deploying"

To(i, step) == item' = [item EXCEPT ![i].step = step]

\* Mutant: a waiter does not count itself in.
StartUncounted(items, i, k) ==
    /\ shared' = [shared EXCEPT ![k] =
                    IF @.is = "none" THEN [is |-> "building", refs |-> 1] ELSE @]
    /\ item' = [items EXCEPT ![i].step = "building"]

Joined(build) == IF build.is = "none" THEN [is |-> "building", refs |-> 1]
                 ELSE [build EXCEPT !.refs = @ + 1]

\* _getOrCreateSharedBuildAsync: the first caller starts the build, the others count
\* themselves in and wait for the same one, or have it at once.
StartBuild(items, i, k) ==
    /\ shared' = [shared EXCEPT ![k] = Joined(@)]
    /\ item' = [items EXCEPT ![i].step = "building"]

StartItem(i) ==
    /\ phase = "items"
    /\ item[i].step = "waiting"
    /\ \A j \in Items : j < i => item[j].step # "waiting"
    /\ Cardinality(Busy) < Concurrency
    /\ IF mode = "aggregated"
         THEN To(i, "judging") /\ UNCHANGED shared
         ELSE StartBuild(item, i, BuildKey(i))
    /\ UNCHANGED <<mode, local, phase, aggregatedVars, tracked, dirs, studios,
                   failures, exit>>

\* What rojo has to say: a failed build is forgotten by whoever started it, and fails
\* everybody who waits.
BuildEnded(k, result) ==
    LET users == {i \in Items : item[i].step = "building" /\ BuildKey(i) = k}
    IN /\ shared[k].is = "building"
       /\ IF result = "ok"
            THEN /\ shared' = [shared EXCEPT ![k].is = "built"]
                 /\ dirs' = dirs \cup {<<"build", k>>}
                 /\ UNCHANGED item
            ELSE /\ shared' = [shared EXCEPT ![k] = NoBuild]
                 /\ dirs' = dirs \cup {<<"unfinished", k>>}
                 /\ item' = [i \in Items |->
                               IF i \in users THEN [item[i] EXCEPT !.step = result]
                               ELSE item[i]]
       /\ Counted(result)
       /\ UNCHANGED <<mode, local, phase, aggregatedVars, tracked, studios, exit>>

\* buildPlaceAsync goes on: the place is tracked, and merged with its base place in a
\* directory of its own.
Tracked(i) ==
    /\ item[i].step = "building" /\ shared[BuildKey(i)].is = "built"
    /\ tracked' = tracked \cup {Place(i)}
    /\ IF i \in NeedsMerge
         THEN /\ dirs' = dirs \cup {<<"merge", i, item[i].try>>}
              /\ To(i, "merging")
         ELSE To(i, Built) /\ UNCHANGED dirs
    /\ UNCHANGED <<mode, local, phase, aggregatedVars, shared, studios, failures,
                   exit>>

\* _mergeBasePlaceAsync: the place owns the directory only once the merge is done.
Merged(i, result) ==
    /\ item[i].step = "merging"
    /\ IF result = "ok"
         THEN /\ tracked' = (tracked \ {Held(i)}) \cup {[Held(i) EXCEPT !.merged = TRUE]}
              /\ To(i, Built)
         ELSE To(i, result) /\ UNCHANGED tracked
    /\ Counted(result)
    /\ UNCHANGED <<mode, local, phase, aggregatedVars, shared, dirs, studios, exit>>

\* releaseBuiltPlaceAsync of some places: their own directories go, and a shared build
\* goes with its last user.
Release(gone) ==
    LET left == [k \in Keys |->
                   shared[k].refs - Cardinality({p \in gone : p.key = k})]
        emptied == {k \in Keys : left[k] = 0 /\ \E p \in gone : p.key = k}
    IN /\ tracked' = tracked \ gone
       /\ shared' = [k \in Keys |-> IF k \in emptied THEN NoBuild
                                    ELSE [shared[k] EXCEPT !.refs = left[k]]]
       /\ dirs' = dirs \ ({<<"build", k>> : k \in emptied}
                            \cup {<<"merge", p.item, p.try>> :
                                    p \in {q \in gone : q.merged}})

\* prepareTestAsync: the script of the test is read; a place whose script is missing
\* stays tracked.
Prepared(i, result) ==
    /\ item[i].step = "preparing"
    /\ To(i, IF result = "ok" THEN "deploying" ELSE result)
    /\ Counted(result)
    /\ UNCHANGED <<mode, local, phase, aggregatedVars, shared, tracked, dirs, studios,
                   exit>>

\* deployBuiltPlaceAsync in the cloud: the files are given back after the upload.
Uploaded(i, result) ==
    /\ item[i].step = "deploying" /\ mode = "test" /\ ~local
    /\ To(i, IF result = "ok" THEN "running" ELSE result)
    /\ IF result = "ok" THEN Release({Held(i)}) ELSE UNCHANGED <<tracked, shared, dirs>>
    /\ Counted(result)
    /\ UNCHANGED <<mode, local, phase, aggregatedVars, studios, exit>>

\* The same in Studio, which keeps them; it is known once it has connected.
OpenedInStudio(i, result) ==
    /\ item[i].step = "deploying" /\ local
    /\ To(i, IF result = "ok" THEN "running" ELSE result)
    /\ studios' = IF result = "ok" THEN studios \cup {<<"item", i>>} ELSE studios
    /\ Counted(result)
    /\ UNCHANGED <<mode, local, phase, aggregatedVars, shared, tracked, dirs, exit>>

\* A deploy uploads its place, gives it back, and tests that it boots if it was merged
\* with a base place.
Shipped(i, result) ==
    /\ item[i].step = "deploying" /\ mode = "deploy"
    /\ item' = [item EXCEPT ![i] =
                  IF result # "ok" THEN [@ EXCEPT !.step = result]
                  ELSE IF i \in NeedsMerge THEN [@ EXCEPT !.step = "smoke"]
                  ELSE [@ EXCEPT !.step = "done", !.verdict = "passed"]]
    /\ IF result = "ok" THEN Release({Held(i)}) ELSE UNCHANGED <<tracked, shared, dirs>>
    /\ Counted(result)
    /\ UNCHANGED <<mode, local, phase, aggregatedVars, studios, exit>>

Ends(i, result, verdict) ==
    item' = [item EXCEPT ![i] =
               IF result = "ok" THEN [@ EXCEPT !.step = "done", !.verdict = verdict]
               ELSE [@ EXCEPT !.step = result]]

\* executePreparedTestAsync in the cloud, and the smoke test of a deploy: the script
\* ends with a verdict, or the call fails; there is nothing to release.
RanInCloud(i, result, verdict) ==
    /\ item[i].step = "running" /\ ~local
    /\ Ends(i, result, verdict)
    /\ Counted(result)
    /\ UNCHANGED <<mode, local, phase, aggregatedVars, shared, tracked, dirs, studios,
                   exit>>

SmokeTested(i, result, verdict) ==
    /\ item[i].step = "smoke"
    /\ Ends(i, result, verdict)
    /\ Counted(result)
    /\ UNCHANGED <<mode, local, phase, aggregatedVars, shared, tracked, dirs, studios,
                   exit>>

\* In Studio an error is a verdict; the release stops Studio and gives the place back.
RanInStudio(i, verdict) ==
    /\ item[i].step = "running" /\ local
    /\ Ends(i, "ok", verdict)
    /\ studios' = studios \ {<<"item", i>>}
    /\ Release({Held(i)})
    /\ UNCHANGED <<mode, local, phase, aggregatedVars, failures, exit>>

\* A package of an aggregated run takes its result out of the execution that is over.
Judged(i, verdict) ==
    /\ item[i].step = "judging"
    /\ Ends(i, "ok", verdict)
    /\ UNCHANGED <<mode, local, phase, aggregatedVars, shared, tracked, dirs, studios,
                   failures, exit>>

\* What an item throws is its failure, but that a test which failed for a transient
\* reason starts over, once, with a build of a new name.
ItemFailed(i) ==
    /\ item[i].step \in {"failed", "transient"}
    /\ IF item[i].step = "transient" /\ mode = "test" /\ item[i].try = 1
         THEN StartBuild([item EXCEPT ![i].try = 2], i, <<i, 2>>)
         ELSE /\ item' = [item EXCEPT ![i].step = "done", ![i].verdict = "failed"]
              /\ UNCHANGED shared
    /\ UNCHANGED <<mode, local, phase, aggregatedVars, tracked, dirs, studios,
                   failures, exit>>

\* Mutant: watches are registered whatever came of the items.
ItemsOverRegister ==
    /\ phase = "items"
    /\ \A i \in Items : item[i].step = "done"
    /\ LET failed == \E i \in Items : item[i].verdict = "failed"
       IN /\ exit' = [exit EXCEPT !.code = IF failed THEN 1 ELSE 0]
          /\ phase' = IF mode = "deploy" THEN "register" ELSE "dispose"
    /\ UNCHANGED <<mode, local, aggregatedVars, itemVars, dirs, studios, failures>>

\* All items have ended: a failure is the exit code, and keeps a deploy from
\* registering its watches.
ItemsOver ==
    /\ phase = "items"
    /\ \A i \in Items : item[i].step = "done"
    /\ LET failed == \E i \in Items : item[i].verdict = "failed"
       IN /\ exit' = [exit EXCEPT !.code = IF failed THEN 1 ELSE 0]
          /\ phase' = IF mode = "deploy" /\ ~failed THEN "register" ELSE "dispose"
    /\ UNCHANGED <<mode, local, aggregatedVars, itemVars, dirs, studios, failures>>

Registered(result) ==
    /\ phase = "register"
    /\ exit' = IF result = "ok" THEN [exit EXCEPT !.registered = TRUE]
               ELSE [exit EXCEPT !.code = 1]
    /\ phase' = "dispose"
    /\ Counted(result)
    /\ UNCHANGED <<mode, local, aggregatedVars, itemVars, dirs, studios>>

\* disposeAsync: the uploads and Studios that are known are released, then every place
\* that is still tracked, and the combined build.
Dispose ==
    /\ phase = "dispose"
    /\ phase' = "end"
    /\ tracked' = {}
    /\ shared' = [k \in Keys |-> NoBuild]
    /\ dirs' = dirs \ ({<<"combined">>}
                         \cup {<<"build", k>> : k \in {b \in Keys : shared[b].is = "built"}}
                         \cup {<<"merge", p.item, p.try>> :
                                 p \in {q \in tracked : q.merged}})
    /\ studios' = {}
    /\ UNCHANGED <<mode, local, aggregatedVars, item, failures, exit>>

-----------------------------------------------------------------------------
BatchStep ==
    \/ RunBatch \/ RetryBatch \/ BatchOver
    \/ \E result \in Results :
         \/ CombinedBuilt(result)
         \/ \E c \in Chunks : ChunkDeployed(c, result) \/ ChunkRan(c, result)

ItemStep ==
    \/ \E i \in Items : StartItem(i) \/ Tracked(i) \/ ItemFailed(i)
    \/ \E result \in Results :
         \/ \E k \in Keys : BuildEnded(k, result)
         \/ \E i \in Items :
              \/ Merged(i, result) \/ Prepared(i, result) \/ Uploaded(i, result)
              \/ OpenedInStudio(i, result) \/ Shipped(i, result)
              \/ \E verdict \in {"passed", "failed"} :
                   RanInCloud(i, result, verdict) \/ SmokeTested(i, result, verdict)
    \/ \E i \in Items, verdict \in {"passed", "failed"} :
         RanInStudio(i, verdict) \/ Judged(i, verdict)
    \/ ItemsOver
    \/ \E result \in Results : Registered(result)

BatchNext == BatchStep \/ ItemStep \/ Dispose

BatchSpec == BatchInit /\ [][BatchNext]_batchVars

-----------------------------------------------------------------------------
\* The files a place is made of exist for as long as anybody may use the place, a
\* shared build counts its users, the places made from it and the items waiting for
\* it, and after a run each temporary directory left is one of a step that failed,
\* and no Studio it had started is.
BuildsKept ==
    /\ \A p \in tracked :
         /\ <<"build", p.key>> \in dirs
         /\ p.merged => <<"merge", p.item, p.try>> \in dirs
    /\ \A k \in Keys :
         shared[k].refs = Cardinality({p \in tracked : p.key = k})
                            + Cardinality({i \in Items : item[i].step = "building"
                                                         /\ BuildKey(i) = k})
    /\ phase = "end" => studios = {} /\ Cardinality(dirs) <= failures

\* The exit code of a run is zero only if every package has passed, after all that an
\* aggregated run had to execute; watches are registered only after a clean deploy.
ExitTells ==
    /\ exit.registered => \A i \in Items : item[i].verdict = "passed"
    /\ phase = "end" /\ exit.code = 0 =>
         /\ \A i \in Items : item[i].verdict = "passed"
         /\ mode = "aggregated" => AllDone(chunk)
=============================================================================
