---------------------------- MODULE MCDeployBundles ---------------------------
(* Checkouts, bundles and what DeployBundles has to make of them, for the  *)
(* run of MCBatch.                                                         *)
EXTENDS DeployBundles
LOCAL INSTANCE SequencesExt

Place(name, id, is) == [name |-> name, placeId |-> id, template |-> TRUE, valid |-> is]

\* Two targets: without a file, with a place that is wrong, with the other target only,
\* one place, places with names, without, and with one that a bundle may not hold.
Configurations(id) ==
    LET hub == Place("hub", id + 1, TRUE)
        Of(places) == [file |-> "read", targets |-> [t \in {"test"} |-> places]]
    IN {[file |-> "missing", targets |-> <<>>],
        [file |-> "read", targets |-> [t \in {"test", "integration"} |->
           IF t = "test" THEN <<hub>> ELSE <<Place(None, id, FALSE)>>]],
        [file |-> "read", targets |-> [t \in {"integration"} |-> <<hub>>]],
        Of(<<hub>>),
        Of(<<hub, Place("lobby", id + 2, TRUE)>>),
        Of(<<Place(None, id + 3, TRUE), [Place(None, id + 4, TRUE)
                                           EXCEPT !.template = FALSE]>>),
        Of(<<hub, Place("odd", id + 5, TRUE)>>)}

\* A run for a pull request, on a merge commit; a payload that is damaged; and a branch.
Environments ==
    LET head(sha) == [commit |-> sha, version |-> sha, branch |-> "HEAD"]
    IN {[event |-> "pull_request", payload |-> [sha |-> "head", ref |-> "topic"],
         head |-> head("merge")],
        [event |-> "pull_request", payload |-> [sha |-> "invalid", ref |-> None],
         head |-> head("merge")],
        [event |-> "push", payload |-> [sha |-> None, ref |-> None],
         head |-> [head("main") EXCEPT !.branch = "main"]]}
Fork == CHOOSE e \in Environments : e.payload.sha = "head"
Main == CHOOSE e \in Environments : e.event = "push"

\* A checkout of two packages, with ids that no number attribute keeps exactly.
Checkouts(env, id) ==
    {[packages |-> << [name |-> "p", version |-> "1", config |-> a],
                      [name |-> "q", version |-> "2", config |-> b] >>,
      changed |-> {"q"}, env |-> env] :
       a \in Configurations(id), b \in Configurations(id + 10)}

Selectors == {[target |-> t, place |-> n] : t \in {"test", "integration"},
                                            n \in {None, "hub"}}
DeployArgs(given, selector, limit, commit) ==
    [given |-> given, selector |-> selector, limit |-> limit, bundleCommit |-> commit]
FromBundle(selector) == DeployArgs({"bundle"}, selector, 0, None)
Whole(target) == [target |-> target, place |-> None]

Names(places) == [i \in DOMAIN places |-> places[i].name]
Injective(s) == \A i, j \in DOMAIN s : s[i] = s[j] => i = j

\* A bundle can be read if it is of a whole target and its places are few, and have
\* different names, none odd. It then leads to what a run of the checkout it was built
\* from would have deployed: the same builds to the same places in the same order, saying
\* the same of themselves; except that a place which a limit has parted from one of the
\* same name is deployed where the last of that name is.
BundleIsTheRun ==
    \A env \in Environments, given \in SUBSET {"all"}, limit \in 0 .. 2 :
    \A built \in Checkouts(env, 100), selector \in Selectors :
      LET args == DeployArgs(given, selector, limit, None)
          run == DeployRun(args, built, Refused)
          archive == WriteBundle(built, [args EXCEPT !.given = @ \cup {"deploy"}])
          readable == /\ selector.place = None
                      /\ Len(run.places) <= MaxPlaces
                      /\ Injective(Names(run.places))
                      /\ \A i \in DOMAIN run.places :
                           run.places[i].name # <<run.places[i].name[1], "odd">>
          all == DiscoverTargets(built, TRUE, selector)
          parted == \E i, j \in DOMAIN all :
                      /\ i # j /\ all[i].name = all[j].name
                      /\ all[i].name \in Range(Names(run.places))
          later == DeployRun(FromBundle(selector), [built EXCEPT !.env = Main],
                             ReadPrebuiltDeployBundle(archive))
      IN IF ~readable THEN later = Refused
         ELSE IF ~parted THEN later = run
         ELSE limit > 0 /\ Names(later.places) = Names(run.places)

\* A bundle of tests lists what a run of the tests would test, and is not deployed.
TestsAreTheRun ==
    \A built \in Checkouts(Main, 100), given \in SUBSET {"all"}, limit \in 0 .. 2 :
      LET args == DeployArgs(given, Whole("test"), limit, None)
          archive == WriteBundle(built, [args EXCEPT !.given = @ \cup {"test"}])
      IN /\ FlattenSeq(ManifestOf(archive).places) = Names(TestRun(args, built).places)
         /\ ReadPrebuiltDeployBundle(archive) = Refused

\* Read by a checkout with other packages, every place of a bundle goes where that one
\* puts the place of its name, or nothing is deployed; with the commit or the target of
\* another build nothing is either. The build says its own commit, and its place's id.
StaysHome ==
    \A built \in Checkouts(Fork, 100), home \in Checkouts(Main, 200) :
      LET archive == WriteDeployBundle(built, DeployArgs({"all"}, Whole("test"), 0, None))
          bundle == ReadPrebuiltDeployBundle(archive)
          run == DeployRun(FromBundle(Whole("test")), home, bundle)
          here == DiscoverTargets(home, TRUE, Whole("test"))
          known == {<<here[i].name, here[i].target>> : i \in DOMAIN here}
          Asked(target, commit) ==
            DeployRun(DeployArgs({"bundle", "bundleCommit"}, Whole(target), 0, commit),
                      home, bundle)
      IN bundle # Refused =>
           /\ run = Refused <=> ~(Range(Names(bundle.places)) \subseteq {k[1] : k \in known})
           /\ run # Refused =>
                /\ Names(run.places) = Names(bundle.places)
                /\ \A i \in DOMAIN run.places :
                     LET place == run.places[i] IN
                     /\ <<place.name, place.target>> \in known
                     /\ place.built = [from |-> Fork, of |-> place.name]
                     /\ place.attributes.Version = "head"
                     /\ RoundTrip(place.attributes.PlaceId) = place.target.placeId
           /\ Asked("test", "head") = run
           /\ Asked("test", "main") = Refused
           /\ Asked("integration", "head") = Refused

\* The archive with the entry at i as given.
Edited(archive, i, entry) == [archive EXCEPT ![i] = entry]

\* An archive that lost, repeats or has changed an entry is refused, and so is one whose
\* manifest is of another kind or lists a file or a name twice; in another order it
\* is read as before.
DamageIsRefused ==
    \A built \in Checkouts(Fork, 100) :
      LET args == DeployArgs({"all"}, Whole("test"), 0, None)
          archive == WriteDeployBundle(built, args)
          bundle == ReadPrebuiltDeployBundle(archive)
          manifest == ManifestOf(archive)
          places == manifest.places
          With(other) == Edited(archive, 1, File(<<"manifest", 0>>, other))
          Refuses(other) == ReadPrebuiltDeployBundle(other) = Refused
      IN bundle # Refused =>
           /\ \A i \in DOMAIN archive :
                /\ Refuses(SubSeq(archive, 1, i - 1) \o SubSeq(archive, i + 1, Len(archive)))
                /\ Refuses(Append(archive, archive[i]))
                /\ Refuses(Edited(archive, i, [archive[i] EXCEPT !.type = "SymbolicLink"]))
                /\ Refuses(Edited(archive, i, [archive[i] EXCEPT !.large = TRUE]))
                /\ \A j \in DOMAIN archive :
                     ReadPrebuiltDeployBundle(Edited(Edited(archive, i, archive[j]),
                                                     j, archive[i])) = bundle
           /\ \A i, j \in DOMAIN places : i # j =>
                /\ Refuses(With([manifest EXCEPT !.places[i].file = places[j].file]))
                /\ Refuses(With([manifest EXCEPT !.places[i].project = places[j].file]))
                /\ Refuses(With([manifest EXCEPT !.places[i].name = places[j].name]))
           /\ Refuses(With([manifest EXCEPT !.kind = "tests"]))
           /\ Refuses(With([manifest EXCEPT !.git.version = "invalid"]))

\* A single deploy takes the selector that its refusal suggests, and a target it chooses
\* by itself is one of the configuration.
SelectorsNarrow ==
    \A built \in Checkouts(Main, 100), selector \in Selectors :
      LET config == built.packages[1].config
          narrowed == NarrowTo(config, selector)
      IN /\ narrowed # Refused => ResolveSingleDeployTarget(config, narrowed) # Refused
         /\ ResolveDefaultTargetName(config) \in {None} \cup DOMAIN config.targets
=============================================================================
