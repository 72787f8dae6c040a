---------------------------- MODULE DeployBundles -----------------------------
(* Which places a batch deploy deploys, and what it deploys there: from    *)
(* the packages of a checkout, or from a bundle another checkout has built *)
(* without an API key and this one reads without trusting it               *)
(* (nevermore-cli/src/commands/batch-command, utils/batch, utils/bundle,   *)
(* utils/deploy; nevermore-deploy/src/deploy-config.ts).                   *)
(*                                                                         *)
(* A place is [name, placeId, template, valid], a configuration            *)
(* [file, targets], a package [name, config, version], a checkout          *)
(* [packages, changed, env]; a selector is a target, or a target and the   *)
(* name of one of its places. Whatever throws gives Refused.               *)
EXTENDS Naturals, Sequences, FiniteSets
LOCAL INSTANCE SequencesExt

CONSTANTS
    MaxPlaces,      \* MAX_PLACES of a bundle
    OddNames        \* names of places that PACKAGE_NAME_PATTERN does not allow

None == "none"
Refused == [refused |-> TRUE]

-----------------------------------------------------------------------------
(* Targets of a configuration.                                             *)

\* loadDeployConfigAsync: one place that is wrong, or a target without places, spoils
\* the whole file.
Loads(config) ==
    /\ config.file = "read"
    /\ \A t \in DOMAIN config.targets :
         /\ config.targets[t] # <<>>
         /\ \A i \in DOMAIN config.targets[t] : config.targets[t][i].valid

\* resolveDeployTargetPlaces: the places a selector stands for, none where it throws.
ResolveDeployTargetPlaces(config, selector) ==
    IF selector.target \notin DOMAIN config.targets THEN <<>>
    ELSE LET places == config.targets[selector.target]
             named == SelectSeq(places, LAMBDA p : p.name = selector.place)
         IN IF selector.place = None THEN places
            ELSE IF named = <<>> THEN <<>> ELSE <<Head(named)>>

\* resolveSingleDeployTarget: a command for one place takes a selector of one place.
ResolveSingleDeployTarget(config, selector) ==
    LET places == ResolveDeployTargetPlaces(config, selector)
    IN IF Len(places) = 1 THEN Head(places) ELSE Refused

\* The selector that its error suggests, if a place has a name to select it by.
NarrowTo(config, selector) ==
    LET named == SelectSeq(ResolveDeployTargetPlaces(config, selector),
                           LAMBDA p : p.name # None)
    IN IF named = <<>> THEN Refused ELSE [selector EXCEPT !.place = Head(named).name]

\* resolveDefaultTargetName: the target of a run that named none.
ResolveDefaultTargetName(config) ==
    LET available == DOMAIN config.targets
    IN IF Cardinality(available) = 1 THEN CHOOSE t \in available : TRUE
       ELSE IF "integration" \in available THEN "integration"
       ELSE IF "test" \in available THEN "test" ELSE None

-----------------------------------------------------------------------------
(* The places of a run.                                                    *)

\* filterByTargetAsync: a package without a configuration, with one that does not
\* load or without the target is left out.
FilterByTarget(packages, selector) ==
    LET has(pkg) == /\ Loads(pkg.config)
                    /\ ResolveDeployTargetPlaces(pkg.config, selector) # <<>>
        found == SelectSeq(packages, has)
    IN [i \in DOMAIN found |->
          [name |-> found[i].name,
           version |-> found[i].version,
           places |-> ResolveDeployTargetPlaces(found[i].config, selector)]]

ManifestPlaceInfo(place) == [name |-> place.name, placeId |-> place.placeId]

\* flattenToBatchTargets: one target per place, named after the package, and after the
\* place too if the package has several and that one has a name.
FlattenToBatchTargets(packages) ==
    LET Fanned(pkg) ==
          [i \in DOMAIN pkg.places |->
             [name |-> IF Len(pkg.places) = 1 \/ pkg.places[i].name = None
                         THEN <<pkg.name>> ELSE <<pkg.name, pkg.places[i].name>>,
              version |-> pkg.version,
              target |-> pkg.places[i],
              manifestPlaces |-> [j \in DOMAIN pkg.places |->
                                    ManifestPlaceInfo(pkg.places[j])]]]
    IN FlattenSeq([p \in DOMAIN packages |-> Fanned(packages[p])])

\* discoverAllTargetPackagesAsync, discoverChangedTargetPackagesAsync: all packages, or
\* those pnpm takes to be changed.
DiscoverTargets(checkout, all, selector) ==
    LET packages == SelectSeq(checkout.packages,
                              LAMBDA pkg : all \/ pkg.name \in checkout.changed)
    IN FlattenToBatchTargets(FilterByTarget(packages, selector))

Limited(targets, limit) ==
    IF limit > 0 /\ limit < Len(targets) THEN SubSeq(targets, 1, limit) ELSE targets

\* discoverDeployBatchTargetsAsync: what a deploy deploys and a bundle bundles.
DiscoverDeployBatchTargets(checkout, args) ==
    Limited(DiscoverTargets(checkout, "all" \in args.given, args.selector), args.limit)

\* _requireScriptTemplate
RequireScriptTemplate(targets) == SelectSeq(targets, LAMBDA t : t.target.template)

\* discoverAllTestableBatchTargetsAsync, discoverChangedTestableBatchTargetsAsync: the
\* places of the target "test" that have a script.
DiscoverTestable(checkout, args) ==
    Limited(RequireScriptTemplate(DiscoverTargets(checkout, "all" \in args.given,
                                                  [target |-> "test", place |-> None])),
            args.limit)

-----------------------------------------------------------------------------
(* What a build says of itself.                                            *)

\* gatherGitDeployInfo: the head of the pull request if the run is for one and its
\* payload can be trusted, what git says otherwise; a detached HEAD is no branch.
GatherGitDeployInfo(env) ==
    IF /\ env.event \in {"pull_request", "pull_request_target"}
       /\ env.payload.sha \notin {None, "invalid"}
      THEN [commit |-> env.payload.sha, version |-> env.payload.sha,
            branch |-> env.payload.ref]
      ELSE [env.head EXCEPT !.branch = IF @ = "HEAD" THEN None ELSE @]

Text(id) == [text |-> TRUE, value |-> id]

\* What comes back of an attribute of a saved place: a number only as a float, which
\* for the ids of the instances moves in steps of eight.
RoundTrip(attribute) ==
    IF attribute.text THEN attribute.value ELSE (attribute.value \div 8) * 8

\* buildDeployMetadataAttributes
BuildDeployMetadataAttributes(git, selector, version, target) ==
    [Deployed |-> TRUE, Target |-> selector, PackageVersion |-> version,
     PlaceId |-> Text(target.target.placeId), Places |-> target.manifestPlaces,
     Commit |-> git.commit, Version |-> git.version, Branch |-> git.branch]

\* The place that is built from a checkout for a target.
Built(checkout, target) == [from |-> checkout.env, of |-> target.name]

-----------------------------------------------------------------------------
(* Bundles of places. An archive is a sequence of entries [type, name,     *)
(* large, content]; the manifest is an entry of that name.                 *)

\* The options of batch bundle: one kind of bundle, and the options of that kind.
BundleOptionsOk(given) ==
    /\ ("test" \in given) # ("deploy" \in given)
    /\ "target" \in given => "deploy" \in given
    /\ "maxPlaceMb" \in given => "test" \in given

File(name, content) ==
    [type |-> "File", name |-> name, large |-> FALSE, content |-> content]

\* writePrebuiltDeployBundleAsync: the manifest, and two files for each place.
WritePrebuiltDeployBundle(selector, git, places) ==
    LET manifest ==
          [formatVersion |-> 1, kind |-> "deploy", target |-> selector, git |-> git,
           places |-> [i \in DOMAIN places |->
                         [name |-> places[i].name, file |-> <<"place", i>>,
                          project |-> <<"project", i>>,
                          packageVersion |-> places[i].packageVersion]]]
        Files(i) == <<File(<<"place", i>>, places[i].rbxl),
                      File(<<"project", i>>, places[i].project)>>
    IN <<File(<<"manifest", 0>>, manifest)>>
         \o FlattenSeq([i \in DOMAIN places |-> Files(i)])

\* _writeDeployBundleAsync: the places are built without their base place; no place at
\* all is a bundle too.
WriteDeployBundle(checkout, args) ==
    LET targets == DiscoverDeployBatchTargets(checkout, args)
    IN WritePrebuiltDeployBundle(
         args.selector, GatherGitDeployInfo(checkout.env),
         [i \in DOMAIN targets |->
            [name |-> targets[i].name, rbxl |-> Built(checkout, targets[i]),
             project |-> "project", packageVersion |-> targets[i].version]])

\* _writeTestBundleAsync: the combined places of what is testable (CombinedPlaces).
WriteTestBundle(checkout, args) ==
    LET tested == DiscoverTestable(checkout, args)
        packages == [i \in DOMAIN tested |-> tested[i].name]
    IN <<File(<<"manifest", 0>>, [formatVersion |-> 1, kind |-> "tests",
                                  places |-> <<packages>>])>>
         \o (IF tested = <<>> THEN <<>> ELSE <<File(<<"place", 1>>, packages)>>)

\* batch bundle: a dry run writes nothing.
WriteBundle(checkout, args) ==
    IF ~BundleOptionsOk(args.given) THEN Refused
    ELSE IF "dryrun" \in args.given THEN <<>>
    ELSE IF "deploy" \in args.given THEN WriteDeployBundle(checkout, args)
    ELSE WriteTestBundle(checkout, args)

Manifests(archive) == {i \in DOMAIN archive : archive[i].name[1] = "manifest"}
Entries(archive) == {archive[i].name : i \in DOMAIN archive \ Manifests(archive)}

\* What a bundle allows: places and projects with a number of up to three digits.
WithinLimits(entries) ==
    /\ entries \subseteq {"place", "project"} \X (0 .. 999)
    /\ Cardinality(entries) <= 2 * MaxPlaces

\* readUntrustedTarAsync: regular files only, none too large, the manifest once, no file
\* twice, and what the bundle allows.
ReadableTar(archive) ==
    /\ \A i \in DOMAIN archive : archive[i].type = "File" /\ ~archive[i].large
    /\ Cardinality(Manifests(archive)) = 1
    /\ Cardinality(Entries(archive)) + 1 = Len(archive)
    /\ WithinLimits(Entries(archive))

ManifestOf(archive) == archive[CHOOSE i \in Manifests(archive) : TRUE].content
ContentOf(archive, name) ==
    archive[CHOOSE i \in DOMAIN archive : archive[i].name = name].content

\* _checkKind: a kind may be missing.
KindOk(manifest, expected) == manifest.kind \in {None, expected}

\* _parseManifest: the target is a name, never a narrower selector; every file held is
\* listed, once, as what it is.
AcceptsDeployManifest(manifest, held) ==
    LET places == manifest.places IN
    /\ manifest.formatVersion = 1
    /\ KindOk(manifest, "deploy")
    /\ manifest.target.place = None
    /\ Len(places) <= MaxPlaces
    /\ 2 * Len(places) = Cardinality(held)
    /\ "invalid" \notin {manifest.git.commit, manifest.git.version}
    /\ \A i \in DOMAIN places :
         /\ Len(places[i].name) = 2 => places[i].name[2] \notin OddNames
         /\ places[i].packageVersion # "invalid"
         /\ places[i].file \in held /\ places[i].file[1] = "place"
         /\ places[i].project \in held /\ places[i].project[1] = "project"
    /\ \A i, j \in DOMAIN places :
         places[i].name = places[j].name \/ places[i].file = places[j].file
           \/ places[i].project = places[j].project => i = j

\* _parseGit: a branch is a label only, one with a strange name is dropped.
ParseGit(git) == [git EXCEPT !.branch = IF @ = "invalid" THEN None ELSE @]

\* _validateProjectFileAsync: a project is a file with a tree.
ProjectOk(content) == content = "project"

\* readPrebuiltDeployBundleAsync
ReadPrebuiltDeployBundle(archive) ==
    LET manifest == ManifestOf(archive)
        places == manifest.places
    IN IF \/ ~ReadableTar(archive)
          \/ ~AcceptsDeployManifest(manifest, Entries(archive))
          \/ \E i \in DOMAIN places : ~ProjectOk(ContentOf(archive, places[i].project))
         THEN Refused
       ELSE [target |-> manifest.target, git |-> ParseGit(manifest.git),
             places |-> [i \in DOMAIN places |->
                           [name |-> places[i].name,
                            rbxl |-> ContentOf(archive, places[i].file),
                            packageVersion |-> places[i].packageVersion]]]

-----------------------------------------------------------------------------
(* The runs.                                                               *)

\* The options of batch deploy that go together: a bundle is deployed as a whole, and
\* is no baseline of a watch.
DeployOptionsOk(given) ==
    /\ "bundleCommit" \in given => "bundle" \in given
    /\ "bundle" \in given => given \cap {"all", "limit", "watch"} = {}

\* The options of batch test: no script of one's own, and a bundle is run as a whole.
TestOptionsOk(given) ==
    /\ given \cap {"scriptText", "scriptFile"} = {}
    /\ "bundle" \in given => given \cap {"all", "limit", "noAggregated"} = {}

\* _runPackagesAsync of batch test: what it tests.
TestRun(args, checkout) ==
    IF ~TestOptionsOk(args.given) THEN Refused
    ELSE [places |-> IF "dryrun" \in args.given THEN <<>>
                     ELSE DiscoverTestable(checkout, args)]

\* Mutant: the places of a bundle are matched in the order of this checkout's targets.
ResolveInOrder(bundle, checkout) ==
    LET known == DiscoverTargets(checkout, TRUE, bundle.target)
    IN IF Len(known) < Len(bundle.places) THEN Refused
       ELSE [targets |-> SubSeq(known, 1, Len(bundle.places))]

\* _resolveBundleTargetsAsync: each place of the bundle by the target that has its name
\* in this checkout, the last one if several have.
ResolveBundleTargets(bundle, checkout) ==
    LET known == DiscoverTargets(checkout, TRUE, bundle.target)
        Of(name) == {i \in DOMAIN known : known[i].name = name}
        Latest(name) == CHOOSE i \in Of(name) : \A j \in Of(name) : j <= i
    IN IF \E p \in DOMAIN bundle.places : Of(bundle.places[p].name) = {} THEN Refused
       ELSE [targets |-> [p \in DOMAIN bundle.places |->
                            known[Latest(bundle.places[p].name)]]]

\* _runDeployAsync: a bundle has to be of the commit and the target that were asked for.
BatchTargetsOfRun(args, checkout, bundle) ==
    IF "bundle" \notin args.given
      THEN [targets |-> DiscoverDeployBatchTargets(checkout, args)]
    ELSE IF bundle = Refused THEN Refused
    ELSE IF \/ args.bundleCommit \notin {None, bundle.git.version}
            \/ args.selector # bundle.target
      THEN Refused
    ELSE ResolveBundleTargets(bundle, checkout)

\* _runDeployAsync: what is deployed for each target, and what the build says. A place
\* of a bundle says the commit it was built from, not this checkout's.
DeployRun(args, checkout, bundle) ==
    LET run == BatchTargetsOfRun(args, checkout, bundle)
        git == IF "bundle" \in args.given THEN bundle.git
                                          ELSE GatherGitDeployInfo(checkout.env)
        Prebuilt(target) ==
          IF "bundle" \notin args.given THEN {}
          ELSE {place \in Range(bundle.places) : place.name = target.name}
        Build(target) ==
          IF Prebuilt(target) = {}
            THEN [rbxl |-> Built(checkout, target), packageVersion |-> target.version]
            ELSE CHOOSE place \in Prebuilt(target) : TRUE
        Deployed(target) ==
          [target |-> target.target, name |-> target.name, built |-> Build(target).rbxl,
           attributes |-> BuildDeployMetadataAttributes(
                            git, args.selector, Build(target).packageVersion, target)]
    IN IF ~DeployOptionsOk(args.given) \/ run = Refused THEN Refused
       ELSE [places |-> [t \in DOMAIN run.targets |-> Deployed(run.targets[t])]]
=============================================================================
