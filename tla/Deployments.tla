----------------------------- MODULE Deployments -----------------------------
(* What a checkout knows of the base places its places are merged onto:    *)
(* pins in deploy.nevermore.json, resolved versions in the lock beside it, *)
(* and the monitors that `--watch` registers. Commands run one after       *)
(* another: `deploy run`, `batch deploy`, `deploy version upgrade` and     *)
(* `promote` (nevermore-cli/src/commands, nevermore-deploy/src). The       *)
(* artists who edit base places, Open Cloud and the watch service are      *)
(* external.                                                               *)
EXTENDS Naturals, FiniteSets
LOCAL INSTANCE FiniteSetsExt

CONSTANTS Places,        \* places of all targets
          TargetOf(_),   \* the target a place belongs to
          BaseOf(_),     \* its base place
          Watched,       \* places with a "watch" field
          FirstPins,     \* the pins the config may start with
          Edits,         \* the pins a user may write
          WatchedTarget, \* the target whose watches are registered
          MaxMoves,      \* new versions of base places
          MaxCommands,   \* commands and edits
          MaxFaults      \* uploads, lookups, writes and requests that fail

\* basePlace.version: a keyword, a number or nothing.
Pins == [as : {"absent", "published", "saved", "number"}, at : Nat]

ASSUME DeploymentsAssumption ==
    /\ Watched \subseteq Places
    /\ FirstPins \subseteq [Places -> Pins]
    /\ Edits \subseteq Pins
    /\ MaxMoves \in Nat /\ MaxCommands \in Nat /\ MaxFaults \in Nat

VARIABLES head,      \* external: the newest version of each base place, by kind
          pin,       \* basePlace.version of each place
          lock,      \* the lock file
          shipped,   \* the version each place was last deployed from
          monitors,  \* external: the watches of each monitor
          run,       \* the deploy that runs
          healed,    \* since the last complete upgrade, only deploys have run
          commands, faults

vars == <<head, pin, lock, shipped, monitors, run, healed, commands, faults>>

None == 0
Kinds == {"published", "saved"}
Bases == {BaseOf(p) : p \in Places}
Targets == {TargetOf(p) : p \in Places}
Of(target) == {p \in Places : TargetOf(p) = target}
Names == {"main", "branch", "dryrun"}

NoEntry == [version |-> None, from |-> "none"]
NoRun == [is |-> "none"]

Init ==
    /\ head = [b \in Bases |-> [kind \in Kinds |-> 1]]
    /\ pin \in FirstPins
    /\ lock = [b \in Bases |-> NoEntry]
    /\ shipped = [p \in Places |-> None]
    /\ monitors = [n \in Names |-> {}]
    /\ run = NoRun
    /\ healed = FALSE
    /\ commands = 0
    /\ faults = 0

Moves == MapThenSumSet(LAMBDA b : head[b].published + head[b].saved - 2, Bases)
Newest(b) == IF head[b].published > head[b].saved THEN head[b].published
             ELSE head[b].saved

\* An artist saves or publishes a base place.
Edited(b, kind) ==
    /\ Moves < MaxMoves
    /\ head' = [head EXCEPT ![b][kind] = Newest(b) + 1]
    /\ UNCHANGED <<pin, lock, shipped, monitors, run, healed, commands, faults>>

MayFail(failed) ==
    IF failed THEN faults < MaxFaults /\ faults' = faults + 1 ELSE UNCHANGED faults

\* An omitted pin follows what is published; a number is its own answer.
Number(n) == [as |-> "number", at |-> n]
IsNumber(v) == v.as = "number"
VersionType(v) == IF v.as = "absent" THEN "published" ELSE v.as

-----------------------------------------------------------------------------
(* BasePlaceResolver.                                                      *)
Key(p) == <<BaseOf(p), VersionType(pin[p])>>

\* peekAsync
Peek(file, p) ==
    IF IsNumber(pin[p]) THEN pin[p].at
    ELSE IF file[BaseOf(p)].from = VersionType(pin[p]) THEN file[BaseOf(p)].version
    ELSE None

Step(p, is, version) ==
    run' = [run EXCEPT !.step[p] = is, !.got[p] = version]

\* resolveAsync up to the lookup: a number or an entry of the right kind answers,
\* unless a refresh must not use it; a frozen lock answers or fails.
Resolve(p) ==
    /\ run.is = "deploy" /\ run.step[p] = "waiting"
    /\ LET entry == run.lock[BaseOf(p)]
       IN IF IsNumber(pin[p]) THEN Step(p, "resolved", pin[p].at)
          ELSE IF entry.from = VersionType(pin[p]) /\ ~run.refresh
            THEN Step(p, "resolved", entry.version)
          ELSE IF run.frozen THEN Step(p, "failed", None)
          ELSE run' = [run EXCEPT !.step[p] = "asking", !.entry[p] = entry]
    /\ UNCHANGED <<head, pin, lock, shipped, monitors, healed, commands, faults>>

\* Mutant: only the version counts.
DiffersByVersion(entry, version, kind) == entry.version # version

\* The entry that changes the lock: its version or its kind is another one.
Differs(entry, version, kind) == entry # [version |-> version, from |-> kind]

\* Mutant: lookups are not shared.
AnswerFresh(p, failed) ==
    /\ run.is = "deploy" /\ run.step[p] = "asking"
    /\ MayFail(failed)
    /\ LET kind == VersionType(pin[p])
           version == head[BaseOf(p)][kind]
           claimed == run.claims[BaseOf(p)]
       IN IF failed THEN Step(p, "failed", None)
          ELSE IF claimed \notin {"none", kind} THEN Step(p, "failed", None)
          ELSE run' = [run EXCEPT
                 !.step[p] = "resolved", !.got[p] = version,
                 !.claims[BaseOf(p)] = kind,
                 !.lock[BaseOf(p)] = IF Differs(run.entry[p], version, kind)
                                       THEN [version |-> version, from |-> kind] ELSE @,
                 !.dirty = @ \/ Differs(run.entry[p], version, kind)]
    /\ UNCHANGED <<head, pin, lock, shipped, monitors, healed, commands>>

\* The rest of resolveAsync. Places that ask the same share one lookup and its failure; a
\* failed one is forgotten. A base place that is tracked in two ways in one run is refused, and the
\* entry that was read before the lookup decides whether the lock changes.
Answer(p, failed) ==
    /\ run.is = "deploy" /\ run.step[p] = "asking"
    /\ failed => run.inflight[Key(p)] = None
    /\ MayFail(failed)
    /\ LET kind == VersionType(pin[p])
           known == run.inflight[Key(p)]
           version == IF known = None THEN head[BaseOf(p)][kind] ELSE known
           claimed == run.claims[BaseOf(p)]
       IN IF failed
            THEN run' = [run EXCEPT !.step = [q \in run.places |->
                           IF run.step[q] = "asking" /\ Key(q) = Key(p)
                             THEN "failed" ELSE @[q]]]
          ELSE IF claimed \notin {"none", kind}
            THEN run' = [run EXCEPT !.step[p] = "failed", !.inflight[Key(p)] = version]
          ELSE run' = [run EXCEPT
                 !.step[p] = "resolved", !.got[p] = version,
                 !.inflight[Key(p)] = version, !.claims[BaseOf(p)] = kind,
                 !.lock[BaseOf(p)] = IF Differs(run.entry[p], version, kind)
                                       THEN [version |-> version, from |-> kind] ELSE @,
                 !.dirty = @ \/ Differs(run.entry[p], version, kind)]
    /\ UNCHANGED <<head, pin, lock, shipped, monitors, healed, commands>>

-----------------------------------------------------------------------------
(* A deploy.                                                               *)
Command == run = NoRun /\ commands < MaxCommands /\ commands' = commands + 1

\* `deploy run` deploys a target or one place of it, `batch deploy` what has changed of
\* a target; when that is nothing, it only renews the watches.
Selected(places, options) ==
    /\ \E target \in Targets : places \in {{}, Of(target)} \cup {{p} : p \in Of(target)}
    /\ places = {} => options.watch /\ ~options.frozen /\ ~options.refresh
    /\ options.watch => places \subseteq Of(WatchedTarget)

Deploy(places, options) ==
    /\ Command
    /\ Selected(places, options)
    /\ ~(options.frozen /\ options.refresh)
    /\ run' = [is |-> "deploy", places |-> places, frozen |-> options.frozen,
               refresh |-> options.refresh, watch |-> options.watch,
               keyed |-> options.keyed, monitor |-> options.monitor,
               lock |-> lock, dirty |-> FALSE,
               step |-> [p \in places |-> "waiting"],
               got |-> [p \in places |-> None],
               entry |-> [p \in places |-> NoEntry],
               claims |-> [b \in Bases |-> "none"],
               inflight |-> [k \in Bases \X Kinds |-> None]]
    /\ UNCHANGED <<head, pin, lock, shipped, monitors, healed, faults>>

\* The place is built from the version it was given, and uploaded.
Upload(p, failed) ==
    /\ run.is = "deploy" /\ run.step[p] = "resolved"
    /\ MayFail(failed)
    /\ IF failed THEN Step(p, "failed", run.got[p]) /\ UNCHANGED shipped
       ELSE /\ Step(p, "shipped", run.got[p])
            /\ shipped' = [shipped EXCEPT ![p] = run.got[p]]
    /\ UNCHANGED <<head, pin, lock, monitors, healed, commands>>

Clean == \A p \in run.places : run.step[p] = "shipped"
Ended == \A p \in run.places : run.step[p] \in {"shipped", "failed"}

\* Mutant: a failed deploy registers too.
FlushedAlways(failed) ==
    /\ run.is = "deploy" /\ Ended
    /\ MayFail(failed)
    /\ run.dirty \/ ~failed
    /\ lock' = IF run.dirty /\ ~failed THEN run.lock ELSE lock
    /\ run' = IF run.watch THEN [run EXCEPT !.is = "register"] ELSE NoRun
    /\ UNCHANGED <<head, pin, shipped, monitors, healed, commands>>

\* disposeAsync and flushAsync: what was resolved is written, whatever was deployed; a
\* write that fails is only reported. Watches are registered after a clean deploy.
Flushed(failed) ==
    /\ run.is = "deploy" /\ Ended
    /\ MayFail(failed)
    /\ run.dirty \/ ~failed
    /\ lock' = IF run.dirty /\ ~failed THEN run.lock ELSE lock
    /\ run' = IF run.watch /\ Clean THEN [run EXCEPT !.is = "register"] ELSE NoRun
    /\ UNCHANGED <<head, pin, shipped, monitors, healed, commands>>

\* checkBasePlaceWatchable
Watchable(p, keyed) ==
    p \in Watched /\ ~IsNumber(pin[p]) /\ (keyed \/ pin[p].as # "saved")

\* _buildWatchEntryAsync: without a key the service reads no versions.
Watch(file, keyed, p) ==
    [place |-> p, baseline |-> IF keyed THEN Peek(file, p) ELSE None]

\* Mutant: only what was deployed is listed.
WatchesDeployed(file, keyed) ==
    {Watch(file, keyed, p) : p \in {q \in IF run = NoRun THEN Places ELSE run.places :
                                       Watchable(q, keyed)}}

\* _registerWatchesAsync: a registration is about the whole target, deployed or not.
Candidates == Of(WatchedTarget)

\* buildWatchPlan
Watches(file, keyed) ==
    {Watch(file, keyed, p) : p \in {q \in Candidates : Watchable(q, keyed)}}

\* HttpWatchRegistry: a registration replaces the list of the monitor it names.
Post(sent, name, list) ==
    monitors' = IF sent /\ list # {} THEN [monitors EXCEPT ![name] = list] ELSE monitors

\* registerWatchesAsync. Without a watchable place or a GitHub context nothing is sent;
\* a request whose answer is lost may have been done.
Register(sent, failed) ==
    /\ run.is = "register"
    /\ MayFail(failed)
    /\ sent \/ failed \/ Watches(run.lock, run.keyed) = {}
    /\ Post(sent, run.monitor, Watches(run.lock, run.keyed))
    /\ run' = NoRun
    /\ UNCHANGED <<head, pin, lock, shipped, healed, commands>>

\* A dry run registers, without a key, a monitor of its own, and deploys nothing.
DryRun ==
    /\ Command
    /\ Post(TRUE, "dryrun", Watches(lock, FALSE))
    /\ UNCHANGED <<head, pin, lock, shipped, run, healed, faults>>

-----------------------------------------------------------------------------
(* Pins.                                                                   *)

\* A user edits the config.
Edit(p, version) ==
    /\ Command
    /\ version # pin[p]
    /\ pin' = [pin EXCEPT ![p] = version]
    /\ healed' = FALSE
    /\ UNCHANGED <<head, lock, shipped, monitors, run, faults>>

IsKeyword(v) == v.as \in Kinds

\* _commitPinChangesAsync: nothing is written unless the user confirms.
Commit(pins, confirmed) == pin' = IF confirmed THEN pins ELSE pin

\* _upgradeConfigPinsAsync: a number follows what is published.
Repinned(places) ==
    [p \in Places |-> IF p \in places THEN Number(head[BaseOf(p)].published) ELSE pin[p]]

\* Mutant: an entry is stale only when its version is.
LockedVersions(file, refs, prune) ==
    [b \in Bases |->
       IF \E p \in refs : BaseOf(p) = b
         THEN LET p == CHOOSE q \in refs : BaseOf(q) = b
              IN IF file[b].version = head[b][pin[p].as] THEN file[b]
                 ELSE [version |-> head[b][pin[p].as], from |-> pin[p].as]
       ELSE IF prune THEN NoEntry ELSE file[b]]

\* _upgradeLockPinsAsync: one place of the config answers for each base place; with all
\* targets in view, entries without a place are dropped.
Locked(file, refs, prune) ==
    [b \in Bases |->
       IF \E p \in refs : BaseOf(p) = b
         THEN LET p == CHOOSE q \in refs : BaseOf(q) = b
              IN [version |-> head[b][pin[p].as], from |-> pin[p].as]
       ELSE IF prune THEN NoEntry ELSE file[b]]

\* handleVersionUpgradeAsync: numbers, and pins that were absent, move in the config,
\* keywords in the lock. The user is asked about each file. Of several places with one
\* base place, one is in refs.
Upgrade(targets, refs, inConfig, inLock) ==
    /\ Command
    /\ targets = Targets \/ Cardinality(targets) = 1
    /\ LET all == {p \in Places : TargetOf(p) \in targets}
           dynamic == {p \in all : IsKeyword(pin[p])}
       IN /\ refs \subseteq dynamic
          /\ {BaseOf(p) : p \in refs} = {BaseOf(p) : p \in dynamic}
          /\ \A p, q \in refs : BaseOf(p) = BaseOf(q) => p = q
          /\ Commit(Repinned(all \ dynamic), inConfig)
    /\ lock' = IF inLock THEN Locked(lock, refs, targets = Targets) ELSE lock
    /\ healed' = (targets = Targets /\ inConfig /\ inLock)
    /\ UNCHANGED <<head, shipped, monitors, run, faults>>

\* handleVersionPromoteAsync: pins are copied to the places with the same base place; a
\* target whose own pins disagree is refused.
Promote(from, to, confirmed) ==
    /\ Command
    /\ from # to
    /\ LET pinned == {p \in Of(from) : pin[p].as # "absent"}
           source(p) == {q \in pinned : BaseOf(q) = BaseOf(p)}
       IN /\ \A p, q \in pinned : BaseOf(p) = BaseOf(q) => pin[p] = pin[q]
          /\ Commit([p \in Places |->
                       IF p \in Of(to) /\ source(p) # {}
                         THEN pin[CHOOSE q \in source(p) : TRUE]
                       ELSE pin[p]], confirmed)
    /\ healed' = (healed /\ pin' = pin)
    /\ UNCHANGED <<head, lock, shipped, monitors, run, faults>>

-----------------------------------------------------------------------------
Options == [frozen : BOOLEAN, refresh : BOOLEAN, watch : BOOLEAN, keyed : BOOLEAN,
            monitor : {"main", "branch"}]

\* Of the options, those that make a difference.
Chosen(o) == o.watch \/ (~o.keyed /\ o.monitor = "main")

DeployStep ==
    \/ \E failed \in BOOLEAN :
         \/ \E p \in run.places : Answer(p, failed) \/ Upload(p, failed)
         \/ Flushed(failed)
    \/ \E p \in run.places : Resolve(p)
    \/ \E sent, failed \in BOOLEAN : Register(sent, failed)

Next ==
    \/ \E b \in Bases, kind \in Kinds : Edited(b, kind)
    \/ \E places \in SUBSET Places, o \in {x \in Options : Chosen(x)} : Deploy(places, o)
    \/ DryRun
    \/ \E p \in Places, version \in Edits : Edit(p, version)
    \/ \E targets \in SUBSET Targets, refs \in SUBSET Places,
          inConfig, inLock \in BOOLEAN : Upgrade(targets, refs, inConfig, inLock)
    \/ \E from, to \in Targets, confirmed \in BOOLEAN : Promote(from, to, confirmed)
    \/ run # NoRun /\ DeployStep

Spec == Init /\ [][Next]_vars

-----------------------------------------------------------------------------
(* Properties.                                                             *)

Versions == Nat \ {None}
Entries == {NoEntry} \cup [version : Versions, from : Kinds]
Locks == [Bases -> Entries]

\* A deploy of some places, from its first step to its registration.
Deploys(places) ==
    [is : {"deploy", "register"}, places : {places}, frozen : BOOLEAN, refresh : BOOLEAN,
     watch : BOOLEAN, keyed : BOOLEAN, monitor : {"main", "branch"},
     lock : Locks, dirty : BOOLEAN,
     step : [places -> {"waiting", "asking", "resolved", "shipped", "failed"}],
     got : [places -> Nat], entry : [places -> Entries],
     claims : [Bases -> Kinds \cup {"none"}], inflight : [Bases \X Kinds -> Nat]]

TypeOK ==
    /\ head \in [Bases -> [Kinds -> Versions]]
    /\ pin \in [Places -> Pins]
    /\ lock \in Locks
    /\ shipped \in [Places -> Nat]
    /\ monitors \in [Names -> SUBSET [place : Places, baseline : Nat]]
    /\ run = NoRun \/ \E places \in SUBSET Places : run \in Deploys(places)
    /\ healed \in BOOLEAN
    /\ commands \in 0 .. MaxCommands
    /\ faults \in 0 .. MaxFaults

\* Places that follow one base place in one way are built from one version of it in a
\* deploy, whenever it moves; and a frozen deploy uses what the lock says.
OneVersion ==
    run.is = "deploy" =>
      /\ \A p, q \in run.places :
           /\ run.step[p] \in {"resolved", "shipped"}
           /\ run.step[q] \in {"resolved", "shipped"}
           /\ BaseOf(p) = BaseOf(q) /\ pin[p] = pin[q]
           => run.got[p] = run.got[q]
      /\ run.frozen => \A p \in run.places :
           run.step[p] \in {"resolved", "shipped"} => run.got[p] = Peek(lock, p)

Agree(places) ==
    \A p, q \in places :
      /\ BaseOf(p) = BaseOf(q) /\ ~IsNumber(pin[p]) /\ ~IsNumber(pin[q])
      => VersionType(pin[p]) = VersionType(pin[q])

\* After a clean deploy whose lock could be written, the config and the lock tell which
\* versions it was built from, if its places follow a base place in one way; a frozen
\* deploy writes nothing, another only entries of its own base places.
LockTells ==
    [][run.is = "deploy" /\ run' # run /\ run'.is # "deploy" =>
         /\ Clean /\ Agree(run.places) /\ faults' = faults =>
              \A p \in run.places : Peek(lock', p) = shipped[p]
         /\ \A x \in Bases : lock'[x] # lock[x] =>
              ~run.frozen /\ \E p \in run.places : BaseOf(p) = x]_vars

\* What a step that changes a monitor may do.
Registration ==
    monitors' # monitors =>
        LET keyed == run # NoRun /\ run.keyed
            name == IF run = NoRun THEN "dryrun" ELSE run.monitor
            listed == monitors'[name]
        IN /\ \A n \in Names : n # name => monitors'[n] = monitors[n]
           /\ {w.place : w \in listed} =
                {p \in Of(WatchedTarget) : Watchable(p, keyed)}
           /\ keyed /\ Agree(run.places) => \A w \in listed :
                w.place \in run.places => w.baseline = shipped[w.place]

\* A monitor is only replaced by a list of every place of its target that can be
\* watched; the baselines of places that were just deployed are what they were built
\* from (if they follow a base place in one way), and no other monitor changes.
RegistersAll == [][Registration]_vars

\* After an upgrade of everything, no frozen deploy is refused, if the places that
\* follow one base place follow it in one way.
UpgradeHeals ==
    healed /\ Agree(Places) => \A p \in Places : Peek(lock, p) # None
=============================================================================
