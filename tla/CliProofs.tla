------------------------------ MODULE CliProofs ------------------------------
(* What the commands of nevermore-cli do, for any number of packages,      *)
(* places and failures: what a deploy builds, locks and registers, and how *)
(* a batch splits into places, keeps its files, reads its log and comes to *)
(* its exit code.                                                          *)
EXTENDS Deployments, MCPlaces, FiniteSetTheorems, WellFoundedInduction, TLAPS

(***************************************************************************)
(* Deployments                                                             *)
(* While a deploy runs, its copy of the lock differs from the lock only at *)
(* base places that a lookup has claimed, and there it holds what that     *)
(* lookup found; so a place has the version of the lookup of its base      *)
(* place and keyword, or that of an entry of the lock that no lookup with  *)
(* this keyword replaces.                                                  *)
(***************************************************************************)

Follows(p) == ~IsNumber(pin[p])
Has(p) == run.step[p] \in {"resolved", "shipped"}
Claimed(b) == run.claims[b] # "none"
Found(b) == run.inflight[<<b, run.claims[b]>>]

\* The copy of the lock, against the lock and the lookups.
CopyOf(b) ==
    /\ ~Claimed(b) => run.lock[b] = lock[b]
    /\ Claimed(b) =>
         /\ Found(b) # None
         /\ run.lock[b] = [version |-> Found(b), from |-> run.claims[b]]
         /\ ~run.frozen
         /\ ~run.refresh => lock[b].from # run.claims[b]
         /\ \E q \in run.places :
              BaseOf(q) = b /\ Follows(q) /\ VersionType(pin[q]) = run.claims[b]
    /\ ~run.dirty => run.lock[b] = lock[b]

\* A place that asks has read an entry that does not answer it: the one of the lock,
\* unless the base place is claimed by now.
Asks(p) ==
    run.step[p] = "asking" =>
      /\ Follows(p) /\ ~run.frozen
      /\ ~Claimed(BaseOf(p)) => run.entry[p] = lock[BaseOf(p)]
      /\ ~run.refresh /\ run.claims[BaseOf(p)] \in {"none", VersionType(pin[p])} =>
           lock[BaseOf(p)].from # VersionType(pin[p])

\* Where the version of a place comes from.
Looked(p) ==
    /\ run.claims[BaseOf(p)] = VersionType(pin[p])
    /\ run.got[p] = Found(BaseOf(p))
WasLocked(p) ==
    /\ ~run.refresh
    /\ lock[BaseOf(p)].from = VersionType(pin[p])
    /\ run.got[p] = lock[BaseOf(p)].version
Got(p) ==
    Has(p) => IF IsNumber(pin[p]) THEN run.got[p] = pin[p].at ELSE Looked(p) \/ WasLocked(p)

Sent(p) == run.step[p] = "shipped" => shipped[p] = run.got[p]

\* A deploy until it has written its lock, and after that.
Deploying ==
    run.is = "deploy" =>
      /\ \A b \in Bases : CopyOf(b)
      /\ \A p \in run.places : Asks(p) /\ Got(p) /\ Sent(p)
Told(file) == Clean /\ Agree(run.places) => \A p \in run.places : Peek(file, p) = shipped[p]
Registering == run.is = "register" => Clean /\ Told(run.lock)

\* After an upgrade, a deploy leaves every place an entry, now and when it writes.
Answered(file) == \A p \in Places : Peek(file, p) # None
Healed ==
    healed /\ Agree(Places) => Answered(lock) /\ (run.is = "deploy" => Answered(run.lock))

IInv == TypeOK /\ Deploying /\ Registering /\ Healed

-----------------------------------------------------------------------------
(* Deploys, pins and entries.                                              *)

Steps == {"waiting", "asking", "resolved", "shipped", "failed"}

\* What a deploy is made of.
LEMMA DeployParts ==
    ASSUME NEW places \in SUBSET Places, NEW d \in Deploys(places)
    PROVE  /\ d # NoRun
           /\ d.is \in {"deploy", "register"} /\ d.places = places
           /\ d.frozen \in BOOLEAN /\ d.refresh \in BOOLEAN
           /\ d.watch \in BOOLEAN /\ d.keyed \in BOOLEAN /\ d.monitor \in {"main", "branch"}
           /\ d.lock \in Locks /\ d.dirty \in BOOLEAN
           /\ d.step \in [places -> Steps] /\ d.got \in [places -> Nat]
           /\ d.entry \in [places -> Entries]
           /\ d.claims \in [Bases -> Kinds \cup {"none"}]
           /\ d.inflight \in [Bases \X Kinds -> Nat]
<1>1. d.is \in {"deploy", "register"}
  BY DEF Deploys
<1>2. d # NoRun
  BY <1>1 DEF NoRun
<1> QED BY <1>1, <1>2 DEF Deploys, Steps

\* Whoever runs is a deploy of some places.
LEMMA RunIsDeploy ==
    ASSUME TypeOK, run.is \in {"deploy", "register"} \/ run # NoRun
    PROVE  run.places \in SUBSET Places /\ run \in Deploys(run.places)
<1>1. NoRun.is = "none"
  BY DEF NoRun
<1>2. PICK places \in SUBSET Places : run \in Deploys(places)
  BY <1>1 DEF TypeOK
<1>3. run.places = places
  BY <1>2, DeployParts
<1> QED BY <1>2, <1>3

\* A place's pin is a number or follows one of the two kinds of its base place.
LEMMA PinIs ==
    ASSUME TypeOK, NEW p \in Places
    PROVE  /\ BaseOf(p) \in Bases
           /\ pin[p].at \in Nat
           /\ Follows(p) => VersionType(pin[p]) \in Kinds
BY DEF TypeOK, Pins, Bases, Follows, IsNumber, VersionType, Kinds

\* An entry that is of a kind has a version.
LEMMA EntryIs ==
    ASSUME NEW e \in Entries
    PROVE  /\ e.version \in Nat /\ e.from \in Kinds \cup {"none"}
           /\ e.from \in Kinds => e.version \in Versions
BY DEF Entries, NoEntry, Versions, None, Kinds

-----------------------------------------------------------------------------
(* Steps of one place.                                                     *)

\* Steps that claim nothing: the places they change stay sound.
LEMMA PlacesMove ==
    ASSUME IInv, run.is = "deploy",
           NEW places \in SUBSET Places, run \in Deploys(places), run' \in Deploys(places),
           run'.is = "deploy", run'.frozen = run.frozen, run'.refresh = run.refresh,
           run'.lock = run.lock, run'.dirty = run.dirty, run'.claims = run.claims,
           UNCHANGED <<pin, lock, healed>>,
           \A b \in Bases : Claimed(b) => Found(b)' = Found(b),
           \A q \in places :
             \/ /\ run'.step[q] = run.step[q] /\ run'.got[q] = run.got[q]
                /\ run'.entry[q] = run.entry[q] /\ shipped'[q] = shipped[q]
             \/ Asks(q)' /\ Got(q)' /\ Sent(q)'
    PROVE  Deploying' /\ Registering' /\ Healed'
<1>1. run.places = places /\ run'.places = places
  BY DeployParts
<1>2. ASSUME NEW b \in Bases PROVE CopyOf(b)'
  <2>1. CopyOf(b)
    BY DEF IInv, Deploying
  <2> QED BY <1>1, <2>1 DEF CopyOf, Claimed, Follows
<1>3. ASSUME NEW q \in places PROVE Asks(q)' /\ Got(q)' /\ Sent(q)'
  <2>1. CASE /\ run'.step[q] = run.step[q] /\ run'.got[q] = run.got[q]
             /\ run'.entry[q] = run.entry[q] /\ shipped'[q] = shipped[q]
    <3>1. Asks(q) /\ Got(q) /\ Sent(q)
      BY <1>1 DEF IInv, Deploying
    <3>2. Asks(q)'
      BY <2>1, <3>1 DEF Asks, Follows, Claimed
    <3>3. Got(q)'
      <4>1. TypeOK /\ BaseOf(q) \in Bases /\ (Follows(q) => VersionType(pin[q]) \in Kinds)
        BY PinIs DEF IInv
      <4>2. Looked(q) /\ Follows(q) => Looked(q)'
        BY <2>1, <4>1 DEF Looked, Claimed, Kinds
      <4>3. WasLocked(q) => WasLocked(q)'
        BY <2>1 DEF WasLocked
      <4> QED BY <2>1, <3>1, <4>2, <4>3 DEF Got, Has, Follows
    <3>4. Sent(q)'
      BY <2>1, <3>1 DEF Sent
    <3> QED BY <3>2, <3>3, <3>4
  <2> QED BY <2>1
<1>4. Deploying'
  BY <1>1, <1>2, <1>3 DEF Deploying
<1>5. Registering'
  BY DEF Registering
<1>6. Healed'
  BY DEF IInv, Healed, Answered, Peek, Agree
<1> QED BY <1>4, <1>5, <1>6

\* What every step of a deploy starts from.
LEMMA DeployIs ==
    ASSUME IInv, run.is = "deploy"
    PROVE  /\ TypeOK /\ run.places \in SUBSET Places /\ run \in Deploys(run.places)
           /\ \A b \in Bases : CopyOf(b)
           /\ \A p \in run.places : Asks(p) /\ Got(p) /\ Sent(p)
BY RunIsDeploy DEF IInv, Deploying

\* A number answers itself and an entry of the right kind the place that follows it; a
\* place that asks has read the entry of its base place.
LEMMA ResolveKeeps ==
    ASSUME IInv, NEW p \in run.places, Resolve(p) PROVE IInv'
<1> DEFINE b == BaseOf(p)
           entry == run.lock[b]
           kind == VersionType(pin[p])
<1>1. /\ run.is = "deploy" /\ run.step[p] = "waiting"
      /\ UNCHANGED <<head, pin, lock, shipped, monitors, healed, commands, faults>>
  BY DEF Resolve
<1>2. PICK places \in SUBSET Places : places = run.places /\ run \in Deploys(places)
  BY <1>1, DeployIs
<1>3. /\ TypeOK /\ b \in Bases /\ pin[p].at \in Nat /\ (Follows(p) => kind \in Kinds)
      /\ CopyOf(b) /\ p \in places
  BY <1>1, <1>2, DeployIs, PinIs
<1>4. /\ entry \in Entries /\ run.claims[b] \in Kinds \cup {"none"}
      /\ run.entry \in [places -> Entries] /\ run.step \in [places -> Steps]
  BY <1>2, <1>3, DeployParts DEF Locks
<1>5. CASE IsNumber(pin[p]) /\ Step(p, "resolved", pin[p].at)
  <2>1. /\ run' \in Deploys(places)
        /\ run'.is = run.is /\ run'.frozen = run.frozen /\ run'.refresh = run.refresh
        /\ run'.lock = run.lock /\ run'.dirty = run.dirty /\ run'.claims = run.claims
        /\ run'.inflight = run.inflight /\ run'.entry = run.entry
        /\ run'.step = [run.step EXCEPT ![p] = "resolved"]
        /\ run'.got = [run.got EXCEPT ![p] = pin[p].at]
    BY <1>2, <1>3, <1>5 DEF Step, Deploys, Steps
  <2>2. run'.step[p] = "resolved" /\ run'.got[p] = pin[p].at
    BY <1>2, <1>3, <2>1, DeployParts
  <2>3. Asks(p)' /\ Got(p)' /\ Sent(p)'
    BY <1>1, <1>5, <2>2 DEF Asks, Got, Sent
  <2>4. ASSUME NEW q \in places \ {p}
        PROVE  run'.step[q] = run.step[q] /\ run'.got[q] = run.got[q]
    BY <1>2, <2>1, DeployParts
  <2>5. Deploying' /\ Registering' /\ Healed'
    BY <1>1, <1>2, <2>1, <2>3, <2>4, PlacesMove DEF Found
  <2> QED BY <1>1, <1>2, <1>3, <2>1, <2>5 DEF IInv, TypeOK
<1>6. CASE /\ ~IsNumber(pin[p]) /\ entry.from = kind /\ ~run.refresh
           /\ Step(p, "resolved", entry.version)
  <2>1. entry.version \in Nat
    BY <1>4, EntryIs
  <2>2. /\ run' \in Deploys(places)
        /\ run'.is = run.is /\ run'.frozen = run.frozen /\ run'.refresh = run.refresh
        /\ run'.lock = run.lock /\ run'.dirty = run.dirty /\ run'.claims = run.claims
        /\ run'.inflight = run.inflight /\ run'.entry = run.entry
        /\ run'.step = [run.step EXCEPT ![p] = "resolved"]
        /\ run'.got = [run.got EXCEPT ![p] = entry.version]
    BY <1>2, <1>3, <1>6, <2>1 DEF Step, Deploys, Steps
  <2>3. run'.step[p] = "resolved" /\ run'.got[p] = entry.version
    BY <1>2, <1>3, <2>2, DeployParts
  <2>4. Looked(p)' \/ WasLocked(p)'
    <3>1. CASE Claimed(b)
      <4>1. entry.from = run.claims[b] /\ entry.version = Found(b)
        BY <1>3, <3>1 DEF CopyOf
      <4> QED BY <1>1, <1>6, <2>2, <2>3, <4>1 DEF Looked, Found
    <3>2. CASE ~Claimed(b)
      <4>1. entry = lock[b]
        BY <1>3, <3>2 DEF CopyOf
      <4> QED BY <1>1, <1>6, <2>2, <2>3, <4>1 DEF WasLocked
    <3> QED BY <3>1, <3>2
  <2>5. Asks(p)' /\ Got(p)' /\ Sent(p)'
    BY <1>1, <1>6, <2>3, <2>4 DEF Asks, Got, Sent
  <2>6. ASSUME NEW q \in places \ {p}
        PROVE  run'.step[q] = run.step[q] /\ run'.got[q] = run.got[q]
    BY <1>2, <2>2, DeployParts
  <2>7. Deploying' /\ Registering' /\ Healed'
    BY <1>1, <1>2, <2>2, <2>5, <2>6, PlacesMove DEF Found
  <2> QED BY <1>1, <1>2, <1>3, <2>2, <2>7 DEF IInv, TypeOK
<1>7. CASE run.frozen /\ Step(p, "failed", None)
  <2>1. /\ run' \in Deploys(places)
        /\ run'.is = run.is /\ run'.frozen = run.frozen /\ run'.refresh = run.refresh
        /\ run'.lock = run.lock /\ run'.dirty = run.dirty /\ run'.claims = run.claims
        /\ run'.inflight = run.inflight /\ run'.entry = run.entry
        /\ run'.step = [run.step EXCEPT ![p] = "failed"]
        /\ run'.got = [run.got EXCEPT ![p] = None]
    BY <1>2, <1>3, <1>7 DEF Step, Deploys, Steps, None
  <2>2. run'.step[p] = "failed"
    BY <1>2, <1>3, <2>1, DeployParts
  <2>3. Asks(p)' /\ Got(p)' /\ Sent(p)'
    BY <2>2 DEF Asks, Got, Sent, Has
  <2>4. ASSUME NEW q \in places \ {p}
        PROVE  run'.step[q] = run.step[q] /\ run'.got[q] = run.got[q]
    BY <1>2, <2>1, DeployParts
  <2>5. Deploying' /\ Registering' /\ Healed'
    BY <1>1, <1>2, <2>1, <2>3, <2>4, PlacesMove DEF Found
  <2> QED BY <1>1, <1>2, <1>3, <2>1, <2>5 DEF IInv, TypeOK
<1>8. CASE /\ ~IsNumber(pin[p]) /\ ~(entry.from = kind /\ ~run.refresh) /\ ~run.frozen
           /\ run' = [run EXCEPT !.step[p] = "asking", !.entry[p] = entry]
  <2>1. /\ run' \in Deploys(places)
        /\ run'.is = run.is /\ run'.frozen = run.frozen /\ run'.refresh = run.refresh
        /\ run'.lock = run.lock /\ run'.dirty = run.dirty /\ run'.claims = run.claims
        /\ run'.inflight = run.inflight /\ run'.got = run.got
        /\ run'.step = [run.step EXCEPT ![p] = "asking"]
        /\ run'.entry = [run.entry EXCEPT ![p] = entry]
    BY <1>2, <1>3, <1>4, <1>8 DEF Deploys
  <2>2. run'.step[p] = "asking" /\ run'.entry[p] = entry
    BY <1>3, <1>4, <2>1
  <2>3. Asks(p)'
    <3>1. ~Claimed(b) => entry = lock[b]
      BY <1>3 DEF CopyOf
    <3>2. ~run.refresh /\ run.claims[b] \in {"none", kind} => lock[b].from # kind
      BY <1>3, <1>8 DEF CopyOf, Claimed
    <3> QED BY <1>1, <1>8, <2>1, <2>2, <3>1, <3>2 DEF Asks, Follows, Claimed
  <2>4. Got(p)' /\ Sent(p)'
    BY <2>2 DEF Got, Sent, Has
  <2>5. ASSUME NEW q \in places \ {p}
        PROVE  run'.step[q] = run.step[q] /\ run'.entry[q] = run.entry[q]
    BY <1>4, <2>1
  <2>6. Deploying' /\ Registering' /\ Healed'
    BY <1>1, <1>2, <2>1, <2>3, <2>4, <2>5, PlacesMove DEF Found
  <2> QED BY <1>1, <1>2, <1>3, <2>1, <2>6 DEF IInv, TypeOK
<1> QED BY <1>5, <1>6, <1>7, <1>8 DEF Resolve

\* A place is shipped as what it got.
LEMMA UploadKeeps ==
    ASSUME IInv, NEW p \in run.places, NEW failed \in BOOLEAN, Upload(p, failed) PROVE IInv'
<1>1. /\ run.is = "deploy" /\ run.step[p] = "resolved" /\ MayFail(failed)
      /\ UNCHANGED <<head, pin, lock, monitors, healed, commands>>
  BY DEF Upload
<1>2. PICK places \in SUBSET Places : places = run.places /\ run \in Deploys(places)
  BY <1>1, DeployIs
<1>3. TypeOK /\ p \in places /\ Got(p)
  BY <1>1, <1>2, DeployIs
<1>4. run.got \in [places -> Nat] /\ run.step \in [places -> Steps]
  BY <1>2, DeployParts
<1>5. faults' \in 0 .. MaxFaults
  BY <1>1, <1>3, DeploymentsAssumption DEF MayFail, TypeOK
<1>6. PICK is \in {"failed", "shipped"} :
        /\ Step(p, is, run.got[p])
        /\ shipped' = IF is = "failed" THEN shipped ELSE [shipped EXCEPT ![p] = run.got[p]]
  BY DEF Upload
<1>7. /\ run' \in Deploys(places)
      /\ run'.is = run.is /\ run'.frozen = run.frozen /\ run'.refresh = run.refresh
      /\ run'.lock = run.lock /\ run'.dirty = run.dirty /\ run'.claims = run.claims
      /\ run'.inflight = run.inflight /\ run'.entry = run.entry
      /\ run'.step = [run.step EXCEPT ![p] = is]
      /\ run'.got = [run.got EXCEPT ![p] = run.got[p]]
  BY <1>2, <1>3, <1>4, <1>6 DEF Step, Deploys, Steps
<1>8. run'.step[p] = is /\ run'.got = run.got
  BY <1>3, <1>4, <1>7
<1>9. shipped' \in [Places -> Nat]
  BY <1>3, <1>4, <1>6 DEF TypeOK
<1>10. Asks(p)' /\ Got(p)' /\ Sent(p)'
  <2>1. Asks(p)'
    BY <1>6, <1>8 DEF Asks
  <2>2. Got(p)'
    BY <1>1, <1>3, <1>7, <1>8 DEF Got, Has, Looked, WasLocked, Found
  <2>3. Sent(p)'
    BY <1>2, <1>3, <1>6, <1>8 DEF Sent, TypeOK
  <2> QED BY <2>1, <2>2, <2>3
<1>11. ASSUME NEW q \in places \ {p}
       PROVE  run'.step[q] = run.step[q] /\ shipped'[q] = shipped[q]
  BY <1>2, <1>3, <1>4, <1>6, <1>7 DEF TypeOK
<1>12. Deploying' /\ Registering' /\ Healed'
  BY <1>1, <1>2, <1>7, <1>8, <1>10, <1>11, PlacesMove DEF Found
<1> QED BY <1>1, <1>2, <1>3, <1>5, <1>7, <1>9, <1>12 DEF IInv, TypeOK

\* A lookup that fails fails every place that shares it; one that finds a version of a
\* base place that is claimed for the other keyword fails its place.
LEMMA LookupFails ==
    ASSUME IInv, NEW p \in run.places, NEW failed \in BOOLEAN, Answer(p, failed),
           failed \/ run.claims[BaseOf(p)] \notin {"none", VersionType(pin[p])}
    PROVE  IInv'
<1> DEFINE b == BaseOf(p)
           kind == VersionType(pin[p])
           known == run.inflight[<<b, kind>>]
           version == IF known = None THEN head[b][kind] ELSE known
<1>1. /\ run.is = "deploy" /\ run.step[p] = "asking" /\ MayFail(failed)
      /\ UNCHANGED <<head, pin, lock, shipped, monitors, healed, commands>>
  BY DEF Answer
<1>2. PICK places \in SUBSET Places : places = run.places /\ run \in Deploys(places)
  BY <1>1, DeployIs
<1>3. /\ TypeOK /\ b \in Bases /\ kind \in Kinds /\ p \in places
      /\ \A q \in places : Asks(q) /\ Got(q) /\ Sent(q)
  BY <1>1, <1>2, DeployIs, PinIs DEF Asks
<1>4. /\ run.step \in [places -> Steps] /\ run.inflight \in [Bases \X Kinds -> Nat]
      /\ run.claims \in [Bases -> Kinds \cup {"none"}]
  BY <1>2, DeployParts
<1>5. faults' \in 0 .. MaxFaults
  BY <1>1, <1>3, DeploymentsAssumption DEF MayFail, TypeOK
<1>6. CASE failed
  <2>1. run' = [run EXCEPT !.step = [q \in run.places |->
                  IF run.step[q] = "asking" /\ Key(q) = Key(p) THEN "failed" ELSE @[q]]]
    BY <1>6 DEF Answer
  <2>2. /\ run' \in Deploys(places)
        /\ run'.is = run.is /\ run'.frozen = run.frozen /\ run'.refresh = run.refresh
        /\ run'.lock = run.lock /\ run'.dirty = run.dirty /\ run'.claims = run.claims
        /\ run'.inflight = run.inflight /\ run'.got = run.got /\ run'.entry = run.entry
        /\ \A q \in places : run'.step[q] \in {run.step[q], "failed"}
    BY <1>2, <1>4, <2>1 DEF Deploys, Steps
  <2>3. ASSUME NEW q \in places, run'.step[q] = "failed"
        PROVE  Asks(q)' /\ Got(q)' /\ Sent(q)'
    BY <2>3 DEF Asks, Got, Sent, Has
  <2>4. Deploying' /\ Registering' /\ Healed'
    BY <1>1, <1>2, <2>2, <2>3, PlacesMove DEF Found
  <2> QED BY <1>1, <1>2, <1>3, <1>5, <2>2, <2>4 DEF IInv, TypeOK
<1>7. CASE ~failed /\ run.claims[b] \notin {"none", kind}
  <2>1. version \in Nat
    BY <1>3, <1>4 DEF TypeOK, Versions
  <2>2. run' = [run EXCEPT !.step[p] = "failed", !.inflight[<<b, kind>>] = version]
    BY <1>7 DEF Answer, Key
  <2>3. /\ run' \in Deploys(places)
        /\ run'.is = run.is /\ run'.frozen = run.frozen /\ run'.refresh = run.refresh
        /\ run'.lock = run.lock /\ run'.dirty = run.dirty /\ run'.claims = run.claims
        /\ run'.got = run.got /\ run'.entry = run.entry
        /\ run'.step = [run.step EXCEPT ![p] = "failed"]
        /\ run'.inflight = [run.inflight EXCEPT ![<<b, kind>>] = version]
    <3> HIDE DEF version
    <3> QED BY <1>2, <1>3, <2>1, <2>2 DEF Deploys
  <2>4. run'.step[p] = "failed"
    BY <1>3, <1>4, <2>3
  <2>5. Asks(p)' /\ Got(p)' /\ Sent(p)'
    BY <2>4 DEF Asks, Got, Sent, Has
  <2>6. ASSUME NEW q \in places \ {p} PROVE run'.step[q] = run.step[q]
    BY <1>4, <2>3
  <2>7. ASSUME NEW c \in Bases, Claimed(c) PROVE Found(c)' = Found(c)
    <3>1. <<c, run.claims[c]>> # <<b, kind>> /\ <<c, run.claims[c]>> \in Bases \X Kinds
      BY <1>4, <1>7, <2>7 DEF Claimed
    <3> QED BY <1>4, <2>3, <3>1 DEF Found
  <2>8. Deploying' /\ Registering' /\ Healed'
    BY <1>1, <1>2, <2>3, <2>5, <2>6, <2>7, PlacesMove
  <2> QED BY <1>1, <1>2, <1>3, <1>5, <2>3, <2>8 DEF IInv, TypeOK
<1> QED BY <1>6, <1>7

\* A lookup that is used claims its base place, and the copy of the lock has what it
\* found: places with the same keyword get that, too.
LEMMA LookupAnswers ==
    ASSUME IInv, NEW p \in run.places, Answer(p, FALSE),
           run.claims[BaseOf(p)] \in {"none", VersionType(pin[p])}
    PROVE  IInv'
<1> DEFINE b == BaseOf(p)
           kind == VersionType(pin[p])
           known == run.inflight[<<b, kind>>]
           version == IF known = None THEN head[b][kind] ELSE known
           entry == [version |-> version, from |-> kind]
           changed == run.entry[p] # entry
<1>1. /\ run.is = "deploy" /\ run.step[p] = "asking" /\ MayFail(FALSE)
      /\ UNCHANGED <<head, pin, lock, shipped, monitors, healed, commands>>
  BY DEF Answer
<1>2. PICK places \in SUBSET Places : places = run.places /\ run \in Deploys(places)
  BY <1>1, DeployIs
<1>3. /\ TypeOK /\ b \in Bases /\ kind \in Kinds /\ kind # "none" /\ p \in places
      /\ Follows(p) /\ ~run.frozen
      /\ \A c \in Bases : CopyOf(c)
      /\ \A q \in places : Asks(q) /\ Got(q) /\ Sent(q)
  BY <1>1, <1>2, DeployIs, PinIs DEF Asks, Kinds
<1>4. /\ run.step \in [places -> Steps] /\ run.inflight \in [Bases \X Kinds -> Nat]
      /\ run.claims \in [Bases -> Kinds \cup {"none"}] /\ run.got \in [places -> Nat]
      /\ run.lock \in [Bases -> Entries] /\ run.dirty \in BOOLEAN
  BY <1>2, DeployParts DEF Locks
<1>5. UNCHANGED faults
  BY <1>1 DEF MayFail
<1>6. version \in Versions /\ version \in Nat /\ version # None /\ entry \in Entries
  BY <1>3, <1>4 DEF TypeOK, Versions, Entries
<1>7. run' = [run EXCEPT
         !.step[p] = "resolved", !.got[p] = version,
         !.inflight[<<b, kind>>] = version, !.claims[b] = kind,
         !.lock[b] = IF changed THEN entry ELSE @,
         !.dirty = @ \/ changed]
  BY DEF Answer, Key, Differs
<1> HIDE DEF version
<1>8. /\ run' \in Deploys(places)
      /\ run'.is = run.is /\ run'.frozen = run.frozen /\ run'.refresh = run.refresh
      /\ run'.entry = run.entry
      /\ run'.step = [run.step EXCEPT ![p] = "resolved"]
      /\ run'.got = [run.got EXCEPT ![p] = version]
      /\ run'.inflight = [run.inflight EXCEPT ![<<b, kind>>] = version]
      /\ run'.claims = [run.claims EXCEPT ![b] = kind]
      /\ run'.lock = [run.lock EXCEPT ![b] = IF changed THEN entry ELSE @]
      /\ run'.dirty = (run.dirty \/ changed)
  BY <1>2, <1>3, <1>6, <1>7 DEF Deploys, Locks
<1>9. run'.places = places
  BY <1>8, DeployParts
\* What the copy holds of this base place.
<1>10. run'.claims[b] = kind /\ run'.inflight[<<b, kind>>] = version
  BY <1>3, <1>4, <1>8
<1>11. run'.lock[b] = entry /\ (~changed /\ ~run.dirty => lock[b] = entry)
  <2>1. CASE Claimed(b)
    <3>1. run.claims[b] = kind /\ known # None
      BY <1>3, <2>1 DEF Claimed, CopyOf, Found
    <3>2. run.lock[b] = entry
      BY <1>3, <2>1, <3>1 DEF CopyOf, Found, version
    <3> QED BY <1>3, <1>4, <1>8, <3>2 DEF CopyOf
  <2>2. CASE ~Claimed(b)
    <3>1. run.lock[b] = lock[b] /\ run.entry[p] = lock[b]
      BY <1>1, <1>3, <2>2 DEF CopyOf, Asks
    <3> QED BY <1>3, <1>4, <1>8, <3>1
  <2> QED BY <2>1, <2>2
<1>12. ~run.refresh => lock[b].from # kind
  BY <1>1, <1>3 DEF Asks
<1>13. ASSUME NEW c \in Bases \ {b}
       PROVE  /\ run'.claims[c] = run.claims[c] /\ run'.lock[c] = run.lock[c]
              /\ Claimed(c) => Found(c)' = Found(c)
  <2>1. run'.claims[c] = run.claims[c] /\ run'.lock[c] = run.lock[c]
    BY <1>4, <1>8
  <2>2. ASSUME Claimed(c) PROVE run'.inflight[<<c, run.claims[c]>>] = Found(c)
    <3>1. <<c, run.claims[c]>> # <<b, kind>> /\ <<c, run.claims[c]>> \in Bases \X Kinds
      BY <1>4, <2>2 DEF Claimed
    <3> QED BY <1>4, <1>8, <3>1 DEF Found
  <2> QED BY <2>1, <2>2 DEF Found
<1>14. ASSUME NEW c \in Bases PROVE CopyOf(c)'
  <2>1. CASE c = b
    <3>1. Claimed(b)' /\ Found(b)' = version
      BY <1>3, <1>10 DEF Claimed, Found
    <3>2. Follows(p)' /\ VersionType(pin[p])' = kind
      BY <1>1, <1>3 DEF Follows
    <3> QED BY <1>1, <1>3, <1>6, <1>8, <1>9, <1>10, <1>11, <1>12, <2>1, <3>1, <3>2 DEF CopyOf
  <2>2. CASE c # b
    <3>1. CopyOf(c) /\ (Claimed(c)' <=> Claimed(c)) /\ c \in Bases \ {b}
      BY <1>3, <1>13, <2>2 DEF Claimed
    <3>2. ASSUME NEW q, Follows(q), VersionType(pin[q]) = run.claims[c]
          PROVE  Follows(q)' /\ VersionType(pin[q])' = run'.claims[c]
      BY <1>1, <1>13, <3>1, <3>2 DEF Follows
    <3>3. lock' = lock /\ run'.places = run.places /\ (~run'.dirty => ~run.dirty)
      BY <1>1, <1>2, <1>8, <1>9
    <3>4. run'.lock[c] = run.lock[c] /\ run'.claims[c] = run.claims[c]
      BY <1>13, <3>1
    <3>5. ASSUME Claimed(c)' PROVE Found(c)' = Found(c) /\ Claimed(c)
      BY <1>13, <3>1, <3>5
    <3>6. (~Claimed(c) => run.lock[c] = lock[c])'
      BY <3>1, <3>3, <3>4 DEF CopyOf
    <3>7. (~run.dirty => run.lock[c] = lock[c])'
      BY <3>1, <3>3, <3>4 DEF CopyOf
    <3>8. ASSUME Claimed(c)'
          PROVE  \E q \in run'.places :
                   BaseOf(q) = c /\ Follows(q)' /\ VersionType(pin[q])' = run'.claims[c]
      <4>1. PICK q \in run.places : BaseOf(q) = c /\ Follows(q) /\ VersionType(pin[q]) = run.claims[c]
        BY <3>1, <3>5, <3>8 DEF CopyOf
      <4> QED BY <3>2, <3>3, <4>1
    <3>9. run'.frozen = run.frozen /\ run'.refresh = run.refresh
      BY <1>8
    <3> QED BY <3>1, <3>3, <3>4, <3>5, <3>6, <3>7, <3>8, <3>9 DEF CopyOf
  <2> QED BY <2>1, <2>2
\* The place itself, and the others.
<1>15. Asks(p)' /\ Got(p)' /\ Sent(p)'
  <2>1. run'.step[p] = "resolved" /\ run'.got[p] = version
    BY <1>3, <1>4, <1>8
  <2>2. Looked(p)'
    BY <1>1, <1>10, <2>1 DEF Looked, Found
  <2> QED BY <1>1, <1>3, <2>1, <2>2 DEF Asks, Got, Sent, Follows
<1>16. ASSUME NEW q \in places \ {p} PROVE Asks(q)' /\ Got(q)' /\ Sent(q)'
  <2>1. run'.step[q] = run.step[q] /\ run'.got[q] = run.got[q]
    BY <1>4, <1>8
  <2>2. Asks(q) /\ Got(q) /\ Sent(q) /\ BaseOf(q) \in Bases
    BY <1>3, PinIs
  <2>3. Asks(q)'
    BY <1>1, <1>3, <1>8, <1>10, <1>12, <1>13, <2>1, <2>2 DEF Asks, Follows, Claimed
  <2>4. Sent(q)'
    BY <1>1, <2>1, <2>2 DEF Sent
  <2>5. WasLocked(q) => WasLocked(q)'
    BY <1>1, <1>8, <2>1 DEF WasLocked
  <2>6. Looked(q) /\ Follows(q) => Looked(q)'
    <3> SUFFICES ASSUME Looked(q), Follows(q) PROVE Looked(q)'
      OBVIOUS
    <3>1. VersionType(pin[q]) \in Kinds /\ VersionType(pin[q]) # "none"
      BY <1>3, PinIs DEF Kinds
    <3>2. CASE BaseOf(q) = b
      <4>1. run.claims[b] = kind /\ VersionType(pin[q]) = kind /\ run.got[q] = known
        BY <3>1, <3>2 DEF Looked, Found
      <4>2. known # None
        BY <1>3, <4>1 DEF CopyOf, Claimed, Found
      <4> QED BY <1>1, <1>10, <2>1, <3>2, <4>1, <4>2 DEF Looked, Found, version
    <3>3. CASE BaseOf(q) # b
      BY <1>1, <1>13, <2>1, <2>2, <3>1, <3>3 DEF Looked, Claimed, Found
    <3> QED BY <3>2, <3>3
  <2>7. Got(q)'
    BY <1>1, <2>1, <2>2, <2>5, <2>6 DEF Got, Has, Follows
  <2> QED BY <2>3, <2>4, <2>7
<1>17. Deploying'
  BY <1>9, <1>14, <1>15, <1>16 DEF Deploying
<1>18. Registering'
  BY <1>1, <1>8 DEF Registering
<1>19. Healed'
  <2> SUFFICES ASSUME healed, Agree(Places), NEW q \in Places
               PROVE  Peek(lock, q) # None /\ (Peek(run.lock, q))' # None
    BY <1>1 DEF Healed, Answered, Agree, Peek
  <2>1. Peek(lock, q) # None /\ Peek(run.lock, q) # None
    BY <1>1 DEF IInv, Healed, Answered
  <2>2. CASE Follows(q) /\ BaseOf(q) = b
    <3>1. VersionType(pin[q]) = kind
      BY <1>2, <1>3, <2>2 DEF Agree, Follows
    <3> QED BY <1>1, <1>6, <1>11, <2>1, <2>2, <3>1 DEF Peek, Follows, None
  <2>3. CASE ~(Follows(q) /\ BaseOf(q) = b)
    <3>1. BaseOf(q) \in Bases
      BY <1>3, PinIs
    <3> QED BY <1>1, <1>13, <2>1, <2>3, <3>1 DEF Peek, Follows
  <2> QED BY <2>1, <2>2, <2>3
<1> QED BY <1>1, <1>3, <1>5, <1>2, <1>8, <1>17, <1>18, <1>19 DEF IInv, TypeOK

-----------------------------------------------------------------------------
(* The end of a deploy.                                                    *)

\* What was resolved tells which versions a clean deploy was built from.
LEMMA DeployTells ==
    ASSUME IInv, run.is = "deploy" PROVE Told(run.lock)
<1> SUFFICES ASSUME Clean, Agree(run.places), NEW p \in run.places
             PROVE  Peek(run.lock, p) = shipped[p]
  BY DEF Told
<1> DEFINE b == BaseOf(p)
<1>1. /\ p \in Places /\ b \in Bases /\ CopyOf(b) /\ Got(p) /\ Sent(p)
      /\ Follows(p) => VersionType(pin[p]) \in Kinds
  BY DeployIs, PinIs
<1>2. run.got[p] = shipped[p] /\ Has(p)
  BY <1>1 DEF Clean, Sent, Has
<1>3. CASE IsNumber(pin[p])
  BY <1>1, <1>2, <1>3 DEF Got, Peek
<1>4. CASE Follows(p) /\ Looked(p)
  <2>1. Claimed(b)
    BY <1>1, <1>4 DEF Looked, Claimed, Kinds
  <2> QED BY <1>1, <1>2, <1>4, <2>1 DEF CopyOf, Looked, Peek, Follows
<1>5. CASE Follows(p) /\ WasLocked(p)
  <2>1. ~Claimed(b)
    <3> SUFFICES ASSUME Claimed(b) PROVE FALSE
      OBVIOUS
    <3>1. PICK q \in run.places :
            BaseOf(q) = b /\ Follows(q) /\ VersionType(pin[q]) = run.claims[b]
      BY <1>1 DEF CopyOf
    <3>2. VersionType(pin[q]) = VersionType(pin[p])
      BY <1>5, <3>1 DEF Agree, Follows
    <3> QED BY <1>1, <1>5, <3>1, <3>2 DEF CopyOf, WasLocked
  <2> QED BY <1>1, <1>2, <1>5, <2>1 DEF CopyOf, WasLocked, Peek, Follows
<1> QED BY <1>1, <1>2, <1>3, <1>4, <1>5 DEF Got, Follows

\* A deploy that writes nothing has resolved what the lock says.
LEMMA CleanCopy ==
    ASSUME IInv, run.is = "deploy", ~run.dirty PROVE run.lock = lock
<1>1. \A b \in Bases : run.lock[b] = lock[b]
  BY DeployIs DEF CopyOf
<1>2. run.lock \in [Bases -> Entries] /\ lock \in [Bases -> Entries]
  BY DeployIs, DeployParts DEF TypeOK, Locks
<1> QED BY <1>1, <1>2

\* What a flush leaves: the lock, or what the deploy made of it.
LEMMA FlushedLeaves ==
    ASSUME IInv, NEW failed \in BOOLEAN, Flushed(failed)
    PROVE  /\ lock' \in {lock, run.lock} /\ lock' \in Locks
           /\ ~failed => lock' = run.lock
           /\ faults' \in 0 .. MaxFaults /\ (failed => faults' # faults)
           /\ run' = NoRun \/ /\ run' = [run EXCEPT !.is = "register"]
                              /\ run.watch /\ Clean
<1>1. run.is = "deploy" /\ MayFail(failed)
  BY DEF Flushed
<1>2. run.lock \in Locks /\ TypeOK /\ lock \in Locks
  BY <1>1, DeployIs, DeployParts DEF TypeOK
<1>3. faults' \in 0 .. MaxFaults /\ (failed => faults' # faults)
  BY <1>1, <1>2, DeploymentsAssumption DEF MayFail, TypeOK
<1>4. ~run.dirty => run.lock = lock
  BY <1>1, CleanCopy
<1> QED BY <1>2, <1>3, <1>4 DEF Flushed

LEMMA FlushedKeeps ==
    ASSUME IInv, NEW failed \in BOOLEAN, Flushed(failed) PROVE IInv'
<1>1. /\ run.is = "deploy"
      /\ UNCHANGED <<head, pin, shipped, monitors, healed, commands>>
  BY DEF Flushed
<1>2. PICK places \in SUBSET Places : places = run.places /\ run \in Deploys(places)
  BY <1>1, DeployIs
<1>3. /\ lock' \in {lock, run.lock} /\ lock' \in Locks
      /\ faults' \in 0 .. MaxFaults
      /\ run' = NoRun \/ (run' = [run EXCEPT !.is = "register"] /\ run.watch /\ Clean)
  BY FlushedLeaves
<1>4. TypeOK
  BY DEF IInv
<1>5. Healed'
  <2>1. run'.is # "deploy"
    BY <1>2, <1>3 DEF NoRun, Deploys
  <2> QED BY <1>1, <1>3, <2>1 DEF IInv, Healed, Answered, Peek, Agree
<1>6. CASE run' = NoRun
  <2>1. TypeOK'
    BY <1>1, <1>3, <1>4, <1>6 DEF TypeOK
  <2> QED BY <1>5, <1>6, <2>1 DEF IInv, Deploying, Registering, NoRun
<1>7. CASE run' = [run EXCEPT !.is = "register"] /\ Clean
  <2>1. /\ run' \in Deploys(places) /\ run'.is = "register"
        /\ run'.places = places /\ run'.lock = run.lock /\ run'.step = run.step
    BY <1>2, <1>7 DEF Deploys
  <2>2. TypeOK'
    BY <1>1, <1>3, <1>4, <2>1 DEF TypeOK
  <2>3. Told(run.lock)
    BY <1>1, DeployTells
  <2>4. Clean' /\ (Agree(run.places)' <=> Agree(run.places))
    BY <1>1, <1>2, <1>7, <2>1 DEF Clean, Agree
  <2>5. Told(run.lock)'
    BY <1>1, <1>2, <1>7, <2>1, <2>3, <2>4 DEF Told, Peek
  <2> QED BY <1>5, <2>1, <2>2, <2>4, <2>5 DEF IInv, Deploying, Registering
<1> QED BY <1>3, <1>6, <1>7

\* What a registration sends has the type of a monitor's list.
LEMMA WatchesType ==
    ASSUME TypeOK, NEW file \in Locks, NEW keyed \in BOOLEAN
    PROVE  Watches(file, keyed) \in SUBSET [place : Places, baseline : Nat]
<1>1. ASSUME NEW p \in Places PROVE Watch(file, keyed, p) \in [place : Places, baseline : Nat]
  <2>1. file[BaseOf(p)].version \in Nat /\ pin[p].at \in Nat
    BY PinIs, EntryIs DEF Locks
  <2> QED BY <2>1 DEF Watch, Peek, None
<1> QED BY <1>1 DEF Watches, Candidates, Of

LEMMA PostType ==
    ASSUME TypeOK, NEW file \in Locks, NEW keyed \in BOOLEAN, NEW sent \in BOOLEAN,
           NEW name \in Names, Post(sent, name, Watches(file, keyed))
    PROVE  monitors' \in [Names -> SUBSET [place : Places, baseline : Nat]]
BY WatchesType DEF Post, TypeOK

\* Nothing runs after these, and what an upgrade healed stays so.
LEMMA RegisterKeeps ==
    ASSUME IInv, NEW sent \in BOOLEAN, NEW failed \in BOOLEAN, Register(sent, failed)
    PROVE  IInv'
<1>1. /\ run.is = "register" /\ run' = NoRun /\ MayFail(failed)
      /\ Post(sent, run.monitor, Watches(run.lock, run.keyed))
      /\ UNCHANGED <<head, pin, lock, shipped, healed, commands>>
  BY DEF Register
<1>2. TypeOK /\ run.lock \in Locks /\ run.keyed \in BOOLEAN /\ run.monitor \in Names
  BY <1>1, RunIsDeploy, DeployParts DEF IInv, Names
<1>3. monitors' \in [Names -> SUBSET [place : Places, baseline : Nat]]
  BY <1>1, <1>2, PostType
<1>4. faults' \in 0 .. MaxFaults
  BY <1>1, <1>2, DeploymentsAssumption DEF MayFail, TypeOK
<1>5. TypeOK'
  BY <1>1, <1>2, <1>3, <1>4 DEF TypeOK
<1> QED BY <1>1, <1>5 DEF IInv, Deploying, Registering, Healed, Answered, Peek, Agree, NoRun

LEMMA DryRunKeeps ==
    ASSUME IInv, DryRun PROVE IInv'
<1>1. /\ run = NoRun /\ run' = run /\ commands' = commands + 1 /\ commands < MaxCommands
      /\ Post(TRUE, "dryrun", Watches(lock, FALSE))
      /\ UNCHANGED <<head, pin, lock, shipped, healed, faults>>
  BY DEF DryRun, Command
<1>2. TypeOK /\ lock \in Locks /\ "dryrun" \in Names
  BY DEF IInv, TypeOK, Names
<1>3. monitors' \in [Names -> SUBSET [place : Places, baseline : Nat]]
  BY <1>1, <1>2, PostType
<1>4. commands' \in 0 .. MaxCommands
  BY <1>1, <1>2, DeploymentsAssumption DEF TypeOK
<1>5. TypeOK'
  BY <1>1, <1>2, <1>3, <1>4 DEF TypeOK
<1> QED BY <1>1, <1>5 DEF IInv, Deploying, Registering, Healed, Answered, Peek, Agree, NoRun

-----------------------------------------------------------------------------
(* What happens between deploys.                                           *)

LEMMA EditedKeeps ==
    ASSUME IInv, NEW b \in Bases, NEW kind \in Kinds, Edited(b, kind) PROVE IInv'
<1>1. UNCHANGED <<pin, lock, shipped, monitors, run, healed, commands, faults>>
  BY DEF Edited
<1>2. head' \in [Bases -> [Kinds -> Versions]]
  <2>1. head \in [Bases -> [Kinds -> Versions]]
    BY DEF IInv, TypeOK
  <2>2. Newest(b) + 1 \in Versions
    BY <2>1 DEF Newest, Kinds, Versions, None
  <2>3. head' = [head EXCEPT ![b] = [head[b] EXCEPT ![kind] = Newest(b) + 1]]
    BY <2>1 DEF Edited
  <2>4. [head[b] EXCEPT ![kind] = Newest(b) + 1] \in [Kinds -> Versions]
    BY <2>1, <2>2
  <2> QED BY <2>1, <2>3, <2>4
<1>3. TypeOK'
  BY <1>1, <1>2 DEF IInv, TypeOK
<1>4. Deploying'
  BY <1>1 DEF IInv, Deploying, CopyOf, Claimed, Found, Asks, Got, Has, Looked, WasLocked,
              Sent, Follows
<1>5. Registering' /\ Healed'
  BY <1>1 DEF IInv, Registering, Told, Clean, Healed, Answered, Peek, Agree
<1> QED BY <1>3, <1>4, <1>5 DEF IInv

\* A deploy begins with a copy of the lock, and claims nothing.
LEMMA DeployKeeps ==
    ASSUME IInv, NEW chosen \in SUBSET Places, NEW options \in Options,
           Deploy(chosen, options)
    PROVE  IInv'
<1>1. /\ commands' = commands + 1 /\ commands < MaxCommands
      /\ UNCHANGED <<head, pin, lock, shipped, monitors, healed, faults>>
      /\ ~(options.frozen /\ options.refresh)
  BY DEF Deploy, Command
<1>2. TypeOK /\ lock \in Locks
  BY DEF IInv, TypeOK
<1>3. commands' \in 0 .. MaxCommands
  BY <1>1, <1>2, DeploymentsAssumption DEF TypeOK
<1>4. run' = [is |-> "deploy", places |-> chosen, frozen |-> options.frozen,
              refresh |-> options.refresh, watch |-> options.watch,
              keyed |-> options.keyed, monitor |-> options.monitor,
              lock |-> lock, dirty |-> FALSE,
              step |-> [p \in chosen |-> "waiting"],
              got |-> [p \in chosen |-> None],
              entry |-> [p \in chosen |-> NoEntry],
              claims |-> [b \in Bases |-> "none"],
              inflight |-> [k \in Bases \X Kinds |-> None]]
  BY DEF Deploy
<1>5. /\ run' \in Deploys(chosen) /\ run'.is = "deploy" /\ run'.places = chosen
      /\ run'.lock = lock
      /\ \A p \in chosen : run'.step[p] = "waiting"
      /\ \A b \in Bases : run'.claims[b] = "none"
  BY <1>2, <1>4 DEF Deploys, Options, Entries, NoEntry, None
<1>6. TypeOK'
  BY <1>1, <1>2, <1>3, <1>5 DEF TypeOK
<1>7. Deploying'
  <2>1. ASSUME NEW b \in Bases PROVE CopyOf(b)'
    BY <1>1, <1>5 DEF CopyOf, Claimed
  <2>2. ASSUME NEW p \in chosen PROVE Asks(p)' /\ Got(p)' /\ Sent(p)'
    BY <1>5 DEF Asks, Got, Has, Sent
  <2> QED BY <1>5, <2>1, <2>2 DEF Deploying
<1>8. Registering' /\ Healed'
  BY <1>1, <1>5 DEF IInv, Registering, Healed, Answered, Peek, Agree
<1> QED BY <1>6, <1>7, <1>8 DEF IInv

LEMMA EditKeeps ==
    ASSUME IInv, NEW p \in Places, NEW version \in Edits, Edit(p, version) PROVE IInv'
<1>1. /\ run = NoRun /\ commands' = commands + 1 /\ commands < MaxCommands
      /\ pin' = [pin EXCEPT ![p] = version] /\ healed' = FALSE
      /\ UNCHANGED <<head, lock, shipped, monitors, run, faults>>
  BY DEF Edit, Command
<1>2. TypeOK
  BY DEF IInv
<1>3. pin' \in [Places -> Pins] /\ commands' \in 0 .. MaxCommands
  BY <1>1, <1>2, DeploymentsAssumption DEF TypeOK
<1>4. TypeOK'
  BY <1>1, <1>2, <1>3 DEF TypeOK
<1> QED BY <1>1, <1>4 DEF IInv, Deploying, Registering, Healed, NoRun

\* The entries that an upgrade leaves.
LEMMA LockedType ==
    ASSUME TypeOK, NEW refs \in SUBSET Places, \A p \in refs : IsKeyword(pin[p]),
           NEW prune \in BOOLEAN
    PROVE  /\ Locked(lock, refs, prune) \in Locks
           /\ \A q \in refs : \E p \in refs :
                /\ BaseOf(p) = BaseOf(q)
                /\ Locked(lock, refs, prune)[BaseOf(q)].from = pin[p].as
                /\ Locked(lock, refs, prune)[BaseOf(q)].version \in Versions
<1> DEFINE ref(b) == CHOOSE q \in refs : BaseOf(q) = b
           entry(b) == [version |-> head[b][pin[ref(b)].as], from |-> pin[ref(b)].as]
<1>1. ASSUME NEW b \in Bases, \E p \in refs : BaseOf(p) = b
      PROVE  /\ ref(b) \in refs /\ BaseOf(ref(b)) = b
             /\ entry(b) \in Entries /\ entry(b).version \in Versions
             /\ entry(b).from = pin[ref(b)].as
  <2>1. ref(b) \in refs /\ BaseOf(ref(b)) = b
    BY <1>1
  <2>2. pin[ref(b)].as \in Kinds
    BY <2>1 DEF IsKeyword
  <2>3. head[b][pin[ref(b)].as] \in Versions
    BY <2>2 DEF TypeOK
  <2> HIDE DEF ref
  <2> QED BY <2>1, <2>2, <2>3 DEF Entries
<1>2. Locked(lock, refs, prune) =
        [b \in Bases |-> IF \E p \in refs : BaseOf(p) = b THEN entry(b)
                         ELSE IF prune THEN NoEntry ELSE lock[b]]
  BY DEF Locked
<1> HIDE DEF entry, ref
<1>3. NoEntry \in Entries /\ lock \in [Bases -> Entries]
  BY DEF TypeOK, Locks, Entries
<1>4. Locked(lock, refs, prune) \in Locks
  BY <1>1, <1>2, <1>3 DEF Locks
<1>5. ASSUME NEW q \in refs
      PROVE  \E p \in refs :
               /\ BaseOf(p) = BaseOf(q)
               /\ Locked(lock, refs, prune)[BaseOf(q)].from = pin[p].as
               /\ Locked(lock, refs, prune)[BaseOf(q)].version \in Versions
  <2>1. BaseOf(q) \in Bases
    BY DEF Bases
  <2> QED BY <1>1, <1>2, <2>1
<1> QED BY <1>4, <1>5

\* A keyword is its own kind; nothing is a keyword and a number.
LEMMA KeywordIs ==
    ASSUME NEW v, IsKeyword(v) PROVE ~IsNumber(v) /\ VersionType(v) = v.as
BY DEF IsKeyword, IsNumber, VersionType, Kinds

LEMMA UpgradeKeeps ==
    ASSUME IInv, NEW targets \in SUBSET Targets, NEW refs \in SUBSET Places,
           NEW inConfig \in BOOLEAN, NEW inLock \in BOOLEAN,
           Upgrade(targets, refs, inConfig, inLock)
    PROVE  IInv'
<1> DEFINE all == {p \in Places : TargetOf(p) \in targets}
           dynamic == {p \in all : IsKeyword(pin[p])}
           prune == targets = Targets
<1>1. /\ run = NoRun /\ run' = run /\ commands' = commands + 1 /\ commands < MaxCommands
      /\ refs \subseteq dynamic
      /\ {BaseOf(p) : p \in refs} = {BaseOf(p) : p \in dynamic}
      /\ pin' = IF inConfig THEN Repinned(all \ dynamic) ELSE pin
      /\ lock' = IF inLock THEN Locked(lock, refs, prune) ELSE lock
      /\ healed' = (targets = Targets /\ inConfig /\ inLock)
      /\ UNCHANGED <<head, shipped, monitors, faults>>
  BY DEF Upgrade, Command, Commit
<1>2. TypeOK
  BY DEF IInv
<1>3. ASSUME NEW p \in Places
      PROVE  Number(head[BaseOf(p)].published) \in Pins /\ head[BaseOf(p)].published \in Versions
  <2>1. head[BaseOf(p)] \in [Kinds -> Versions] /\ "published" \in Kinds
    BY <1>2 DEF TypeOK, Bases, Kinds
  <2>2. head[BaseOf(p)].published \in Versions
    BY <2>1
  <2> QED BY <2>2 DEF Number, Pins, Versions
<1>4. pin' \in [Places -> Pins]
  BY <1>1, <1>2, <1>3 DEF Repinned, TypeOK
<1>5. /\ lock' \in Locks
      /\ healed' => \A q \in refs : \E p \in refs :
           /\ BaseOf(p) = BaseOf(q)
           /\ lock'[BaseOf(q)].from = pin[p].as
           /\ lock'[BaseOf(q)].version \in Versions
  <2>1. \A p \in refs : IsKeyword(pin[p])
    BY <1>1
  <2>2. lock \in Locks /\ prune \in BOOLEAN
    BY <1>2 DEF TypeOK
  <2> QED BY <1>1, <1>2, <2>1, <2>2, LockedType
<1>6. TypeOK'
  <2>1. commands' \in 0 .. MaxCommands
    BY <1>1, <1>2, DeploymentsAssumption DEF TypeOK
  <2>2. healed' \in BOOLEAN
    BY <1>1
  <2> QED BY <1>1, <1>2, <1>4, <1>5, <2>1, <2>2 DEF TypeOK
<1>7. Healed'
  <2> SUFFICES ASSUME healed', Agree(Places)', NEW q \in Places PROVE Peek(lock, q)' # None
    BY <1>1 DEF Healed, Answered, NoRun
  <2>1. all = Places /\ pin' = Repinned(Places \ dynamic)
    BY <1>1 DEF Targets
  <2>2. CASE q \in dynamic
    <3>1. pin'[q] = pin[q] /\ IsKeyword(pin[q])
      BY <2>1, <2>2 DEF Repinned
    <3>2. PICK r \in refs : BaseOf(r) = BaseOf(q)
      BY <1>1, <2>2
    <3>3. PICK p \in refs : /\ BaseOf(p) = BaseOf(r)
                            /\ lock'[BaseOf(r)].from = pin[p].as
                            /\ lock'[BaseOf(r)].version \in Versions
      BY <1>5
    <3>4. p \in Places /\ IsKeyword(pin[p]) /\ pin'[p] = pin[p]
      BY <1>1, <2>1 DEF Repinned
    <3>5. VersionType(pin[p]) = pin[p].as /\ ~IsNumber(pin[p]) /\ ~IsNumber(pin[q])
      BY <3>1, <3>4, KeywordIs
    <3>6. VersionType(pin[q]) = pin[p].as
      BY <3>1, <3>2, <3>3, <3>4, <3>5 DEF Agree
    <3> QED BY <3>1, <3>2, <3>3, <3>5, <3>6 DEF Peek, Versions
  <2>3. CASE q \notin dynamic
    <3>1. pin'[q] = Number(head[BaseOf(q)].published)
      BY <2>1, <2>3 DEF Repinned
    <3> QED BY <1>3, <3>1 DEF Peek, IsNumber, Number, Versions
  <2> QED BY <2>2, <2>3
<1> QED BY <1>1, <1>6, <1>7 DEF IInv, Deploying, Registering, NoRun

LEMMA PromoteKeeps ==
    ASSUME IInv, NEW from, NEW to, NEW confirmed \in BOOLEAN, Promote(from, to, confirmed)
    PROVE  IInv'
<1> DEFINE pinned == {p \in Of(from) : pin[p].as # "absent"}
           source(p) == {q \in pinned : BaseOf(q) = BaseOf(p)}
           copied == [p \in Places |-> IF p \in Of(to) /\ source(p) # {}
                                         THEN pin[CHOOSE q \in source(p) : TRUE]
                                       ELSE pin[p]]
<1>1. /\ run = NoRun /\ run' = run /\ commands' = commands + 1 /\ commands < MaxCommands
      /\ pin' = IF confirmed THEN copied ELSE pin
      /\ healed' = (healed /\ pin' = pin)
      /\ UNCHANGED <<head, lock, shipped, monitors, faults>>
  BY DEF Promote, Command, Commit
<1>2. TypeOK
  BY DEF IInv
<1>3. copied \in [Places -> Pins]
  <2>1. ASSUME NEW p \in Places, source(p) # {} PROVE (CHOOSE q \in source(p) : TRUE) \in Places
    BY <2>1 DEF Of
  <2> QED BY <1>2, <2>1 DEF TypeOK
<1>4. TypeOK'
  <2>1. commands' \in 0 .. MaxCommands
    BY <1>1, <1>2, DeploymentsAssumption DEF TypeOK
  <2>2. healed' \in BOOLEAN /\ pin' \in [Places -> Pins]
    BY <1>1, <1>2, <1>3 DEF TypeOK
  <2> QED BY <1>1, <1>2, <2>1, <2>2 DEF TypeOK
<1>5. Healed'
  <2>1. healed' => healed /\ pin' = pin /\ lock' = lock
    BY <1>1
  <2> QED BY <1>1, <2>1 DEF IInv, Healed, Answered, Peek, Agree, NoRun
<1> QED BY <1>1, <1>4, <1>5 DEF IInv, Deploying, Registering, NoRun

-----------------------------------------------------------------------------
(* The theorems.                                                           *)

LEMMA InitHolds == Init => IInv
<1> SUFFICES ASSUME Init PROVE IInv
  OBVIOUS
<1>1. TypeOK
  <2>1. lock \in Locks
    BY DEF Init, Locks, Entries
  <2>2. /\ head \in [Bases -> [Kinds -> Versions]] /\ shipped \in [Places -> Nat]
        /\ monitors \in [Names -> SUBSET [place : Places, baseline : Nat]]
    BY DEF Init, Versions, None
  <2>3. pin \in [Places -> Pins]
    BY DeploymentsAssumption DEF Init
  <2>4. 0 \in 0 .. MaxCommands /\ 0 \in 0 .. MaxFaults
    BY DeploymentsAssumption
  <2>5. run = NoRun /\ healed \in BOOLEAN /\ commands \in 0 .. MaxCommands
    BY <2>4 DEF Init
  <2>6. faults \in 0 .. MaxFaults
    BY <2>4 DEF Init
  <2> QED BY <2>1, <2>2, <2>3, <2>5, <2>6 DEF TypeOK
<1> QED BY <1>1 DEF Init, IInv, Deploying, Registering, Healed, NoRun

LEMMA StepKeeps == IInv /\ [Next]_vars => IInv'
<1> SUFFICES ASSUME IInv, [Next]_vars PROVE IInv'
  OBVIOUS
<1>1. CASE UNCHANGED vars
  <2>1. TypeOK' /\ Registering' /\ Healed'
    BY <1>1 DEF IInv, TypeOK, Registering, Told, Clean, Healed, Answered, Peek, Agree, vars
  <2>2. Deploying'
    BY <1>1 DEF IInv, Deploying, CopyOf, Claimed, Found, Asks, Got, Has, Looked,
                WasLocked, Sent, Follows, vars
  <2> QED BY <2>1, <2>2 DEF IInv
<1>2. CASE DryRun \/ \E b \in Bases, kind \in Kinds : Edited(b, kind)
  BY <1>2, DryRunKeeps, EditedKeeps
<1>3. CASE \E places \in SUBSET Places, o \in {x \in Options : Chosen(x)} : Deploy(places, o)
  BY <1>3, DeployKeeps
<1>4. CASE \E p \in Places, version \in Edits : Edit(p, version)
  BY <1>4, EditKeeps
<1>5. CASE \E targets \in SUBSET Targets, refs \in SUBSET Places,
              inConfig, inLock \in BOOLEAN : Upgrade(targets, refs, inConfig, inLock)
  BY <1>5, UpgradeKeeps
<1>6. CASE \E from, to \in Targets, confirmed \in BOOLEAN : Promote(from, to, confirmed)
  BY <1>6, PromoteKeeps
<1>7. CASE run # NoRun /\ DeployStep
  <2>1. ASSUME NEW failed \in BOOLEAN, NEW p \in run.places, Answer(p, failed) PROVE IInv'
    <3>1. CASE failed \/ run.claims[BaseOf(p)] \notin {"none", VersionType(pin[p])}
      BY <2>1, <3>1, LookupFails
    <3>2. CASE failed = FALSE /\ run.claims[BaseOf(p)] \in {"none", VersionType(pin[p])}
      BY <2>1, <3>2, LookupAnswers
    <3> QED BY <3>1, <3>2
  <2>2. ASSUME NEW failed \in BOOLEAN, NEW p \in run.places, Upload(p, failed) PROVE IInv'
    BY <2>2, UploadKeeps
  <2>3. ASSUME NEW failed \in BOOLEAN, Flushed(failed) PROVE IInv'
    BY <2>3, FlushedKeeps
  <2>4. ASSUME NEW p \in run.places, Resolve(p) PROVE IInv'
    BY <2>4, ResolveKeeps
  <2>5. ASSUME NEW sent \in BOOLEAN, NEW failed \in BOOLEAN, Register(sent, failed) PROVE IInv'
    BY <2>5, RegisterKeeps
  <2> QED BY <1>7, <2>1, <2>2, <2>3, <2>4, <2>5 DEF DeployStep
<1> QED BY <1>1, <1>2, <1>3, <1>4, <1>5, <1>6, <1>7 DEF Next

LEMMA InvariantHolds == Spec => []IInv
BY InitHolds, StepKeeps, PTL DEF Spec

\* Every variable keeps its type: the lock holds entries with a version, monitors the
\* lists of places, and a deploy what its places ask for.
THEOREM DeploymentsTypeCorrect == Spec => []TypeOK
<1>1. IInv => TypeOK
  BY DEF IInv
<1> QED BY <1>1, InvariantHolds, PTL

\* Whatever moves while a deploy resolves, and whatever fails: places that follow one
\* base place in one way get one version of it, and a frozen deploy what the lock says.
THEOREM BuiltFromOneVersion == Spec => []OneVersion
<1>1. IInv => OneVersion
  <2> SUFFICES ASSUME IInv, run.is = "deploy" PROVE OneVersion
    BY DEF OneVersion
  <2>1. ASSUME NEW p \in run.places, NEW q \in run.places, Has(p), Has(q),
               BaseOf(p) = BaseOf(q), pin[p] = pin[q]
        PROVE  run.got[p] = run.got[q]
    <3>1. /\ Got(p) /\ Got(q) /\ CopyOf(BaseOf(p)) /\ BaseOf(p) \in Bases
          /\ Follows(p) => VersionType(pin[p]) \in Kinds
      BY DeployIs, PinIs
    <3>2. ~(Follows(p) /\ (Looked(p) \/ Looked(q)) /\ (WasLocked(p) \/ WasLocked(q)))
      BY <2>1, <3>1 DEF Looked, WasLocked, CopyOf, Claimed, Kinds
    <3> QED BY <2>1, <3>1, <3>2 DEF Got, Looked, WasLocked, Follows
  <2>2. ASSUME run.frozen, NEW p \in run.places, Has(p) PROVE run.got[p] = Peek(lock, p)
    <3>1. /\ Got(p) /\ CopyOf(BaseOf(p)) /\ BaseOf(p) \in Bases
          /\ Follows(p) => VersionType(pin[p]) \in Kinds
      BY DeployIs, PinIs
    <3>2. ~(Follows(p) /\ Looked(p))
      BY <2>2, <3>1 DEF Looked, CopyOf, Claimed, Kinds
    <3> QED BY <2>2, <3>1, <3>2 DEF Got, WasLocked, Peek, Follows
  <2> QED BY <2>1, <2>2 DEF OneVersion, Has
<1> QED BY <1>1, InvariantHolds, PTL

\* After an upgrade of everything that the user confirmed, no frozen deploy is refused.
THEOREM UpgradesHeal == Spec => []UpgradeHeals
<1>1. IInv => UpgradeHeals
  BY DEF IInv, Healed, Answered, UpgradeHeals
<1> QED BY <1>1, InvariantHolds, PTL

\* Only a flush ends a deploy, and nothing else writes the lock while one runs.
LEMMA WhoEnds ==
    ASSUME IInv, Next, run.is = "deploy", run'.is # "deploy"
    PROVE  \E failed \in BOOLEAN : Flushed(failed)
<1>1. run # NoRun
  BY DEF NoRun
<1>2. PICK places \in SUBSET Places : places = run.places /\ run \in Deploys(places)
  BY DeployIs
<1>3. ASSUME NEW failed \in BOOLEAN, NEW p \in run.places, Answer(p, failed)
      PROVE  run'.is = run.is
  BY <1>2, <1>3 DEF Answer, Step, Deploys
<1>4. ASSUME NEW failed \in BOOLEAN, NEW p \in run.places, Upload(p, failed)
      PROVE  run'.is = run.is
  BY <1>2, <1>4 DEF Upload, Step, Deploys
<1>5. ASSUME NEW p \in run.places, Resolve(p) PROVE run'.is = run.is
  BY <1>2, <1>5 DEF Resolve, Step, Deploys
<1>6. ASSUME NEW b, NEW kind, Edited(b, kind) PROVE run'.is = run.is
  BY <1>6 DEF Edited
<1> QED BY <1>1, <1>3, <1>4, <1>5, <1>6
        DEF Next, DeployStep, Deploy, DryRun, Edit, Upgrade, Promote, Command, Register

\* A clean deploy whose lock could be written leaves a config and a lock that tell what it
\* was built from, and a frozen one leaves the lock alone.
THEOREM LockIsTold == Spec => LockTells
<1> DEFINE Tells ==
      run.is = "deploy" /\ run' # run /\ run'.is # "deploy" =>
         /\ Clean /\ Agree(run.places) /\ faults' = faults =>
              \A p \in run.places : Peek(lock', p) = shipped[p]
         /\ \A x \in Bases : lock'[x] # lock[x] =>
              ~run.frozen /\ \E p \in run.places : BaseOf(p) = x
<1>1. IInv /\ [Next]_vars => [Tells]_vars
  <2> SUFFICES ASSUME IInv, Next, run.is = "deploy", run'.is # "deploy" PROVE Tells
    OBVIOUS
  <2>1. PICK failed \in BOOLEAN : Flushed(failed)
    BY WhoEnds
  <2>2. /\ lock' \in {lock, run.lock} /\ (~failed => lock' = run.lock)
        /\ failed => faults' # faults
    BY <2>1, FlushedLeaves
  <2>3. Told(run.lock)
    BY DeployTells
  <2>4. ASSUME NEW x \in Bases, run.lock[x] # lock[x]
        PROVE  ~run.frozen /\ \E p \in run.places : BaseOf(p) = x
    BY <2>4, DeployIs DEF CopyOf
  <2> QED BY <2>2, <2>3, <2>4 DEF Told
<1>2. Spec => [][Tells]_vars
  BY <1>1, InvariantHolds, PTL DEF Spec
<1> QED BY <1>2 DEF LockTells

\* Only a registration and a dry run change a monitor.
LEMMA WhoRegisters ==
    ASSUME IInv, Next, monitors' # monitors
    PROVE  DryRun \/ \E sent, failed \in BOOLEAN : Register(sent, failed)
BY DEF Next, DeployStep, Edited, Deploy, Edit, Upgrade, Promote, Answer, Upload, Flushed, Resolve

\* The list of a monitor that is replaced is that of its whole target.
LEMMA PostLists ==
    ASSUME TypeOK, NEW file, NEW keyed \in BOOLEAN, NEW sent \in BOOLEAN,
           NEW name \in Names, Post(sent, name, Watches(file, keyed)), monitors' # monitors
    PROVE  /\ monitors'[name] = Watches(file, keyed)
           /\ \A n \in Names : n # name => monitors'[n] = monitors[n]
           /\ {w.place : w \in monitors'[name]} = {p \in Of(WatchedTarget) : Watchable(p, keyed)}
<1>1. monitors' = [monitors EXCEPT ![name] = Watches(file, keyed)]
  BY DEF Post
<1>2. /\ monitors'[name] = Watches(file, keyed)
      /\ \A n \in Names : n # name => monitors'[n] = monitors[n]
  BY <1>1 DEF TypeOK
<1>3. \A p : Watch(file, keyed, p).place = p
  BY DEF Watch
<1> QED BY <1>2, <1>3 DEF Watches, Candidates

\* A monitor is only replaced by the list of every place of its target that can be
\* watched; the baselines of places that were just deployed are what was shipped.
THEOREM RegistrationsListAll == Spec => RegistersAll
<1>1. IInv /\ [Next]_vars => [Registration]_vars
  <2> SUFFICES ASSUME IInv, Next, monitors' # monitors PROVE Registration
    BY DEF Registration
  <2>1. TypeOK
    BY DEF IInv
  <2>2. CASE DryRun
    <3>1. run = NoRun /\ Post(TRUE, "dryrun", Watches(lock, FALSE)) /\ "dryrun" \in Names
      BY <2>2 DEF DryRun, Command, Names
    <3>2. /\ monitors'["dryrun"] = Watches(lock, FALSE)
          /\ \A n \in Names : n # "dryrun" => monitors'[n] = monitors[n]
          /\ {w.place : w \in monitors'["dryrun"]}
               = {p \in Of(WatchedTarget) : Watchable(p, FALSE)}
      BY <2>1, <3>1, PostLists
    <3> QED BY <3>1, <3>2 DEF Registration
  <2>3. ASSUME NEW sent \in BOOLEAN, NEW failed \in BOOLEAN, Register(sent, failed)
        PROVE  Registration
    <3> DEFINE name == run.monitor
               keyed == run.keyed
    <3>1. run.is = "register" /\ Post(sent, name, Watches(run.lock, keyed))
      BY <2>3 DEF Register
    <3>2. run # NoRun /\ name \in Names /\ keyed \in BOOLEAN
      BY <2>1, <3>1, RunIsDeploy, DeployParts DEF Names
    <3>3. /\ monitors'[name] = Watches(run.lock, keyed)
          /\ \A n \in Names : n # name => monitors'[n] = monitors[n]
          /\ {w.place : w \in monitors'[name]} = {p \in Of(WatchedTarget) : Watchable(p, keyed)}
      BY <2>1, <3>1, <3>2, PostLists
    <3>4. ASSUME keyed, Agree(run.places), NEW w \in monitors'[name], w.place \in run.places
          PROVE  w.baseline = shipped[w.place]
      <4>1. w.baseline = Peek(run.lock, w.place)
        <5>1. PICK p : w = Watch(run.lock, keyed, p)
          BY <3>3, <3>4 DEF Watches
        <5> QED BY <3>4, <5>1 DEF Watch
      <4>2. Peek(run.lock, w.place) = shipped[w.place]
        BY <3>1, <3>4 DEF IInv, Registering, Told
      <4> QED BY <4>1, <4>2
    <3> QED BY <3>2, <3>3, <3>4 DEF Registration
  <2> QED BY <2>2, <2>3, WhoRegisters
<1>2. Spec => [][Registration]_vars
  BY <1>1, InvariantHolds, PTL DEF Spec
<1> QED BY <1>2 DEF RegistersAll

(***************************************************************************)
(* BatchRun                                                                *)
(* Files go away with the last who uses them because a build counts its    *)
(* users, the places made from it and the items that wait for it; and each *)
(* directory that belongs to none of these was left by a step that failed. *)
(***************************************************************************)

ItemSteps == {"waiting", "building", "merging", "preparing", "deploying", "running",
  "smoke", "judging", "failed", "transient", "done"}
ItemType == [step : ItemSteps, try : {1, 2}, verdict : {"none", "passed", "failed"}]
BuildType == [is : {"none", "building", "built"}, refs : Nat]
PlaceType == [item : Items, key : Keys, try : {1, 2}, merged : BOOLEAN]
ChunkType == [deploy : {"none", "running", "done"},
              exec : {"none", "uploading", "running", "done"}]
RunPhases == {"batch", "items", "register", "dispose", "end"}

BatchTypeOK ==
    /\ mode \in Modes
    /\ local \in BOOLEAN
    /\ phase \in RunPhases
    /\ combined \in {"none", "building", "built", "failed"}
    /\ chunk \in [Chunks -> ChunkType]
    /\ outcome \in {"none", "pending", "failed", "transient", "done"}
    /\ attempt \in {1, 2}
    /\ item \in [Items -> ItemType]
    /\ shared \in [Keys -> BuildType]
    /\ tracked \in SUBSET PlaceType
    /\ failures \in Nat
    /\ exit \in [code : {0, 1}, registered : BOOLEAN]

\* What is remembered of the places of an aggregated run.
ChunkSound(c) ==
    /\ c.deploy = "running" <=> c.exec = "uploading"
    /\ c.exec \in {"running", "done"} => c.deploy = "done"
ChunksSound ==
    /\ \A c \in Chunks : ChunkSound(chunk[c])
    /\ combined \in {"none", "building"} => \A c \in Chunks : chunk[c] = NoChunk
    /\ combined = "building" => phase = "batch" /\ outcome = "pending"
    /\ outcome = "done" => AllDone(chunk)
    /\ mode = "aggregated" /\ phase # "batch" /\ exit.code = 0 => AllDone(chunk)

\* What each phase of a run says of the items and of the exit code.
AllPassed == \A i \in Items : item[i].step = "done" /\ item[i].verdict = "passed"
ExitSound ==
    /\ phase \in {"batch", "items"} => exit.code = 0 /\ ~exit.registered
    /\ phase = "batch" => \A i \in Items : item[i].step = "waiting"
    /\ phase \in {"register", "dispose", "end"} =>
         \A i \in Items : item[i].step \in {"waiting", "done"}
    /\ \A i \in Items : item[i].step = "done" => item[i].verdict # "none"
    /\ exit.registered => AllPassed
    /\ phase = "register" => AllPassed
    /\ phase \in {"dispose", "end"} /\ exit.code = 0 => AllPassed

\* The places: one for each item and attempt, made from a build that exists.
PlacesSound ==
    /\ IsFiniteSet(tracked)
    /\ \A p, q \in tracked : p.item = q.item /\ p.try = q.try => p = q
    /\ \A p \in tracked :
         /\ p.try <= item[p.item].try
         /\ shared[p.key].is = "built"
         /\ p.merged => <<"merge", p.item, p.try>> \in dirs

HasPlace(i) == \E p \in tracked : p.item = i /\ p.try = item[i].try
ItemSound(i) ==
    /\ item[i].step \in {"waiting", "building"} => ~HasPlace(i)
    /\ item[i].step \in {"merging", "preparing", "deploying"} => HasPlace(i)
    /\ item[i].step = "running" /\ local => HasPlace(i)
    /\ item[i].step = "building" => shared[BuildKey(i)].is # "none"
    /\ item[i].step = "merging" =>
         /\ <<"merge", i, item[i].try>> \in dirs
         /\ \A p \in tracked : p.item = i /\ p.try = item[i].try => ~p.merged

\* A build counts its users.
OfKey(k) == {p \in tracked : p.key = k}
Awaiting(k) == {i \in Items : item[i].step = "building" /\ BuildKey(i) = k}
BuildSound(k) ==
    /\ shared[k].is = "built" <=> <<"build", k>> \in dirs
    /\ shared[k].refs = Cardinality(OfKey(k)) + Cardinality(Awaiting(k))

\* Directories nobody owns any more are those of steps that have failed.
Owned(d) ==
    \/ combined = "built" /\ d = <<"combined">>
    \/ \E k \in Keys : d = <<"build", k>>
    \/ \E p \in tracked : p.merged /\ d = <<"merge", p.item, p.try>>
    \/ \E i \in Items : item[i].step = "merging" /\ d = <<"merge", i, item[i].try>>
Left == {d \in dirs : ~Owned(d)}
LeftSound == IsFiniteSet(Left) /\ Cardinality(Left) <= failures

Kept ==
    /\ PlacesSound
    /\ \A i \in Items : ItemSound(i)
    /\ \A k \in Keys : BuildSound(k)
    /\ LeftSound

Disposed ==
    phase = "end" =>
      /\ studios = {} /\ tracked = {} /\ <<"combined">> \notin dirs
      /\ \A k \in Keys : shared[k] = NoBuild

BatchInv == BatchTypeOK /\ ChunksSound /\ ExitSound /\ Kept /\ Disposed

-----------------------------------------------------------------------------
\* The names of directories of two kinds differ.
LEMMA DirsDiffer ==
    /\ \A k : <<"build", k>> # <<"combined">> /\ <<"build", k>> # <<"unfinished">>
    /\ \A k, l : <<"build", k>> # <<"unfinished", l>>
    /\ \A k, i, t : <<"build", k>> # <<"merge", i, t>>
    /\ \A i, t : <<"combined">> # <<"merge", i, t>> /\ <<"unfinished">> # <<"merge", i, t>>
    /\ \A k : <<"combined">> # <<"unfinished", k>>
    /\ <<"combined">> # <<"unfinished">>
    /\ \A i, t, k : <<"merge", i, t>> # <<"unfinished", k>>
    /\ \A k, l : <<"build", k>> = <<"build", l>> => k = l
    /\ \A i, t, j, u : <<"merge", i, t>> = <<"merge", j, u>> => i = j /\ t = u
<1>1. \A k, x, y : <<"build", k>>[1] = "build" /\ <<"merge", x, y>>[1] = "merge"
                   /\ <<"unfinished", k>>[1] = "unfinished"
  OBVIOUS
<1>2. <<"combined">>[1] = "combined" /\ <<"unfinished">>[1] = "unfinished"
  OBVIOUS
<1>3. \A k, l : <<"build", k>> = <<"build", l>> => k = l
  OBVIOUS
<1>4. \A i, t, j, u : <<"merge", i, t>> = <<"merge", j, u>> => i = j /\ t = u
  OBVIOUS
<1> QED BY <1>1, <1>2, <1>3, <1>4

LEMMA KeysOfItems ==
  ASSUME NEW i \in Items, NEW t \in {1, 2}
  PROVE  <<KeyOf(i)>> \in Keys /\ <<i, t>> \in Keys
BY DEF Keys

LEMMA BuildKeys ==
  ASSUME BatchTypeOK, NEW i \in Items
  PROVE  BuildKey(i) \in Keys
BY KeysOfItems DEF BuildKey, BatchTypeOK, ItemType

LEMMA CountedUp ==
  ASSUME failures \in Nat, NEW result, Counted(result)
  PROVE  /\ failures' \in Nat /\ failures <= failures'
         /\ result # "ok" => failures' = failures + 1
BY DEF Counted

\* Either nothing more is left behind, or one directory by a step that failed.
LEMMA LeftStays ==
  ASSUME LeftSound, failures \in Nat, failures' \in Nat, failures <= failures',
         Left' \subseteq Left
  PROVE  LeftSound'
<1>1. IsFiniteSet(Left') /\ Cardinality(Left') <= Cardinality(Left)
  BY FS_Subset DEF LeftSound
<1>2. Cardinality(Left') \in Nat /\ Cardinality(Left) \in Nat
  BY <1>1, FS_CardinalityType DEF LeftSound
<1> QED BY <1>1, <1>2 DEF LeftSound

LEMMA LeftGrows ==
  ASSUME LeftSound, failures \in Nat, failures' = failures + 1, NEW d,
         Left' \subseteq Left \cup {d}
  PROVE  LeftSound'
<1> DEFINE More == Left \cup {d}
<1>1. IsFiniteSet(More) /\ Cardinality(More) <= Cardinality(Left) + 1
  <2>1. Cardinality(Left) \in Nat
    BY FS_CardinalityType DEF LeftSound
  <2>2. IsFiniteSet(More) /\ (Cardinality(More) = Cardinality(Left)
                              \/ Cardinality(More) = Cardinality(Left) + 1)
    BY FS_AddElement DEF LeftSound
  <2> QED BY <2>1, <2>2
<1>2. IsFiniteSet(Left') /\ Cardinality(Left') <= Cardinality(More)
  BY <1>1, FS_Subset
<1>3. Cardinality(Left') \in Nat /\ Cardinality(Left) \in Nat /\ Cardinality(More) \in Nat
  BY <1>1, <1>2, FS_CardinalityType DEF LeftSound
<1>4. Cardinality(Left) <= failures
  BY DEF LeftSound
<1> QED BY <1>1, <1>2, <1>3, <1>4 DEF LeftSound

-----------------------------------------------------------------------------
\* Item i goes to a step, an attempt and a verdict; the others stay where they are.
Others(i) == \A j \in Items : j # i => item'[j] = item[j]
Goes(i, s, t, v) ==
    /\ item' \in [Items -> ItemType]
    /\ item'[i].step = s /\ item'[i].try = t /\ item'[i].verdict = v
    /\ Others(i)

LEMMA StepGoes ==
  ASSUME BatchTypeOK, NEW i \in Items, NEW s \in ItemSteps, To(i, s)
  PROVE  Goes(i, s, item[i].try, item[i].verdict)
<1>1. item[i] \in ItemType
  BY DEF BatchTypeOK
<1>2. [item[i] EXCEPT !.step = s] \in ItemType
  BY <1>1 DEF ItemType
<1>3. item' = [item EXCEPT ![i] = [item[i] EXCEPT !.step = s]]
  BY DEF To
<1>4. item' \in [Items -> ItemType] /\ item'[i] = [item[i] EXCEPT !.step = s] /\ Others(i)
  BY <1>2, <1>3 DEF BatchTypeOK, Others
<1> QED BY <1>1, <1>4 DEF Goes, ItemType

LEMMA EndGoes ==
  ASSUME BatchTypeOK, NEW i \in Items, NEW v \in {"passed", "failed"},
         item' = [item EXCEPT ![i].step = "done", ![i].verdict = v]
  PROVE  Goes(i, "done", item[i].try, v)
<1>1. item[i] \in ItemType
  BY DEF BatchTypeOK
<1> DEFINE new == [item[i] EXCEPT !.step = "done", !.verdict = v]
<1>2. new \in ItemType /\ new.step = "done" /\ new.verdict = v /\ new.try = item[i].try
  BY <1>1 DEF ItemType, ItemSteps
<1>3. item' = [item EXCEPT ![i] = new]
  BY DEF BatchTypeOK
<1> HIDE DEF new
<1>4. item' \in [Items -> ItemType] /\ item'[i] = new /\ Others(i)
  BY <1>2, <1>3 DEF BatchTypeOK, Others
<1> QED BY <1>2, <1>4 DEF Goes

LEMMA EndsGoes ==
  ASSUME BatchTypeOK, NEW i \in Items, NEW result \in Results,
         NEW v \in {"passed", "failed"}, Ends(i, result, v)
  PROVE  \/ result = "ok" /\ Goes(i, "done", item[i].try, v)
         \/ result # "ok" /\ Goes(i, result, item[i].try, item[i].verdict)
<1>1. CASE result = "ok"
  <2>1. item' = [item EXCEPT ![i].step = "done", ![i].verdict = v]
    BY <1>1 DEF Ends, BatchTypeOK
  <2> QED BY <1>1, <2>1, EndGoes
<1>2. CASE result # "ok"
  <2>1. To(i, result)
    BY <1>2 DEF Ends, To
  <2>2. result \in ItemSteps
    BY <1>2 DEF Results, ItemSteps
  <2> QED BY <1>2, <2>1, <2>2, StepGoes
<1> QED BY <1>1, <1>2

\* Who is at none of these steps is among the busy ones.
LEMMA BusyInItems ==
  ASSUME BatchTypeOK, ExitSound, NEW i \in Items, item[i].step \notin {"waiting", "done"}
  PROVE  phase = "items" /\ exit.code = 0 /\ ~exit.registered
BY DEF ExitSound, BatchTypeOK, RunPhases

\* While the items run, the exit code is open.
LEMMA OpenExit ==
  ASSUME ExitSound, phase = "items", phase' = phase, exit' = exit,
         \A i \in Items : item'[i].step = "done" => item'[i].verdict # "none"
  PROVE  ExitSound'
BY DEF ExitSound

LEMMA ChunksStay ==
  ASSUME ChunksSound, mode' = mode, phase' = phase, aggregatedVars' = aggregatedVars,
         exit' = exit
  PROVE  ChunksSound'
BY DEF ChunksSound, ChunkSound, aggregatedVars, AllDone

LEMMA TypesStay ==
  ASSUME BatchTypeOK, mode' = mode, local' = local, phase' \in RunPhases,
         aggregatedVars' = aggregatedVars, item' \in [Items -> ItemType],
         shared' \in [Keys -> BuildType], tracked' \in SUBSET PlaceType,
         failures' \in Nat, exit' \in [code : {0, 1}, registered : BOOLEAN]
  PROVE  BatchTypeOK'
BY DEF BatchTypeOK, aggregatedVars

-----------------------------------------------------------------------------
\* An item goes on from step to step with the place it has.
LEMMA MovesOn ==
  ASSUME BatchTypeOK, Kept, NEW i \in Items, NEW s \in ItemSteps, NEW v,
         Goes(i, s, item[i].try, v),
         mode' = mode, local' = local, combined' = combined, shared' = shared,
         tracked' = tracked, dirs' = dirs,
         failures' \in Nat, failures <= failures',
         item[i].step # "building", s \notin {"waiting", "building", "merging"},
         s \in {"preparing", "deploying"} \/ (s = "running" /\ local) =>
           item[i].step \in {"preparing", "deploying"},
         item[i].step = "merging" => failures' = failures + 1
  PROVE  Kept'
<1>1. \A j \in Items : item'[j].try = item[j].try /\ (j # i => item'[j].step = item[j].step)
  BY DEF Goes, Others
<1>2. PlacesSound'
  BY <1>1 DEF Kept, PlacesSound, BatchTypeOK, PlaceType
<1>3. \A j \in Items : HasPlace(j)' <=> HasPlace(j)
  BY <1>1 DEF HasPlace
<1>4. \A j \in Items : BuildKey(j)' = BuildKey(j)
  BY <1>1 DEF BuildKey
<1>5. ASSUME NEW j \in Items PROVE ItemSound(j)'
  <2>1. CASE j = i
    BY <2>1, <1>3 DEF Kept, ItemSound, Goes
  <2>2. CASE j # i
    BY <2>2, <1>1, <1>3, <1>4 DEF Kept, ItemSound
  <2> QED BY <2>1, <2>2
<1>6. ASSUME NEW k \in Keys PROVE BuildSound(k)'
  <2>1. Awaiting(k)' = Awaiting(k)
    BY <1>1, <1>4 DEF Awaiting, Goes
  <2>2. OfKey(k)' = OfKey(k)
    BY DEF OfKey
  <2> QED BY <2>1, <2>2 DEF Kept, BuildSound
<1>7. LeftSound'
  <2>1. CASE item[i].step = "merging"
    <3>1. Left' \subseteq Left \cup {<<"merge", i, item[i].try>>}
      BY <1>1 DEF Left, Owned
    <3> QED BY <2>1, <3>1, LeftGrows DEF Kept, BatchTypeOK
  <2>2. CASE item[i].step # "merging"
    <3>1. Left' \subseteq Left
      BY <2>2, <1>1 DEF Left, Owned
    <3> QED BY <3>1, LeftStays DEF Kept, BatchTypeOK
  <2> QED BY <2>1, <2>2
<1> QED BY <1>2, <1>5, <1>6, <1>7 DEF Kept

-----------------------------------------------------------------------------
\* Counting the users of a build.
LEMMA UsersCount ==
  ASSUME Kept, NEW k \in Keys
  PROVE  /\ IsFiniteSet(OfKey(k)) /\ IsFiniteSet(Awaiting(k))
         /\ Cardinality(OfKey(k)) \in Nat /\ Cardinality(Awaiting(k)) \in Nat
<1>1. IsFiniteSet(OfKey(k))
  <2>1. OfKey(k) \subseteq tracked
    BY DEF OfKey
  <2> QED BY <2>1, FS_Subset DEF Kept, PlacesSound
<1>2. IsFiniteSet(Awaiting(k))
  <2>1. Awaiting(k) \subseteq Items
    BY DEF Awaiting
  <2> QED BY <2>1, FS_Subset, BatchAssumption
<1> QED BY <1>1, <1>2, FS_CardinalityType

\* A build that has not been started has no users.
LEMMA UnusedBuild ==
  ASSUME Kept, NEW k \in Keys, shared[k].is # "built"
  PROVE  /\ OfKey(k) = {}
         /\ shared[k].refs = Cardinality(Awaiting(k))
         /\ shared[k].is = "none" => Awaiting(k) = {} /\ shared[k].refs = 0
<1>1. OfKey(k) = {}
  BY DEF Kept, PlacesSound, OfKey
<1>2. Cardinality(OfKey(k)) = 0
  BY <1>1, FS_EmptySet
<1>3. shared[k].refs = Cardinality(Awaiting(k))
  <2>1. shared[k].refs = Cardinality(OfKey(k)) + Cardinality(Awaiting(k))
    BY DEF Kept, BuildSound
  <2>2. Cardinality(Awaiting(k)) \in Nat
    BY UsersCount
  <2> QED BY <1>2, <2>1, <2>2
<1>4. shared[k].is = "none" => Awaiting(k) = {}
  BY DEF Kept, ItemSound, Awaiting
<1> QED BY <1>1, <1>3, <1>4, FS_EmptySet

\* One more waits for a build, the first who does starts it.
LEMMA Starts ==
  ASSUME BatchTypeOK, Kept, NEW i \in Items, NEW t \in {1, 2}, NEW v,
         Goes(i, "building", t, v), item[i].step \in {"waiting", "transient"},
         item[i].try <= t, \A p \in tracked : ~(p.item = i /\ p.try = t),
         mode' = mode, local' = local, combined' = combined, tracked' = tracked,
         dirs' = dirs, failures' = failures,
         NEW k, k = BuildKey(i)',
         shared' = [shared EXCEPT ![k] = Joined(@)]
  PROVE  Kept' /\ shared' \in [Keys -> BuildType]
<1>1. k \in Keys
  BY KeysOfItems DEF BuildKey, Goes
<1>2. \A j \in Items : j # i => item'[j] = item[j] /\ BuildKey(j)' = BuildKey(j)
  BY DEF Goes, Others, BuildKey
<1>3. /\ shared[k] \in BuildType
      /\ shared[k].is = "none" => shared[k].refs = 0
  BY <1>1, UnusedBuild DEF BatchTypeOK
<1> DEFINE new == Joined(shared[k])
<1>4. /\ new \in BuildType /\ new.refs = shared[k].refs + 1
      /\ new.is # "none" /\ (new.is = "built" <=> shared[k].is = "built")
  BY <1>3 DEF BuildType, Joined
<1>5. shared' = [shared EXCEPT ![k] = new]
  OBVIOUS
<1> HIDE DEF new
<1>6. /\ shared' \in [Keys -> BuildType]
      /\ shared'[k] = new
      /\ \A l \in Keys : l # k => shared'[l] = shared[l]
  BY <1>1, <1>4, <1>5 DEF BatchTypeOK
<1>7. \A l \in Keys : /\ shared'[l].is = "built" <=> shared[l].is = "built"
                      /\ shared[l].is # "none" => shared'[l].is # "none"
  BY <1>4, <1>6
<1>8. PlacesSound'
  <2>1. \A p \in tracked : p.item \in Items /\ p.key \in Keys /\ p.try \in {1, 2}
    BY DEF BatchTypeOK, PlaceType
  <2>2. \A p \in tracked : p.try <= item'[p.item].try
    <3>1. \A p \in tracked : p.try <= item[p.item].try
      BY DEF Kept, PlacesSound
    <3>2. item[i].try \in {1, 2}
      BY DEF BatchTypeOK, ItemType
    <3> QED BY <1>2, <2>1, <3>1, <3>2 DEF Goes
  <2> QED BY <1>7, <2>1, <2>2 DEF Kept, PlacesSound
<1>9. ASSUME NEW j \in Items PROVE ItemSound(j)'
  <2>1. CASE j = i
    BY <2>1, <1>4, <1>6 DEF Kept, ItemSound, Goes, HasPlace
  <2>2. CASE j # i
    <3>1. BuildKey(j) \in Keys
      BY BuildKeys
    <3> QED BY <2>2, <3>1, <1>2, <1>7 DEF Kept, ItemSound, HasPlace
  <2> QED BY <2>1, <2>2
<1>10. ASSUME NEW l \in Keys PROVE BuildSound(l)'
  <2>1. OfKey(l)' = OfKey(l)
    BY DEF OfKey
  <2>2. shared'[l].is = "built" <=> <<"build", l>> \in dirs'
    BY <1>7 DEF Kept, BuildSound
  <2>3. CASE l = k
    <3>1. Awaiting(l)' = Awaiting(l) \cup {i} /\ i \notin Awaiting(l)
      BY <2>3, <1>2 DEF Awaiting, Goes
    <3>2. Cardinality(Awaiting(l)') = Cardinality(Awaiting(l)) + 1
      BY <3>1, UsersCount, FS_AddElement
    <3>3. shared'[l].refs = shared[l].refs + 1
      BY <2>3, <1>4, <1>6
    <3>4. shared[l].refs = Cardinality(OfKey(l)) + Cardinality(Awaiting(l))
      BY DEF Kept, BuildSound
    <3>5. Cardinality(OfKey(l)) \in Nat /\ Cardinality(Awaiting(l)) \in Nat
      BY UsersCount
    <3>6. shared'[l].refs = Cardinality(OfKey(l)) + Cardinality(Awaiting(l)')
      BY <3>2, <3>3, <3>4, <3>5
    <3> QED BY <2>1, <2>2, <3>6 DEF BuildSound
  <2>4. CASE l # k
    <3>1. Awaiting(l)' = Awaiting(l)
      BY <2>4, <1>2 DEF Awaiting, Goes
    <3> QED BY <2>1, <2>2, <2>4, <3>1, <1>6 DEF Kept, BuildSound
  <2> QED BY <2>3, <2>4
<1>11. LeftSound'
  <2>1. Left' \subseteq Left
    BY <1>2 DEF Left, Owned, Goes
  <2> QED BY <2>1, LeftStays DEF Kept, BatchTypeOK
<1> QED BY <1>6, <1>8, <1>9, <1>10, <1>11 DEF Kept

-----------------------------------------------------------------------------
\* A build that ends well may be used, one that fails fails all who waited for it.
LEMMA BuildSucceeds ==
  ASSUME BatchTypeOK, Kept, NEW k \in Keys, BuildEnded(k, "ok")
  PROVE  Kept' /\ shared' \in [Keys -> BuildType]
<1>1. /\ shared[k].is = "building" /\ item' = item /\ tracked' = tracked
      /\ mode' = mode /\ local' = local /\ combined' = combined
      /\ shared' = [shared EXCEPT ![k].is = "built"]
      /\ dirs' = dirs \cup {<<"build", k>>}
      /\ failures' = failures
  BY DEF BuildEnded, Counted, aggregatedVars, BatchTypeOK
<1>2. /\ shared' \in [Keys -> BuildType]
      /\ shared'[k].is = "built" /\ shared'[k].refs = shared[k].refs
      /\ \A l \in Keys : l # k => shared'[l] = shared[l]
  BY <1>1 DEF BatchTypeOK, BuildType
<1>3. PlacesSound'
  BY <1>1, <1>2 DEF Kept, PlacesSound, BatchTypeOK, PlaceType
<1>4. ASSUME NEW j \in Items PROVE ItemSound(j)'
  BY <1>1, <1>2, BuildKeys DEF Kept, ItemSound, HasPlace, BuildKey
<1>5. ASSUME NEW l \in Keys PROVE BuildSound(l)'
  <2>1. OfKey(l)' = OfKey(l) /\ Awaiting(l)' = Awaiting(l)
    BY <1>1 DEF OfKey, Awaiting, BuildKey
  <2>2. shared'[l].refs = shared[l].refs
    BY <1>2
  <2>3. shared'[l].is = "built" <=> <<"build", l>> \in dirs'
    <3>1. CASE l = k
      BY <3>1, <1>1, <1>2
    <3>2. CASE l # k
      BY <3>2, <1>1, <1>2, DirsDiffer DEF Kept, BuildSound
    <3> QED BY <3>1, <3>2
  <2> QED BY <2>1, <2>2, <2>3 DEF Kept, BuildSound
<1>6. Left' \subseteq Left
  BY <1>1 DEF Left, Owned
<1>7. LeftSound'
  BY <1>1, <1>6, LeftStays DEF Kept, BatchTypeOK
<1> QED BY <1>2, <1>3, <1>4, <1>5, <1>7 DEF Kept

LEMMA BuildFails ==
  ASSUME BatchTypeOK, Kept, NEW k \in Keys, NEW result \in {"failed", "transient"},
         BuildEnded(k, result)
  PROVE  /\ Kept' /\ shared' \in [Keys -> BuildType]
         /\ item' \in [Items -> ItemType]
         /\ \A j \in Items : \/ item'[j] = item[j]
                             \/ item[j].step = "building" /\ item'[j].step = result
<1> DEFINE users == {i \in Items : item[i].step = "building" /\ BuildKey(i) = k}
<1>1. /\ shared[k].is = "building" /\ tracked' = tracked
      /\ mode' = mode /\ local' = local /\ combined' = combined
      /\ shared' = [shared EXCEPT ![k] = NoBuild]
      /\ dirs' = dirs \cup {<<"unfinished", k>>}
      /\ item' = [i \in Items |-> IF i \in users THEN [item[i] EXCEPT !.step = result]
                                  ELSE item[i]]
      /\ failures' = failures + 1
  BY DEF BuildEnded, Counted, aggregatedVars, BatchTypeOK
<1>2. /\ shared' \in [Keys -> BuildType]
      /\ shared'[k] = NoBuild
      /\ \A l \in Keys : l # k => shared'[l] = shared[l]
  BY <1>1 DEF BatchTypeOK, BuildType, NoBuild
<1>3. \A j \in Items :
        /\ item'[j] \in ItemType /\ item'[j].try = item[j].try
        /\ j \in users => item'[j].step = result
        /\ j \notin users => item'[j] = item[j]
  <2> SUFFICES ASSUME NEW j \in Items
               PROVE  /\ item'[j] \in ItemType /\ item'[j].try = item[j].try
                      /\ j \in users => item'[j].step = result
                      /\ j \notin users => item'[j] = item[j]
    OBVIOUS
  <2>1. item[j] \in ItemType
    BY DEF BatchTypeOK
  <2>2. item'[j] = IF j \in users THEN [item[j] EXCEPT !.step = result] ELSE item[j]
    BY <1>1
  <2>3. CASE j \in users
    BY <2>1, <2>2, <2>3 DEF ItemType, ItemSteps
  <2>4. CASE j \notin users
    BY <2>1, <2>2, <2>4
  <2> QED BY <2>3, <2>4
<1>4. item' \in [Items -> ItemType]
  BY <1>1, <1>3
<1>5. \A j \in Items : BuildKey(j)' = BuildKey(j) /\ (HasPlace(j)' <=> HasPlace(j))
  BY <1>1, <1>3 DEF BuildKey, HasPlace
<1>6. \A p \in tracked : p.key # k
  BY <1>1 DEF Kept, PlacesSound
<1>7. PlacesSound'
  BY <1>1, <1>2, <1>3, <1>6 DEF Kept, PlacesSound, BatchTypeOK, PlaceType
<1>8. ASSUME NEW j \in Items PROVE ItemSound(j)'
  <2>1. CASE j \in users
    BY <2>1, <1>3 DEF ItemSound
  <2>2. CASE j \notin users
    BY <2>2, <1>1, <1>2, <1>3, <1>5, BuildKeys DEF Kept, ItemSound
  <2> QED BY <2>1, <2>2
<1>9. ASSUME NEW l \in Keys PROVE BuildSound(l)'
  <2>1. <<"build", l>> \in dirs' <=> <<"build", l>> \in dirs
    BY <1>1, DirsDiffer
  <2>2. OfKey(l)' = OfKey(l)
    BY <1>1 DEF OfKey
  <2>3. CASE l = k
    <3>1. OfKey(l)' = {} /\ Awaiting(l)' = {}
      <4>1. \A j \in Items : ~(item'[j].step = "building" /\ BuildKey(j)' = k)
        BY <1>3, <1>5
      <4> QED BY <4>1, <2>2, <2>3, <1>1, UnusedBuild DEF Awaiting
    <3>2. Cardinality(OfKey(l)') = 0 /\ Cardinality(Awaiting(l)') = 0
      BY <3>1, FS_EmptySet
    <3>3. <<"build", l>> \notin dirs
      BY <2>3, <1>1 DEF Kept, BuildSound
    <3>4. shared'[l].is = "none" /\ shared'[l].refs = 0
      BY <2>3, <1>2 DEF NoBuild
    <3> QED BY <2>1, <3>2, <3>3, <3>4 DEF BuildSound
  <2>4. CASE l # k
    <3>1. Awaiting(l)' = Awaiting(l)
      BY <2>4, <1>3, <1>5 DEF Awaiting
    <3> QED BY <2>1, <2>2, <2>4, <3>1, <1>2 DEF Kept, BuildSound
  <2> QED BY <2>3, <2>4
<1>10. LeftSound'
  <2>1. \A j \in Items : (item'[j].step = "merging" <=> item[j].step = "merging")
    BY <1>3
  <2>2. Left' \subseteq Left \cup {<<"unfinished", k>>}
    BY <1>1, <1>3, <2>1 DEF Left, Owned
  <2> QED BY <1>1, <2>2, LeftGrows DEF Kept, BatchTypeOK
<1> QED BY <1>2, <1>3, <1>4, <1>7, <1>8, <1>9, <1>10 DEF Kept

-----------------------------------------------------------------------------
\* A place is tracked: who waited for its build has a place of it instead.
LEMMA TracksPlace ==
  ASSUME BatchTypeOK, Kept, NEW i \in Items, Tracked(i)
  PROVE  /\ Kept' /\ tracked' \in SUBSET PlaceType
         /\ \E s \in ItemSteps : s # "done" /\ Goes(i, s, item[i].try, item[i].verdict)
<1> DEFINE P == Place(i)
           s == IF i \in NeedsMerge THEN "merging" ELSE Built
           k == BuildKey(i)
           t == item[i].try
<1>1. /\ item[i].step = "building" /\ shared[k].is = "built"
      /\ tracked' = tracked \cup {P}
      /\ To(i, s)
      /\ dirs' = IF i \in NeedsMerge THEN dirs \cup {<<"merge", i, t>>} ELSE dirs
      /\ mode' = mode /\ local' = local /\ combined' = combined /\ shared' = shared
      /\ failures' = failures
  BY DEF Tracked, aggregatedVars
<1>2. s \in {"merging", "preparing", "deploying"} /\ s \in ItemSteps
      /\ (s = "merging" <=> i \in NeedsMerge)
  BY DEF Built, ItemSteps
<1>3. t \in {1, 2} /\ k \in Keys
  BY BuildKeys DEF BatchTypeOK, ItemType
<1>4. P \in PlaceType /\ P.item = i /\ P.key = k /\ P.try = t /\ P.merged = FALSE
  BY <1>3 DEF Place, PlaceType
<1>5. Goes(i, s, t, item[i].verdict)
  BY <1>1, <1>2, StepGoes
<1>6. \A p \in tracked : ~(p.item = i /\ p.try = t)
  BY <1>1 DEF Kept, ItemSound, HasPlace
<1> HIDE DEF P, s, k, t
<1>7. P \notin tracked
  BY <1>4, <1>6
<1>8. \A j \in Items : /\ item'[j].try = item[j].try /\ BuildKey(j)' = BuildKey(j)
                       /\ j # i => item'[j].step = item[j].step
  BY <1>1, <1>5 DEF Goes, Others, BuildKey, t
<1>9. item'[i].step = s
  BY <1>5 DEF Goes
<1>10. PlacesSound'
  <2>1. IsFiniteSet(tracked')
    BY <1>1, FS_AddElement DEF Kept, PlacesSound
  <2>2. \A p, q \in tracked' : p.item = q.item /\ p.try = q.try => p = q
    BY <1>1, <1>4, <1>6 DEF Kept, PlacesSound
  <2>3. \A p \in tracked : p.item \in Items
    BY DEF BatchTypeOK, PlaceType
  <2>4. \A p \in tracked : p.try <= item'[p.item].try /\ shared'[p.key].is = "built"
                          /\ (p.merged => <<"merge", p.item, p.try>> \in dirs')
    BY <1>1, <1>8, <2>3 DEF Kept, PlacesSound
  <2>5. P.try <= item'[P.item].try /\ shared'[P.key].is = "built" /\ ~P.merged
    BY <1>1, <1>3, <1>4, <1>8 DEF t
  <2> QED BY <1>1, <2>1, <2>2, <2>4, <2>5 DEF PlacesSound
<1>11. ASSUME NEW j \in Items PROVE ItemSound(j)'
  <2>1. CASE j = i
    <3>1. P \in tracked' /\ HasPlace(j)'
      BY <2>1, <1>1, <1>4, <1>8 DEF HasPlace, t
    <3>2. \A p \in tracked' : p.item = i /\ p.try = item'[i].try => ~p.merged
      BY <1>1, <1>4, <1>6, <1>8 DEF t
    <3>3. s = "merging" => <<"merge", i, item'[i].try>> \in dirs'
      BY <1>1, <1>2, <1>8 DEF t
    <3> QED BY <2>1, <1>2, <1>9, <3>1, <3>2, <3>3 DEF ItemSound
  <2>2. CASE j # i
    <3>1. HasPlace(j)' <=> HasPlace(j)
      BY <2>2, <1>1, <1>4, <1>8 DEF HasPlace
    <3>2. \A p \in tracked' : p.item = j => p \in tracked
      BY <2>2, <1>1, <1>4
    <3> QED BY <2>2, <1>1, <1>8, <3>1, <3>2 DEF Kept, ItemSound
  <2> QED BY <2>1, <2>2
<1>12. ASSUME NEW l \in Keys PROVE BuildSound(l)'
  <2>1. <<"build", l>> \in dirs' <=> <<"build", l>> \in dirs
    BY <1>1, DirsDiffer
  <2>2. CASE l = k
    <3>1. OfKey(l)' = OfKey(l) \cup {P} /\ P \notin OfKey(l)
      BY <2>2, <1>1, <1>4, <1>7 DEF OfKey
    <3>2. Awaiting(l)' = Awaiting(l) \ {i} /\ i \in Awaiting(l)
      BY <2>2, <1>1, <1>2, <1>8, <1>9 DEF Awaiting, k
    <3>3. Cardinality(OfKey(l)') = Cardinality(OfKey(l)) + 1
      BY <3>1, UsersCount, FS_AddElement
    <3>4. Cardinality(Awaiting(l)') = Cardinality(Awaiting(l)) - 1
      BY <3>2, UsersCount, FS_RemoveElement
    <3>5. shared[l].refs = Cardinality(OfKey(l)) + Cardinality(Awaiting(l))
      BY DEF Kept, BuildSound
    <3>6. Cardinality(OfKey(l)) \in Nat /\ Cardinality(Awaiting(l)) \in Nat
      BY UsersCount
    <3>7. shared[l].refs = Cardinality(OfKey(l)') + Cardinality(Awaiting(l)')
      BY <3>3, <3>4, <3>5, <3>6
    <3> QED BY <1>1, <2>1, <3>7 DEF Kept, BuildSound
  <2>3. CASE l # k
    <3>1. OfKey(l)' = OfKey(l)
      BY <2>3, <1>1, <1>4 DEF OfKey
    <3>2. Awaiting(l)' = Awaiting(l)
      BY <2>3, <1>1, <1>2, <1>8, <1>9 DEF Awaiting, k
    <3> QED BY <1>1, <2>1, <3>1, <3>2 DEF Kept, BuildSound
  <2> QED BY <2>2, <2>3
<1>13. LeftSound'
  <2>1. \A j \in Items : item[j].step = "merging" => item'[j].step = "merging"
    BY <1>1, <1>8
  <2>2. i \in NeedsMerge => item'[i].step = "merging" /\ item'[i].try = t
    BY <1>2, <1>8, <1>9 DEF t
  <2>3. ASSUME NEW d, d \in dirs', ~Owned(d)' PROVE d \in dirs /\ ~Owned(d)
    <3>1. d \in dirs \/ (i \in NeedsMerge /\ d = <<"merge", i, t>>)
      BY <2>3, <1>1
    <3>2. d \in dirs
      BY <2>2, <2>3, <3>1 DEF Owned
    <3>3. ~Owned(d)
      BY <2>1, <2>3, <1>1, <1>8 DEF Owned
    <3> QED BY <3>2, <3>3
  <2>4. Left' \subseteq Left
    BY <2>3 DEF Left
  <2> QED BY <1>1, <2>4, LeftStays DEF Kept, BatchTypeOK
<1>14. tracked' \in SUBSET PlaceType
  BY <1>1, <1>4 DEF BatchTypeOK
<1>15. s \in ItemSteps /\ s # "done"
  BY <1>2
<1>16. \E r \in ItemSteps : r # "done" /\ Goes(i, r, item[i].try, item[i].verdict)
  BY <1>5, <1>15 DEF t
<1> QED BY <1>10, <1>11, <1>12, <1>13, <1>14, <1>16 DEF Kept

-----------------------------------------------------------------------------
LEMMA HeldIsThePlace ==
  ASSUME Kept, NEW i \in Items, HasPlace(i)
  PROVE  /\ Held(i) \in tracked /\ Held(i).item = i /\ Held(i).try = item[i].try
         /\ \A p \in tracked : p.item = i /\ p.try = item[i].try => p = Held(i)
<1>1. Held(i) \in tracked /\ Held(i).item = i /\ Held(i).try = item[i].try
  BY DEF HasPlace, Held
<1> QED BY <1>1 DEF Kept, PlacesSound

\* A merge that ends well makes the directory the place's own.
LEMMA MergeSucceeds ==
  ASSUME BatchTypeOK, Kept, NEW i \in Items, Merged(i, "ok")
  PROVE  /\ Kept' /\ tracked' \in SUBSET PlaceType
         /\ \E s \in ItemSteps : s # "done" /\ Goes(i, s, item[i].try, item[i].verdict)
<1> DEFINE h == Held(i)
           P == [h EXCEPT !.merged = TRUE]
           t == item[i].try
           s == Built
<1>1. /\ item[i].step = "merging"
      /\ tracked' = (tracked \ {h}) \cup {P}
      /\ To(i, s)
      /\ mode' = mode /\ local' = local /\ combined' = combined /\ shared' = shared
      /\ dirs' = dirs /\ failures' = failures
  BY DEF Merged, aggregatedVars, Counted, BatchTypeOK
<1>2. s \in {"preparing", "deploying"} /\ s \in ItemSteps
  BY DEF Built, ItemSteps
<1>3. /\ h \in tracked /\ h.item = i /\ h.try = t
      /\ \A p \in tracked : p.item = i /\ p.try = t => p = h
  BY <1>1, HeldIsThePlace DEF Kept, ItemSound
<1>4. ~h.merged /\ <<"merge", i, t>> \in dirs
  BY <1>1, <1>3 DEF Kept, ItemSound
<1>5. h \in PlaceType
  BY <1>3 DEF BatchTypeOK
<1>6. /\ P \in PlaceType /\ P.item = i /\ P.key = h.key /\ P.try = t /\ P.merged = TRUE
  BY <1>3, <1>5 DEF PlaceType
<1>7. Goes(i, s, t, item[i].verdict)
  BY <1>1, <1>2, StepGoes
<1> HIDE DEF h, P, t, s
<1>8. P \notin tracked
  BY <1>3, <1>4, <1>6
<1>9. \A j \in Items : /\ item'[j].try = item[j].try /\ BuildKey(j)' = BuildKey(j)
                       /\ j # i => item'[j].step = item[j].step
  BY <1>1, <1>7 DEF Goes, Others, BuildKey, t
<1>10. item'[i].step = s
  BY <1>7 DEF Goes
<1>11. PlacesSound'
  <2>1. IsFiniteSet(tracked')
    BY <1>1, FS_AddElement, FS_RemoveElement DEF Kept, PlacesSound
  <2>2. \A p, q \in tracked' : p.item = q.item /\ p.try = q.try => p = q
    BY <1>1, <1>3, <1>6 DEF Kept, PlacesSound
  <2>3. \A p \in tracked : p.item \in Items
    BY DEF BatchTypeOK, PlaceType
  <2>4. \A p \in tracked : p.try <= item'[p.item].try /\ shared'[p.key].is = "built"
                          /\ (p.merged => <<"merge", p.item, p.try>> \in dirs')
    BY <1>1, <1>9, <2>3 DEF Kept, PlacesSound
  <2>5. P.try <= item'[P.item].try /\ shared'[P.key].is = "built"
        /\ <<"merge", P.item, P.try>> \in dirs'
    BY <1>1, <1>3, <1>4, <1>6, <2>4
  <2> QED BY <1>1, <2>1, <2>2, <2>4, <2>5 DEF PlacesSound
<1>12. ASSUME NEW j \in Items PROVE ItemSound(j)'
  <2>1. HasPlace(j)' <=> HasPlace(j)
    <3>1. CASE j = i
      BY <3>1, <1>1, <1>3, <1>6, <1>9 DEF HasPlace, t
    <3>2. CASE j # i
      BY <3>2, <1>1, <1>3, <1>6, <1>9 DEF HasPlace
    <3> QED BY <3>1, <3>2
  <2>2. CASE j = i
    <3>1. HasPlace(j)
      BY <2>2, <1>3 DEF HasPlace, t
    <3> QED BY <2>1, <2>2, <3>1, <1>2, <1>10 DEF ItemSound
  <2>3. CASE j # i
    <3>1. \A p \in tracked' : p.item = j => p \in tracked
      BY <2>3, <1>1, <1>6
    <3> QED BY <2>1, <2>3, <1>1, <1>9, <3>1 DEF Kept, ItemSound
  <2> QED BY <2>2, <2>3
<1>13. ASSUME NEW l \in Keys PROVE BuildSound(l)'
  <2>1. Awaiting(l)' = Awaiting(l)
    BY <1>1, <1>2, <1>9, <1>10 DEF Awaiting
  <2>2. Cardinality(OfKey(l)') = Cardinality(OfKey(l))
    <3>1. CASE l = h.key
      <4>1. /\ OfKey(l)' = (OfKey(l) \ {h}) \cup {P}
            /\ h \in OfKey(l) /\ P \notin OfKey(l) \ {h}
        BY <3>1, <1>1, <1>3, <1>6, <1>8 DEF OfKey
      <4>2. IsFiniteSet(OfKey(l) \ {h})
            /\ Cardinality(OfKey(l) \ {h}) = Cardinality(OfKey(l)) - 1
        BY <4>1, UsersCount, FS_RemoveElement
      <4>3. Cardinality(OfKey(l)') = Cardinality(OfKey(l) \ {h}) + 1
        BY <4>1, <4>2, FS_AddElement
      <4> QED BY <4>2, <4>3, UsersCount
    <3>2. CASE l # h.key
      <4>1. OfKey(l)' = OfKey(l)
        BY <3>2, <1>1, <1>6 DEF OfKey
      <4> QED BY <4>1
    <3> QED BY <3>1, <3>2
  <2> QED BY <1>1, <2>1, <2>2 DEF Kept, BuildSound
<1>14. LeftSound'
  <2>1. ASSUME NEW d, d \in dirs', ~Owned(d)' PROVE d \in dirs /\ ~Owned(d)
    <3>1. P \in tracked' /\ \A p \in tracked : p.merged => p \in tracked'
      BY <1>1, <1>4
    <3>2. ASSUME NEW j \in Items, item[j].step = "merging", d = <<"merge", j, item[j].try>>
          PROVE  FALSE
      <4>1. CASE j = i
        <5>1. d = <<"merge", P.item, P.try>>
          BY <3>2, <4>1, <1>6 DEF t
        <5> QED BY <2>1, <3>1, <5>1, <1>6 DEF Owned
      <4>2. CASE j # i
        BY <2>1, <3>2, <4>2, <1>9 DEF Owned
      <4> QED BY <4>1, <4>2
    <3>3. ~Owned(d)
      BY <2>1, <3>1, <3>2, <1>1 DEF Owned
    <3> QED BY <2>1, <3>3, <1>1
  <2>2. Left' \subseteq Left
    BY <2>1 DEF Left
  <2> QED BY <1>1, <2>2, LeftStays DEF Kept, BatchTypeOK
<1>15. tracked' \in SUBSET PlaceType
  BY <1>1, <1>6 DEF BatchTypeOK
<1>16. \E r \in ItemSteps : r # "done" /\ Goes(i, r, item[i].try, item[i].verdict)
  BY <1>7, <1>2 DEF t
<1> QED BY <1>11, <1>12, <1>13, <1>14, <1>15, <1>16 DEF Kept

-----------------------------------------------------------------------------
\* One place is released: what is its own goes, and its build if nobody else uses it.
LastOf(h) == shared[h.key].refs = 1
LEMMA ReleasesOne ==
  ASSUME BatchTypeOK, Kept, NEW h \in tracked, Release({h})
  PROVE  /\ tracked' = tracked \ {h}
         /\ shared' \in [Keys -> BuildType]
         /\ \A l \in Keys : l # h.key => shared'[l] = shared[l]
         /\ LastOf(h) => shared'[h.key] = NoBuild
         /\ ~LastOf(h) => /\ shared'[h.key].is = "built"
                          /\ shared'[h.key].refs = shared[h.key].refs - 1
         /\ \A d : d \in dirs' <=>
              /\ d \in dirs
              /\ ~(LastOf(h) /\ d = <<"build", h.key>>)
              /\ ~(h.merged /\ d = <<"merge", h.item, h.try>>)
<1> DEFINE of(k) == {p \in {h} : p.key = k}
           left == [k \in Keys |-> shared[k].refs - Cardinality(of(k))]
           emptied == {k \in Keys : left[k] = 0 /\ \E p \in {h} : p.key = k}
           b == h.key
<1>1. h \in PlaceType /\ b \in Keys
  BY DEF BatchTypeOK, PlaceType
<1>2. shared[b] \in BuildType /\ shared[b].is = "built" /\ shared[b].refs \in Nat
  BY <1>1 DEF Kept, PlacesSound, BatchTypeOK, BuildType
<1>3. /\ tracked' = tracked \ {h}
      /\ shared' = [k \in Keys |-> IF k \in emptied THEN NoBuild
                                   ELSE [shared[k] EXCEPT !.refs = left[k]]]
      /\ dirs' = dirs \ ({<<"build", k>> : k \in emptied}
                           \cup {<<"merge", p.item, p.try>> :
                                   p \in {q \in {h} : q.merged}})
  BY DEF Release
<1>4. Cardinality(of(b)) = 1
  <2>1. of(b) = {h}
    OBVIOUS
  <2> QED BY <2>1, FS_Singleton
<1>5. \A l \in Keys : l # b => Cardinality(of(l)) = 0
  <2> SUFFICES ASSUME NEW l \in Keys, l # b PROVE Cardinality(of(l)) = 0
    OBVIOUS
  <2>1. of(l) = {}
    OBVIOUS
  <2> QED BY <2>1, FS_EmptySet
<1>6. shared[b].refs >= 1
  <2>1. h \in OfKey(b)
    BY DEF OfKey
  <2>2. Cardinality(OfKey(b)) # 0
    BY <2>1, <1>1, UsersCount, FS_EmptySet
  <2>3. shared[b].refs = Cardinality(OfKey(b)) + Cardinality(Awaiting(b))
    BY <1>1 DEF Kept, BuildSound
  <2>4. Cardinality(OfKey(b)) \in Nat /\ Cardinality(Awaiting(b)) \in Nat
    BY <1>1, UsersCount
  <2> QED BY <2>2, <2>3, <2>4
<1>7. left[b] = shared[b].refs - 1 /\ \A l \in Keys : l # b => left[l] = shared[l].refs
  <2>1. left[b] = shared[b].refs - 1
    BY <1>1, <1>4
  <2>2. ASSUME NEW l \in Keys, l # b PROVE left[l] = shared[l].refs
    <3>1. shared[l].refs \in Nat
      BY DEF BatchTypeOK, BuildType
    <3>2. left[l] = shared[l].refs - Cardinality(of(l))
      OBVIOUS
    <3> QED BY <3>1, <3>2, <2>2, <1>5
  <2> QED BY <2>1, <2>2
<1> HIDE DEF left, of
<1>8. emptied = IF LastOf(h) THEN {b} ELSE {}
  <2>1. \A k \in Keys : k \in emptied <=> k = b /\ left[k] = 0
    OBVIOUS
  <2>2. left[b] = 0 <=> LastOf(h)
    BY <1>2, <1>7 DEF LastOf
  <2> QED BY <1>1, <2>1, <2>2
<1> HIDE DEF emptied
<1>9. ASSUME NEW l \in Keys, l # b PROVE shared'[l] = shared[l]
  <2>1. shared'[l] = [shared[l] EXCEPT !.refs = left[l]]
    BY <1>3, <1>8, <1>9
  <2>2. shared[l] \in BuildType
    BY DEF BatchTypeOK
  <2>3. left[l] = shared[l].refs
    BY <1>7, <1>9
  <2> QED BY <2>1, <2>2, <2>3 DEF BuildType
<1>10. LastOf(h) => shared'[b] = NoBuild
  BY <1>1, <1>3, <1>8
<1>11. ASSUME ~LastOf(h)
       PROVE  /\ shared'[b] \in BuildType /\ shared'[b].is = "built"
              /\ shared'[b].refs = shared[b].refs - 1
  <2>1. shared'[b] = [shared[b] EXCEPT !.refs = shared[b].refs - 1]
    BY <1>1, <1>3, <1>7, <1>8, <1>11
  <2>2. shared[b].refs - 1 \in Nat
    BY <1>2, <1>6
  <2> QED BY <1>2, <2>1, <2>2 DEF BuildType
<1>12. shared' \in [Keys -> BuildType]
  <2>1. \A l \in Keys : shared'[l] \in BuildType
    BY <1>9, <1>10, <1>11 DEF BatchTypeOK, BuildType, NoBuild
  <2>2. shared' = [k \in Keys |-> shared'[k]]
    BY <1>3
  <2> QED BY <2>1, <2>2
<1>13. \A d : d \in dirs' <=> /\ d \in dirs
                              /\ ~(LastOf(h) /\ d = <<"build", b>>)
                              /\ ~(h.merged /\ d = <<"merge", h.item, h.try>>)
  BY <1>3, <1>8
<1> QED BY <1>3, <1>9, <1>10, <1>11, <1>12, <1>13

LEMMA ReleaseKeeps ==
  ASSUME BatchTypeOK, Kept, NEW i \in Items, NEW s \in ItemSteps, NEW v,
         Goes(i, s, item[i].try, v), HasPlace(i), Release({Held(i)}),
         mode' = mode, local' = local, combined' = combined,
         failures' \in Nat, failures <= failures',
         item[i].step \notin {"building", "merging"},
         s \in {"smoke", "done"} \/ (s = "running" /\ ~local)
  PROVE  /\ Kept' /\ shared' \in [Keys -> BuildType]
         /\ tracked' \in SUBSET PlaceType
<1> PICK h, b, t : h = Held(i) /\ b = h.key /\ t = item[i].try
  OBVIOUS
<1>1. /\ h \in tracked /\ h.item = i /\ h.try = t
      /\ \A p \in tracked : p.item = i /\ p.try = t => p = h
  BY HeldIsThePlace
<1>2. h \in PlaceType /\ b \in Keys
  BY <1>1 DEF BatchTypeOK, PlaceType
<1>3. /\ tracked' = tracked \ {h}
      /\ shared' \in [Keys -> BuildType]
      /\ \A l \in Keys : l # b => shared'[l] = shared[l]
      /\ LastOf(h) => shared'[b] = NoBuild
      /\ ~LastOf(h) => shared'[b].is = "built" /\ shared'[b].refs = shared[b].refs - 1
      /\ \A d : d \in dirs' <=>
           /\ d \in dirs
           /\ ~(LastOf(h) /\ d = <<"build", b>>)
           /\ ~(h.merged /\ d = <<"merge", h.item, h.try>>)
  BY <1>1, ReleasesOne
<1>4. \A j \in Items : /\ item'[j].try = item[j].try /\ BuildKey(j)' = BuildKey(j)
                       /\ j # i => item'[j].step = item[j].step
  BY DEF Goes, Others, BuildKey
<1>5. item'[i].step = s
  BY DEF Goes
<1>6. h \in OfKey(b) /\ shared[b].is = "built" /\ shared[b].refs \in Nat
  BY <1>1, <1>2 DEF OfKey, Kept, PlacesSound, BatchTypeOK, BuildType
<1>7. /\ IsFiniteSet(OfKey(b) \ {h})
      /\ Cardinality(OfKey(b) \ {h}) = Cardinality(OfKey(b)) - 1
      /\ Cardinality(OfKey(b) \ {h}) \in Nat
  BY <1>2, <1>6, UsersCount, FS_RemoveElement, FS_CardinalityType
<1>8. shared[b].refs = Cardinality(OfKey(b) \ {h}) + 1 + Cardinality(Awaiting(b))
  <2>1. shared[b].refs = Cardinality(OfKey(b)) + Cardinality(Awaiting(b))
    BY <1>2 DEF Kept, BuildSound
  <2>2. Cardinality(OfKey(b)) \in Nat /\ Cardinality(Awaiting(b)) \in Nat
    BY <1>2, UsersCount
  <2> QED BY <1>7, <2>1, <2>2
<1>9. ASSUME LastOf(h) PROVE OfKey(b) \ {h} = {} /\ Awaiting(b) = {}
  <2>1. Cardinality(Awaiting(b)) \in Nat /\ IsFiniteSet(Awaiting(b))
    BY <1>2, UsersCount
  <2>2. Cardinality(Awaiting(b)) = 0 /\ Cardinality(OfKey(b) \ {h}) = 0
    <3>1. shared[b].refs = 1
      BY <1>9 DEF LastOf
    <3>2. Cardinality(OfKey(b) \ {h}) \in Nat
      BY <1>7
    <3> QED BY <1>8, <2>1, <3>1, <3>2
  <2> QED BY <1>7, <2>1, <2>2, FS_EmptySet
<1>10. PlacesSound'
  <2>1. IsFiniteSet(tracked')
    BY <1>3, FS_RemoveElement, <1>1 DEF Kept, PlacesSound
  <2>2. \A p, q \in tracked' : p.item = q.item /\ p.try = q.try => p = q
    BY <1>3 DEF Kept, PlacesSound
  <2>3. ASSUME NEW p \in tracked'
        PROVE  p.try <= item'[p.item].try /\ shared'[p.key].is = "built"
    <3>1. p \in tracked /\ p # h /\ p.item \in Items /\ p.key \in Keys
      BY <1>3 DEF BatchTypeOK, PlaceType
    <3>2. ~(LastOf(h) /\ p.key = b)
      BY <1>9, <3>1 DEF OfKey
    <3> QED BY <1>3, <1>4, <3>1, <3>2 DEF Kept, PlacesSound
  <2>4. ASSUME NEW p \in tracked', p.merged PROVE <<"merge", p.item, p.try>> \in dirs'
    <3>1. p \in tracked /\ p # h
      BY <1>3
    <3>2. <<"merge", p.item, p.try>> \in dirs
      BY <2>4, <3>1 DEF Kept, PlacesSound
    <3>3. ~(p.item = h.item /\ p.try = h.try)
      BY <1>1, <3>1
    <3> QED BY <1>3, <3>2, <3>3, DirsDiffer
  <2> QED BY <2>1, <2>2, <2>3, <2>4 DEF PlacesSound
<1>11. ASSUME NEW j \in Items PROVE ItemSound(j)'
  <2>1. CASE j = i
    BY <2>1, <1>5 DEF ItemSound
  <2>2. CASE j # i
    <3>1. HasPlace(j)' <=> HasPlace(j)
      BY <2>2, <1>1, <1>3, <1>4 DEF HasPlace
    <3>2. \A p \in tracked' : p \in tracked
      BY <1>3
    <3>3. item[j].step = "building" => shared'[BuildKey(j)].is # "none"
      <4> SUFFICES ASSUME item[j].step = "building" PROVE shared'[BuildKey(j)].is # "none"
        OBVIOUS
      <4>1. BuildKey(j) \in Keys /\ shared[BuildKey(j)].is # "none"
        BY BuildKeys DEF Kept, ItemSound
      <4>2. BuildKey(j) = b => ~LastOf(h)
        BY <1>9 DEF Awaiting
      <4> QED BY <1>3, <4>1, <4>2
    <3>4. item[j].step = "merging" => <<"merge", j, item[j].try>> \in dirs'
      <4> SUFFICES ASSUME item[j].step = "merging"
                   PROVE  <<"merge", j, item[j].try>> \in dirs'
        OBVIOUS
      <4>1. <<"merge", j, item[j].try>> \in dirs
        BY DEF Kept, ItemSound
      <4> QED BY <4>1, <2>2, <1>1, <1>3, DirsDiffer
    <3>5. ItemSound(j)
      BY DEF Kept
    <3> QED BY <2>2, <1>4, <3>1, <3>2, <3>3, <3>4, <3>5 DEF ItemSound
  <2> QED BY <2>1, <2>2
<1>12. ASSUME NEW l \in Keys PROVE BuildSound(l)'
  <2>1. Awaiting(l)' = Awaiting(l)
    BY <1>4, <1>5 DEF Awaiting
  <2>2. CASE l # b
    <3>1. OfKey(l)' = OfKey(l)
      BY <2>2, <1>3 DEF OfKey
    <3>2. <<"build", l>> \in dirs' <=> <<"build", l>> \in dirs
      BY <2>2, <1>3, DirsDiffer
    <3> QED BY <2>1, <2>2, <3>1, <3>2, <1>3 DEF Kept, BuildSound
  <2>3. CASE l = b
    <3>1. OfKey(b)' = OfKey(b) \ {h}
      BY <1>3 DEF OfKey
    <3>2. <<"build", b>> \in dirs' <=> ~LastOf(h)
      <4>1. <<"build", b>> \in dirs
        BY <1>2, <1>6 DEF Kept, BuildSound
      <4> QED BY <4>1, <1>3, DirsDiffer
    <3>3. CASE LastOf(h)
      <4>1. Cardinality(OfKey(b)') = 0 /\ Cardinality(Awaiting(b)') = 0
        BY <3>1, <3>3, <1>9, <2>1, <2>3, FS_EmptySet
      <4>2. shared'[b].is = "none" /\ shared'[b].refs = 0
        BY <3>3, <1>3 DEF NoBuild
      <4> QED BY <2>3, <3>2, <3>3, <4>1, <4>2 DEF BuildSound
    <3>4. CASE ~LastOf(h)
      <4>1. shared'[b].is = "built" /\ shared'[b].refs = shared[b].refs - 1
        BY <3>4, <1>3
      <4>2. Cardinality(Awaiting(b)) \in Nat
        BY <1>2, UsersCount
      <4>3. shared'[b].refs = Cardinality(OfKey(b) \ {h}) + Cardinality(Awaiting(b))
        BY <4>1, <4>2, <1>7, <1>8
      <4>4. shared'[l].refs = Cardinality(OfKey(l)') + Cardinality(Awaiting(l)')
        BY <4>3, <3>1, <2>1, <2>3
      <4>5. shared'[l].is = "built" <=> <<"build", l>> \in dirs'
        BY <4>1, <3>2, <3>4, <2>3
      <4> QED BY <4>4, <4>5 DEF BuildSound
    <3> QED BY <3>3, <3>4
  <2> QED BY <2>2, <2>3
<1>13. LeftSound'
  <2>1. ASSUME NEW d, d \in dirs', ~Owned(d)' PROVE d \in dirs /\ ~Owned(d)
    <3>1. d \in dirs /\ ~(h.merged /\ d = <<"merge", h.item, h.try>>)
      BY <2>1, <1>3
    <3>2. ASSUME NEW p \in tracked, p.merged, d = <<"merge", p.item, p.try>> PROVE FALSE
      <4>1. p # h
        BY <3>1, <3>2
      <4> QED BY <2>1, <3>2, <4>1, <1>3 DEF Owned
    <3>3. ASSUME NEW j \in Items, item[j].step = "merging", d = <<"merge", j, item[j].try>>
          PROVE  FALSE
      BY <2>1, <3>3, <1>4 DEF Owned
    <3>4. ~Owned(d)
      BY <2>1, <3>2, <3>3 DEF Owned
    <3> QED BY <3>1, <3>4
  <2>2. Left' \subseteq Left
    BY <2>1 DEF Left
  <2> QED BY <2>2, LeftStays DEF Kept, BatchTypeOK
<1>14. tracked' \in SUBSET PlaceType
  BY <1>3 DEF BatchTypeOK
<1> QED BY <1>3, <1>10, <1>11, <1>12, <1>13, <1>14 DEF Kept

-----------------------------------------------------------------------------
\* The aggregated run does not touch what the items have.
LEMMA ItemsKept ==
  ASSUME BatchTypeOK, Kept, itemVars' = itemVars, mode' = mode, local' = local,
         dirs \subseteq dirs',
         \A k \in Keys : <<"build", k>> \in dirs' => <<"build", k>> \in dirs,
         LeftSound'
  PROVE  Kept'
<1>1. PlacesSound'
  BY DEF Kept, PlacesSound, itemVars
<1>2. ASSUME NEW i \in Items PROVE ItemSound(i)'
  BY DEF Kept, ItemSound, HasPlace, BuildKey, itemVars
<1>3. ASSUME NEW k \in Keys PROVE BuildSound(k)'
  <2>1. OfKey(k)' = OfKey(k) /\ Awaiting(k)' = Awaiting(k)
    BY DEF OfKey, Awaiting, BuildKey, itemVars
  <2> QED BY <2>1 DEF Kept, BuildSound, itemVars
<1> QED BY <1>1, <1>2, <1>3 DEF Kept

LEMMA DirsKept ==
  ASSUME BatchTypeOK, Kept, itemVars' = itemVars, mode' = mode, local' = local,
         dirs' = dirs, combined' = "built" <=> combined = "built",
         failures' \in Nat, failures <= failures'
  PROVE  Kept'
<1>1. Left' \subseteq Left
  BY DEF Left, Owned, itemVars
<1> QED BY <1>1, LeftStays, ItemsKept DEF Kept, BatchTypeOK

LEMMA ExitStays ==
  ASSUME ExitSound, phase' = phase, exit' = exit, item' = item
  PROVE  ExitSound'
BY DEF ExitSound, AllPassed

\* Asking again for what has failed keeps what has not.
LEMMA AsksAgain ==
  ASSUME NEW chunks \in [Chunks -> ChunkType], \A c \in Chunks : ChunkSound(chunks[c])
  PROVE  /\ Asked(chunks) \in [Chunks -> ChunkType]
         /\ \A c \in Chunks : ChunkSound(Asked(chunks)[c])
<1> SUFFICES ASSUME NEW c \in Chunks
             PROVE  Asked(chunks)[c] \in ChunkType /\ ChunkSound(Asked(chunks)[c])
  BY DEF Asked
<1>1. chunks[c] \in ChunkType /\ ChunkSound(chunks[c])
  OBVIOUS
<1>2. CASE chunks[c].exec # "none"
  BY <1>1, <1>2 DEF Asked
<1>3. CASE chunks[c].exec = "none"
  BY <1>1, <1>3 DEF Asked, ChunkType, ChunkSound
<1> QED BY <1>2, <1>3

LEMMA RunBatchKeeps ==
  ASSUME BatchInv, RunBatch
  PROVE  BatchInv'
<1>1. /\ phase = "batch" /\ outcome = "none"
      /\ mode' = mode /\ local' = local /\ phase' = phase /\ attempt' = attempt
      /\ itemVars' = itemVars /\ item' = item /\ shared' = shared /\ tracked' = tracked
      /\ dirs' = dirs /\ failures' = failures /\ exit' = exit
  BY DEF RunBatch, itemVars
<1>2. \/ combined' = combined /\ outcome' = "failed" /\ chunk' = chunk
                             /\ combined = "failed"
      \/ combined' = combined /\ outcome' = "pending" /\ chunk' = Asked(chunk)
                             /\ combined = "built"
      \/ combined' = "building" /\ outcome' = "pending" /\ chunk' = chunk
                             /\ combined = "none"
  BY <1>1 DEF RunBatch, BatchInv, BatchTypeOK, ChunksSound
<1>3. /\ Asked(chunk) \in [Chunks -> ChunkType]
      /\ \A c \in Chunks : ChunkSound(Asked(chunk)[c])
  BY AsksAgain DEF BatchInv, BatchTypeOK, ChunksSound
<1>4. BatchTypeOK'
  BY <1>1, <1>2, <1>3 DEF BatchInv, BatchTypeOK
<1>5. ChunksSound'
  BY <1>1, <1>2, <1>3 DEF BatchInv, ChunksSound
<1>6. Kept'
  BY <1>1, <1>2, DirsKept DEF BatchInv, BatchTypeOK
<1>7. ExitSound' /\ Disposed'
  BY <1>1, ExitStays DEF BatchInv, Disposed
<1> QED BY <1>4, <1>5, <1>6, <1>7 DEF BatchInv

LEMMA CombinedBuiltKeeps ==
  ASSUME BatchInv, NEW result \in Results, CombinedBuilt(result)
  PROVE  BatchInv'
<1>1. /\ combined = "building" /\ phase = "batch" /\ outcome = "pending"
      /\ mode' = mode /\ local' = local /\ phase' = phase /\ attempt' = attempt
      /\ itemVars' = itemVars /\ item' = item /\ shared' = shared /\ tracked' = tracked
      /\ exit' = exit
  BY DEF CombinedBuilt, itemVars, BatchInv, ChunksSound
<1>2. \/ /\ result = "ok" /\ combined' = "built" /\ dirs' = dirs \cup {<<"combined">>}
         /\ chunk' = Asked(chunk) /\ outcome' = outcome /\ failures' = failures
      \/ /\ result \in {"failed", "transient"} /\ combined' = "failed"
         /\ dirs' = dirs \cup {<<"unfinished">>}
         /\ chunk' = chunk /\ outcome' = result /\ failures' = failures + 1
  BY DEF CombinedBuilt, Counted, Results, BatchInv, BatchTypeOK
<1>3. /\ Asked(chunk) \in [Chunks -> ChunkType]
      /\ \A c \in Chunks : ChunkSound(Asked(chunk)[c])
  BY AsksAgain DEF BatchInv, BatchTypeOK, ChunksSound
<1>4. failures' \in Nat
  BY <1>2 DEF BatchInv, BatchTypeOK
<1>5. BatchTypeOK'
  BY <1>1, <1>2, <1>3, <1>4 DEF BatchInv, BatchTypeOK
<1>6. ChunksSound'
  BY <1>1, <1>2, <1>3 DEF BatchInv, ChunksSound
<1>7. LeftSound'
  <2>1. CASE result = "ok"
    <3>1. Left' \subseteq Left
      BY <2>1, <1>1, <1>2 DEF Left, Owned, itemVars
    <3> QED BY <2>1, <1>2, <1>4, <3>1, LeftStays DEF BatchInv, Kept, BatchTypeOK
  <2>2. CASE result # "ok"
    <3>1. Left' \subseteq Left \cup {<<"unfinished">>}
      BY <2>2, <1>1, <1>2 DEF Left, Owned, itemVars
    <3> QED BY <2>2, <1>2, <3>1, LeftGrows DEF BatchInv, Kept, BatchTypeOK
  <2> QED BY <2>1, <2>2
<1>8. Kept'
  BY <1>1, <1>2, <1>7, DirsDiffer, ItemsKept DEF BatchInv
<1>9. ExitSound' /\ Disposed'
  BY <1>1, ExitStays DEF BatchInv, Disposed
<1> QED BY <1>5, <1>6, <1>8, <1>9 DEF BatchInv

LEMMA ChunkDeployedKeeps ==
  ASSUME BatchInv, NEW c \in Chunks, NEW result \in Results, ChunkDeployed(c, result)
  PROVE  BatchInv'
<1>1. /\ phase # "end" /\ chunk[c].deploy = "running"
      /\ mode' = mode /\ local' = local /\ phase' = phase /\ attempt' = attempt
      /\ combined' = combined /\ dirs' = dirs
      /\ itemVars' = itemVars /\ item' = item /\ shared' = shared /\ tracked' = tracked
      /\ exit' = exit
  BY DEF ChunkDeployed, itemVars
<1>2. failures' \in Nat /\ failures <= failures'
  BY CountedUp DEF ChunkDeployed, BatchInv, BatchTypeOK
<1>3. chunk \in [Chunks -> ChunkType] /\ chunk[c] \in ChunkType
      /\ chunk[c].exec = "uploading" /\ chunk[c] # NoChunk
  BY <1>1 DEF BatchInv, BatchTypeOK, ChunksSound, ChunkSound, NoChunk
<1>4. ~AllDone(chunk)
  BY <1>3 DEF AllDone
<1> DEFINE gone == [deploy |-> "done", exec |-> "running"]
           x == IF result = "ok" THEN gone ELSE NoChunk
<1>5. chunk' = [chunk EXCEPT ![c] = x] /\ x \in ChunkType /\ ChunkSound(x)
  <2>1. gone \in ChunkType /\ gone.deploy = "done" /\ gone.exec = "running"
    BY DEF ChunkType
  <2>2. NoChunk \in ChunkType /\ ChunkSound(NoChunk)
    BY DEF NoChunk, ChunkType, ChunkSound
  <2>3. chunk' = [chunk EXCEPT ![c] = x]
    BY <1>3 DEF ChunkDeployed
  <2> HIDE DEF gone
  <2>4. ChunkSound(gone)
    BY <2>1 DEF ChunkSound
  <2> QED BY <2>1, <2>2, <2>3, <2>4
<1> HIDE DEF gone, x
<1>6. outcome' = outcome \/ outcome' \in {"failed", "transient"}
  BY DEF ChunkDeployed, Rejected, Results
<1>7. /\ chunk' \in [Chunks -> ChunkType]
      /\ \A d \in Chunks : ChunkSound(chunk'[d])
  BY <1>3, <1>5 DEF BatchInv, ChunksSound
<1>8. BatchTypeOK'
  BY <1>1, <1>2, <1>6, <1>7 DEF BatchInv, BatchTypeOK, itemVars
<1>9. ChunksSound'
  <2>1. combined \notin {"none", "building"} /\ outcome # "done"
        /\ ~(mode = "aggregated" /\ phase # "batch" /\ exit.code = 0)
    BY <1>3, <1>4 DEF BatchInv, ChunksSound
  <2> QED BY <2>1, <1>1, <1>6, <1>7 DEF ChunksSound
<1>10. Kept'
  BY <1>1, <1>2, DirsKept DEF BatchInv
<1>11. ExitSound' /\ Disposed'
  BY <1>1, ExitStays DEF BatchInv, Disposed
<1> QED BY <1>8, <1>9, <1>10, <1>11 DEF BatchInv

LEMMA ChunkRanKeeps ==
  ASSUME BatchInv, NEW c \in Chunks, NEW result \in Results, ChunkRan(c, result)
  PROVE  BatchInv'
<1>1. /\ phase # "end" /\ chunk[c].exec = "running"
      /\ mode' = mode /\ local' = local /\ phase' = phase /\ attempt' = attempt
      /\ combined' = combined /\ dirs' = dirs
      /\ itemVars' = itemVars /\ item' = item /\ shared' = shared /\ tracked' = tracked
      /\ exit' = exit
  BY DEF ChunkRan, itemVars
<1>2. failures' \in Nat /\ failures <= failures'
  BY CountedUp DEF ChunkRan, BatchInv, BatchTypeOK
<1>3. chunk \in [Chunks -> ChunkType] /\ chunk[c] \in ChunkType
      /\ chunk[c].deploy = "done" /\ chunk[c] # NoChunk
  BY <1>1 DEF BatchInv, BatchTypeOK, ChunksSound, ChunkSound, NoChunk
<1>4. ~AllDone(chunk)
  BY <1>1 DEF AllDone
<1> DEFINE e == IF result = "ok" THEN "done" ELSE "none"
<1>5. chunk' = [chunk EXCEPT ![c] = [deploy |-> "done", exec |-> e]]
  <2>1. chunk' = [chunk EXCEPT ![c] = [chunk[c] EXCEPT !.exec = e]]
    BY <1>3 DEF ChunkRan
  <2>2. [chunk[c] EXCEPT !.exec = e] = [deploy |-> "done", exec |-> e]
    BY <1>3 DEF ChunkType
  <2> QED BY <2>1, <2>2
<1>6. /\ [deploy |-> "done", exec |-> e] \in ChunkType
      /\ ChunkSound([deploy |-> "done", exec |-> e])
  BY DEF ChunkType, ChunkSound
<1> HIDE DEF e
<1>7. /\ chunk' \in [Chunks -> ChunkType]
      /\ \A d \in Chunks : ChunkSound(chunk'[d])
  BY <1>3, <1>5, <1>6 DEF BatchInv, ChunksSound
<1>8. \/ outcome' = outcome
      \/ outcome' = "done" /\ AllDone(chunk')
      \/ outcome' \in {"failed", "transient"}
  BY DEF ChunkRan, Rejected, Results
<1>9. BatchTypeOK'
  BY <1>1, <1>2, <1>7, <1>8 DEF BatchInv, BatchTypeOK, itemVars
<1>10. ChunksSound'
  <2>1. combined \notin {"none", "building"} /\ outcome # "done"
        /\ ~(mode = "aggregated" /\ phase # "batch" /\ exit.code = 0)
    BY <1>3, <1>4 DEF BatchInv, ChunksSound
  <2> QED BY <2>1, <1>1, <1>7, <1>8 DEF ChunksSound, AllDone
<1>11. Kept'
  BY <1>1, <1>2, DirsKept DEF BatchInv
<1>12. ExitSound' /\ Disposed'
  BY <1>1, ExitStays DEF BatchInv, Disposed
<1> QED BY <1>9, <1>10, <1>11, <1>12 DEF BatchInv

LEMMA RetryBatchKeeps ==
  ASSUME BatchInv, RetryBatch
  PROVE  BatchInv'
<1>1. /\ phase = "batch" /\ outcome = "transient" /\ attempt' = 2 /\ outcome' = "none"
      /\ mode' = mode /\ local' = local /\ phase' = phase /\ chunk' = chunk
      /\ combined' = combined /\ dirs' = dirs /\ failures' = failures
      /\ itemVars' = itemVars /\ item' = item /\ shared' = shared /\ tracked' = tracked
      /\ exit' = exit
  BY DEF RetryBatch, itemVars
<1>2. BatchTypeOK'
  BY <1>1 DEF BatchInv, BatchTypeOK
<1>3. ChunksSound'
  BY <1>1 DEF BatchInv, ChunksSound, AllDone
<1>4. Kept'
  BY <1>1, DirsKept DEF BatchInv, BatchTypeOK
<1>5. ExitSound' /\ Disposed'
  BY <1>1, ExitStays DEF BatchInv, Disposed
<1> QED BY <1>2, <1>3, <1>4, <1>5 DEF BatchInv

LEMMA BatchOverKeeps ==
  ASSUME BatchInv, BatchOver
  PROVE  BatchInv'
<1>1. /\ phase = "batch"
      /\ mode' = mode /\ local' = local /\ attempt' = attempt /\ outcome' = outcome
      /\ chunk' = chunk /\ combined' = combined
      /\ dirs' = dirs /\ failures' = failures
      /\ itemVars' = itemVars /\ item' = item /\ shared' = shared /\ tracked' = tracked
  BY DEF BatchOver, itemVars, aggregatedVars
<1>2. \/ outcome = "done" /\ phase' = "items" /\ exit' = exit
      \/ /\ outcome \in {"failed", "transient"} /\ phase' = "dispose"
         /\ exit' = [exit EXCEPT !.code = 1]
  BY DEF BatchOver
<1>3. exit \in [code : {0, 1}, registered : BOOLEAN] /\ exit.code = 0 /\ ~exit.registered
  BY <1>1 DEF BatchInv, BatchTypeOK, ExitSound
<1>4. BatchTypeOK'
  BY <1>1, <1>2, <1>3 DEF BatchInv, BatchTypeOK, RunPhases
<1>5. ChunksSound'
  BY <1>1, <1>2, <1>3 DEF BatchInv, ChunksSound, AllDone
<1>6. Kept'
  BY <1>1, DirsKept DEF BatchInv, BatchTypeOK
<1>7. ExitSound'
  BY <1>1, <1>2, <1>3 DEF BatchInv, ExitSound, AllPassed
<1>8. Disposed'
  BY <1>2 DEF Disposed
<1> QED BY <1>4, <1>5, <1>6, <1>7, <1>8 DEF BatchInv

-----------------------------------------------------------------------------
\* While the items run, what they have is all there is to say.
LEMMA ItemsRun ==
  ASSUME BatchInv, phase = "items", mode' = mode, local' = local, phase' = phase,
         aggregatedVars' = aggregatedVars, exit' = exit, failures' \in Nat,
         item' \in [Items -> ItemType], shared' \in [Keys -> BuildType],
         tracked' \in SUBSET PlaceType, Kept',
         \A i \in Items : item'[i].step = "done" => item'[i].verdict # "none"
  PROVE  BatchInv'
<1>1. BatchTypeOK'
  BY TypesStay DEF BatchInv, BatchTypeOK
<1>2. ChunksSound'
  BY ChunksStay DEF BatchInv
<1>3. ExitSound'
  BY OpenExit DEF BatchInv
<1>4. Disposed'
  BY DEF Disposed
<1> QED BY <1>1, <1>2, <1>3, <1>4 DEF BatchInv

LEMMA GoesOnOpen ==
  ASSUME BatchInv, NEW i \in Items, NEW s, NEW t, NEW v, Goes(i, s, t, v),
         s = "done" => v # "none"
  PROVE  \A j \in Items : item'[j].step = "done" => item'[j].verdict # "none"
BY DEF Goes, Others, BatchInv, ExitSound

LEMMA StartItemKeeps ==
  ASSUME BatchInv, NEW i \in Items, StartItem(i)
  PROVE  BatchInv'
<1>1. /\ phase = "items" /\ item[i].step = "waiting"
      /\ mode' = mode /\ local' = local /\ phase' = phase
      /\ aggregatedVars' = aggregatedVars /\ combined' = combined
      /\ tracked' = tracked /\ dirs' = dirs /\ failures' = failures /\ exit' = exit
  BY DEF StartItem, aggregatedVars
<1>2. BatchTypeOK /\ Kept /\ item[i].try \in {1, 2} /\ failures \in Nat
  BY DEF BatchInv, BatchTypeOK, ItemType
<1>3. tracked' \in SUBSET PlaceType
  BY <1>1 DEF BatchInv, BatchTypeOK
<1>4. CASE mode = "aggregated"
  <2>1. To(i, "judging") /\ shared' = shared
    BY <1>4 DEF StartItem
  <2>2. Goes(i, "judging", item[i].try, item[i].verdict)
    BY <2>1, <1>2, StepGoes DEF ItemSteps
  <2>3. Kept'
    BY <1>1, <1>2, <2>1, <2>2, MovesOn DEF ItemSteps
  <2>4. shared' \in [Keys -> BuildType]
    BY <1>2, <2>1 DEF BatchTypeOK
  <2>5. \A j \in Items : item'[j].step = "done" => item'[j].verdict # "none"
    BY <2>2, GoesOnOpen
  <2> QED BY <1>1, <1>2, <1>3, <2>2, <2>3, <2>4, <2>5, ItemsRun DEF Goes
<1>5. CASE mode # "aggregated"
  <2>1. /\ To(i, "building")
        /\ shared' = [shared EXCEPT ![BuildKey(i)] = Joined(@)]
    BY <1>5 DEF StartItem, StartBuild, To
  <2>2. Goes(i, "building", item[i].try, item[i].verdict)
    BY <2>1, <1>2, StepGoes DEF ItemSteps
  <2>3. BuildKey(i)' = BuildKey(i)
    BY <1>1, <2>2 DEF BuildKey, Goes
  <2>4. \A p \in tracked : ~(p.item = i /\ p.try = item[i].try)
    BY <1>1, <1>2 DEF Kept, ItemSound, HasPlace
  <2>5. item[i].try <= item[i].try
    BY <1>2
  <2>6. Kept' /\ shared' \in [Keys -> BuildType]
    BY <1>1, <1>2, <2>1, <2>2, <2>3, <2>4, <2>5, Starts
  <2>7. \A j \in Items : item'[j].step = "done" => item'[j].verdict # "none"
    BY <2>2, GoesOnOpen
  <2> QED BY <1>1, <1>2, <1>3, <2>2, <2>6, <2>7, ItemsRun DEF Goes
<1> QED BY <1>4, <1>5

LEMMA BuildEndedKeeps ==
  ASSUME BatchInv, NEW k \in Keys, NEW result \in Results, BuildEnded(k, result)
  PROVE  BatchInv'
<1>1. /\ shared[k].is = "building"
      /\ mode' = mode /\ local' = local /\ phase' = phase
      /\ aggregatedVars' = aggregatedVars /\ tracked' = tracked /\ exit' = exit
      /\ studios' = studios
  BY DEF BuildEnded, aggregatedVars
<1>2. BatchTypeOK /\ Kept
  BY DEF BatchInv
<1>3. phase # "end"
  BY <1>1 DEF BatchInv, Disposed, NoBuild
<1>4. failures' \in Nat
  BY <1>2, CountedUp DEF BuildEnded, BatchTypeOK
<1>5. /\ Kept' /\ shared' \in [Keys -> BuildType]
      /\ item' \in [Items -> ItemType]
      /\ \A j \in Items : \/ item'[j] = item[j]
                          \/ item[j].step = "building" /\ item'[j].step # "done"
  <2>1. CASE result = "ok"
    <3>1. item' = item
      BY <2>1 DEF BuildEnded
    <3> QED BY <2>1, <3>1, <1>2, BuildSucceeds DEF BatchTypeOK
  <2>2. CASE result # "ok"
    <3>1. result \in {"failed", "transient"}
      BY <2>2 DEF Results
    <3> QED BY <3>1, <1>2, BuildFails
  <2> QED BY <2>1, <2>2
<1>6. BatchTypeOK'
  BY <1>1, <1>2, <1>4, <1>5, TypesStay DEF BatchTypeOK
<1>7. ChunksSound'
  BY <1>1, ChunksStay DEF BatchInv
<1>8. ExitSound'
  <2>1. CASE phase = "items"
    <3>1. \A i \in Items : item'[i].step = "done" => item'[i].verdict # "none"
      BY <1>5 DEF BatchInv, ExitSound
    <3> QED BY <2>1, <3>1, <1>1, OpenExit DEF BatchInv
  <2>2. CASE phase # "items"
    <3>1. \A j \in Items : item'[j] = item[j]
      BY <2>2, <1>5, BusyInItems DEF BatchInv
    <3>2. item' = item
      BY <3>1, <1>2, <1>5 DEF BatchTypeOK
    <3> QED BY <3>2, <1>1, ExitStays DEF BatchInv
  <2> QED BY <2>1, <2>2
<1>9. Disposed'
  BY <1>1, <1>3 DEF Disposed
<1> QED BY <1>5, <1>6, <1>7, <1>8, <1>9 DEF BatchInv

LEMMA TrackedKeeps ==
  ASSUME BatchInv, NEW i \in Items, Tracked(i)
  PROVE  BatchInv'
<1>1. /\ item[i].step = "building"
      /\ mode' = mode /\ local' = local /\ phase' = phase /\ shared' = shared
      /\ aggregatedVars' = aggregatedVars /\ failures' = failures /\ exit' = exit
  BY DEF Tracked, aggregatedVars
<1>2. phase = "items"
  BY <1>1, BusyInItems DEF BatchInv
<1>3. Kept' /\ tracked' \in SUBSET PlaceType
  BY TracksPlace DEF BatchInv
<1>4. PICK s \in ItemSteps : s # "done" /\ Goes(i, s, item[i].try, item[i].verdict)
  BY TracksPlace DEF BatchInv
<1>5. \A j \in Items : item'[j].step = "done" => item'[j].verdict # "none"
  BY <1>4, GoesOnOpen
<1>6. item' \in [Items -> ItemType]
  BY <1>4 DEF Goes
<1>7. shared' \in [Keys -> BuildType] /\ failures' \in Nat
  BY <1>1 DEF BatchInv, BatchTypeOK
<1> QED BY <1>1, <1>2, <1>3, <1>5, <1>6, <1>7, ItemsRun

\* A step that fails, or that changes no place, build or directory.
LEMMA PlainStepKeeps ==
  ASSUME BatchInv, NEW i \in Items, NEW s \in ItemSteps, NEW v,
         Goes(i, s, item[i].try, v), s = "done" => v # "none",
         mode' = mode, local' = local, phase' = phase, aggregatedVars' = aggregatedVars,
         shared' = shared, tracked' = tracked, dirs' = dirs, exit' = exit,
         failures' \in Nat, failures <= failures',
         item[i].step \notin {"waiting", "building", "done"},
         s \notin {"waiting", "building", "merging"},
         s \in {"preparing", "deploying"} \/ (s = "running" /\ local) =>
           item[i].step \in {"preparing", "deploying"},
         item[i].step = "merging" => failures' = failures + 1
  PROVE  BatchInv'
<1>1. phase = "items"
  BY BusyInItems DEF BatchInv
<1>2. BatchTypeOK /\ Kept /\ combined' = combined
  BY DEF BatchInv, aggregatedVars
<1>3. Kept'
  BY <1>2, MovesOn
<1>4. \A j \in Items : item'[j].step = "done" => item'[j].verdict # "none"
  BY GoesOnOpen
<1>5. /\ item' \in [Items -> ItemType] /\ shared' \in [Keys -> BuildType]
      /\ tracked' \in SUBSET PlaceType
  BY <1>2 DEF Goes, BatchTypeOK
<1> QED BY <1>1, <1>3, <1>4, <1>5, ItemsRun

\* A step that gives the place of its item back.
LEMMA ReleaseStepKeeps ==
  ASSUME BatchInv, NEW i \in Items, NEW s \in ItemSteps, NEW v,
         Goes(i, s, item[i].try, v), s = "done" => v # "none",
         HasPlace(i), Release({Held(i)}),
         mode' = mode, local' = local, phase' = phase, aggregatedVars' = aggregatedVars,
         exit' = exit, failures' \in Nat, failures <= failures',
         item[i].step \in {"deploying", "running"},
         s \in {"smoke", "done"} \/ (s = "running" /\ ~local)
  PROVE  BatchInv'
<1>1. phase = "items"
  BY BusyInItems DEF BatchInv
<1>2. BatchTypeOK /\ Kept /\ combined' = combined
  BY DEF BatchInv, aggregatedVars
<1>3. Kept' /\ shared' \in [Keys -> BuildType] /\ tracked' \in SUBSET PlaceType
  BY <1>2, ReleaseKeeps
<1>4. \A j \in Items : item'[j].step = "done" => item'[j].verdict # "none"
  BY GoesOnOpen
<1>5. item' \in [Items -> ItemType]
  BY DEF Goes
<1> QED BY <1>1, <1>3, <1>4, <1>5, ItemsRun

LEMMA ResultSteps ==
  ASSUME NEW result \in Results, result # "ok"
  PROVE  result \in {"failed", "transient"} /\ result \in ItemSteps
BY DEF Results, ItemSteps

LEMMA MergedKeeps ==
  ASSUME BatchInv, NEW i \in Items, NEW result \in Results, Merged(i, result)
  PROVE  BatchInv'
<1>1. /\ item[i].step = "merging"
      /\ mode' = mode /\ local' = local /\ phase' = phase /\ shared' = shared
      /\ aggregatedVars' = aggregatedVars /\ dirs' = dirs /\ exit' = exit
  BY DEF Merged, aggregatedVars
<1>2. BatchTypeOK /\ failures \in Nat
  BY DEF BatchInv, BatchTypeOK
<1>3. /\ failures' \in Nat /\ failures <= failures'
      /\ result # "ok" => failures' = failures + 1
  BY <1>2, CountedUp DEF Merged
<1>4. CASE result = "ok"
  <2>1. phase = "items"
    BY <1>1, BusyInItems DEF BatchInv
  <2>2. Merged(i, "ok")
    BY <1>4
  <2>3. Kept' /\ tracked' \in SUBSET PlaceType
    BY <2>2, MergeSucceeds DEF BatchInv
  <2>4. PICK s \in ItemSteps : s # "done" /\ Goes(i, s, item[i].try, item[i].verdict)
    BY <2>2, MergeSucceeds DEF BatchInv
  <2>5. \A j \in Items : item'[j].step = "done" => item'[j].verdict # "none"
    BY <2>4, GoesOnOpen
  <2>6. item' \in [Items -> ItemType]
    BY <2>4 DEF Goes
  <2>7. shared' \in [Keys -> BuildType]
    BY <1>1, <1>2 DEF BatchTypeOK
  <2> QED BY <1>1, <1>3, <2>1, <2>3, <2>5, <2>6, <2>7, ItemsRun
<1>5. CASE result # "ok"
  <2>1. To(i, result) /\ tracked' = tracked
    BY <1>5 DEF Merged
  <2>2. result \in {"failed", "transient"} /\ result \in ItemSteps
    BY <1>5, ResultSteps
  <2>3. Goes(i, result, item[i].try, item[i].verdict)
    BY <1>2, <2>1, <2>2, StepGoes
  <2> QED BY <1>1, <1>3, <1>5, <2>1, <2>2, <2>3, PlainStepKeeps
<1> QED BY <1>4, <1>5

LEMMA PreparedKeeps ==
  ASSUME BatchInv, NEW i \in Items, NEW result \in Results, Prepared(i, result)
  PROVE  BatchInv'
<1> DEFINE s == IF result = "ok" THEN "deploying" ELSE result
<1>1. /\ item[i].step = "preparing" /\ To(i, s)
      /\ mode' = mode /\ local' = local /\ phase' = phase /\ shared' = shared
      /\ tracked' = tracked
      /\ aggregatedVars' = aggregatedVars /\ dirs' = dirs /\ exit' = exit
  BY DEF Prepared, aggregatedVars
<1>2. BatchTypeOK /\ failures \in Nat
  BY DEF BatchInv, BatchTypeOK
<1>3. failures' \in Nat /\ failures <= failures'
  BY <1>2, CountedUp DEF Prepared
<1>4. s \in {"deploying", "failed", "transient"} /\ s \in ItemSteps
  BY ResultSteps DEF ItemSteps
<1> HIDE DEF s
<1>5. Goes(i, s, item[i].try, item[i].verdict)
  BY <1>1, <1>2, <1>4, StepGoes
<1> QED BY <1>1, <1>3, <1>4, <1>5, PlainStepKeeps

LEMMA UploadedKeeps ==
  ASSUME BatchInv, NEW i \in Items, NEW result \in Results, Uploaded(i, result)
  PROVE  BatchInv'
<1>1. /\ item[i].step = "deploying" /\ ~local
      /\ mode' = mode /\ local' = local /\ phase' = phase
      /\ aggregatedVars' = aggregatedVars /\ exit' = exit
  BY DEF Uploaded, aggregatedVars
<1>2. BatchTypeOK /\ failures \in Nat
  BY DEF BatchInv, BatchTypeOK
<1>3. failures' \in Nat /\ failures <= failures'
  BY <1>2, CountedUp DEF Uploaded
<1>4. CASE result = "ok"
  <2>1. To(i, "running") /\ Release({Held(i)})
    BY <1>4 DEF Uploaded
  <2>2. Goes(i, "running", item[i].try, item[i].verdict)
    BY <1>2, <2>1, StepGoes DEF ItemSteps
  <2>3. HasPlace(i)
    BY <1>1 DEF BatchInv, Kept, ItemSound
  <2> QED BY <1>1, <1>3, <2>1, <2>2, <2>3, ReleaseStepKeeps DEF ItemSteps
<1>5. CASE result # "ok"
  <2>1. To(i, result) /\ tracked' = tracked /\ shared' = shared /\ dirs' = dirs
    BY <1>5 DEF Uploaded
  <2>2. result \in {"failed", "transient"} /\ result \in ItemSteps
    BY <1>5, ResultSteps
  <2>3. Goes(i, result, item[i].try, item[i].verdict)
    BY <1>2, <2>1, <2>2, StepGoes
  <2> QED BY <1>1, <1>3, <2>1, <2>2, <2>3, PlainStepKeeps
<1> QED BY <1>4, <1>5

LEMMA OpenedInStudioKeeps ==
  ASSUME BatchInv, NEW i \in Items, NEW result \in Results, OpenedInStudio(i, result)
  PROVE  BatchInv'
<1> DEFINE s == IF result = "ok" THEN "running" ELSE result
<1>1. /\ item[i].step = "deploying" /\ To(i, s)
      /\ mode' = mode /\ local' = local /\ phase' = phase /\ shared' = shared
      /\ tracked' = tracked
      /\ aggregatedVars' = aggregatedVars /\ dirs' = dirs /\ exit' = exit
  BY DEF OpenedInStudio, aggregatedVars
<1>2. BatchTypeOK /\ failures \in Nat
  BY DEF BatchInv, BatchTypeOK
<1>3. failures' \in Nat /\ failures <= failures'
  BY <1>2, CountedUp DEF OpenedInStudio
<1>4. s \in {"running", "failed", "transient"} /\ s \in ItemSteps
  BY ResultSteps DEF ItemSteps
<1> HIDE DEF s
<1>5. Goes(i, s, item[i].try, item[i].verdict)
  BY <1>1, <1>2, <1>4, StepGoes
<1> QED BY <1>1, <1>3, <1>4, <1>5, PlainStepKeeps

LEMMA ShippedKeeps ==
  ASSUME BatchInv, NEW i \in Items, NEW result \in Results, Shipped(i, result)
  PROVE  BatchInv'
<1>1. /\ item[i].step = "deploying"
      /\ mode' = mode /\ local' = local /\ phase' = phase
      /\ aggregatedVars' = aggregatedVars /\ exit' = exit
  BY DEF Shipped, aggregatedVars
<1>2. BatchTypeOK /\ failures \in Nat
  BY DEF BatchInv, BatchTypeOK
<1>3. failures' \in Nat /\ failures <= failures'
  BY <1>2, CountedUp DEF Shipped
<1>4. CASE result = "ok"
  <2>1. Release({Held(i)}) /\ HasPlace(i)
    BY <1>1, <1>4 DEF Shipped, BatchInv, Kept, ItemSound
  <2>2. CASE i \in NeedsMerge
    <3>1. To(i, "smoke")
      BY <1>4, <2>2 DEF Shipped, To
    <3>2. Goes(i, "smoke", item[i].try, item[i].verdict)
      BY <1>2, <3>1, StepGoes DEF ItemSteps
    <3> QED BY <1>1, <1>3, <2>1, <3>2, ReleaseStepKeeps DEF ItemSteps
  <2>3. CASE i \notin NeedsMerge
    <3>1. item' = [item EXCEPT ![i].step = "done", ![i].verdict = "passed"]
      BY <1>2, <1>4, <2>3 DEF Shipped, BatchTypeOK
    <3>2. Goes(i, "done", item[i].try, "passed")
      BY <1>2, <3>1, EndGoes
    <3>3. "done" \in ItemSteps /\ "passed" # "none"
      BY DEF ItemSteps
    <3> QED BY <1>1, <1>3, <2>1, <3>2, <3>3, ReleaseStepKeeps
  <2> QED BY <2>2, <2>3
<1>5. CASE result # "ok"
  <2>1. To(i, result) /\ tracked' = tracked /\ shared' = shared /\ dirs' = dirs
    BY <1>5 DEF Shipped, To
  <2>2. result \in {"failed", "transient"} /\ result \in ItemSteps
    BY <1>5, ResultSteps
  <2>3. Goes(i, result, item[i].try, item[i].verdict)
    BY <1>2, <2>1, <2>2, StepGoes
  <2> QED BY <1>1, <1>3, <2>1, <2>2, <2>3, PlainStepKeeps
<1> QED BY <1>4, <1>5

LEMMA EndsKeep ==
  ASSUME BatchInv, NEW i \in Items, NEW result \in Results,
         NEW v \in {"passed", "failed"}, Ends(i, result, v),
         item[i].step \in {"running", "smoke", "judging"},
         mode' = mode, local' = local, phase' = phase, aggregatedVars' = aggregatedVars,
         shared' = shared, tracked' = tracked, dirs' = dirs, exit' = exit,
         failures' \in Nat, failures <= failures'
  PROVE  BatchInv'
<1>1. \/ result = "ok" /\ Goes(i, "done", item[i].try, v)
      \/ result # "ok" /\ Goes(i, result, item[i].try, item[i].verdict)
  BY EndsGoes DEF BatchInv
<1>2. CASE result = "ok"
  <2>1. Goes(i, "done", item[i].try, v) /\ "done" \in ItemSteps /\ v # "none"
    BY <1>1, <1>2 DEF ItemSteps
  <2> QED BY <2>1, PlainStepKeeps
<1>3. CASE result # "ok"
  <2>1. result \in {"failed", "transient"} /\ result \in ItemSteps
    BY <1>3, ResultSteps
  <2> QED BY <1>1, <1>3, <2>1, PlainStepKeeps
<1> QED BY <1>2, <1>3

LEMMA RanInCloudKeeps ==
  ASSUME BatchInv, NEW i \in Items, NEW result \in Results,
         NEW v \in {"passed", "failed"}, RanInCloud(i, result, v) \/ SmokeTested(i, result, v)
  PROVE  BatchInv'
<1>1. Counted(result) /\ failures \in Nat
  BY DEF RanInCloud, SmokeTested, BatchInv, BatchTypeOK
<1>2. failures' \in Nat /\ failures <= failures'
  BY <1>1, CountedUp
<1>3. /\ Ends(i, result, v) /\ item[i].step \in {"running", "smoke", "judging"}
      /\ mode' = mode /\ local' = local /\ phase' = phase
      /\ aggregatedVars' = aggregatedVars
      /\ shared' = shared /\ tracked' = tracked /\ dirs' = dirs /\ exit' = exit
  BY DEF RanInCloud, SmokeTested, aggregatedVars
<1> QED BY <1>2, <1>3, EndsKeep

LEMMA JudgedKeeps ==
  ASSUME BatchInv, NEW i \in Items, NEW v \in {"passed", "failed"}, Judged(i, v)
  PROVE  BatchInv'
<1>1. failures' = failures /\ failures \in Nat
  BY DEF Judged, BatchInv, BatchTypeOK
<1>2. /\ Ends(i, "ok", v) /\ item[i].step \in {"running", "smoke", "judging"}
      /\ mode' = mode /\ local' = local /\ phase' = phase
      /\ aggregatedVars' = aggregatedVars
      /\ shared' = shared /\ tracked' = tracked /\ dirs' = dirs /\ exit' = exit
  BY DEF Judged, aggregatedVars
<1>3. "ok" \in Results
  BY DEF Results
<1> QED BY <1>1, <1>2, <1>3, EndsKeep

LEMMA RanInStudioKeeps ==
  ASSUME BatchInv, NEW i \in Items, NEW v \in {"passed", "failed"}, RanInStudio(i, v)
  PROVE  BatchInv'
<1>1. /\ item[i].step = "running" /\ local
      /\ mode' = mode /\ local' = local /\ phase' = phase
      /\ aggregatedVars' = aggregatedVars /\ exit' = exit
      /\ failures' = failures /\ Release({Held(i)}) /\ Ends(i, "ok", v)
  BY DEF RanInStudio, aggregatedVars
<1>2. BatchTypeOK /\ failures' \in Nat /\ failures <= failures'
  BY <1>1 DEF BatchInv, BatchTypeOK
<1>3. HasPlace(i)
  BY <1>1 DEF BatchInv, Kept, ItemSound
<1>4. "ok" \in Results /\ "done" \in ItemSteps
  BY DEF Results, ItemSteps
<1>5. Goes(i, "done", item[i].try, v)
  BY <1>1, <1>2, <1>4, EndsGoes
<1> QED BY <1>1, <1>2, <1>3, <1>4, <1>5, ReleaseStepKeeps

LEMMA ItemFailedKeeps ==
  ASSUME BatchInv, NEW i \in Items, ItemFailed(i)
  PROVE  BatchInv'
<1>1. /\ item[i].step \in {"failed", "transient"}
      /\ mode' = mode /\ local' = local /\ phase' = phase
      /\ aggregatedVars' = aggregatedVars /\ combined' = combined
      /\ tracked' = tracked /\ dirs' = dirs /\ failures' = failures /\ exit' = exit
  BY DEF ItemFailed, aggregatedVars
<1>2. /\ BatchTypeOK /\ Kept /\ phase = "items"
      /\ item[i] \in ItemType /\ failures' \in Nat /\ failures <= failures'
  BY <1>1, BusyInItems DEF BatchInv, BatchTypeOK
<1>3. CASE item[i].step = "transient" /\ mode = "test" /\ item[i].try = 1
  <2> DEFINE again == [item EXCEPT ![i].try = 2]
  <2>1. /\ shared' = [shared EXCEPT ![<<i, 2>>] = Joined(@)]
        /\ item' = [again EXCEPT ![i].step = "building"]
    BY <1>3 DEF ItemFailed, StartBuild
  <2>2. /\ again \in [Items -> ItemType] /\ again[i].try = 2
        /\ again[i].verdict = item[i].verdict
        /\ \A j \in Items : j # i => again[j] = item[j]
    <3>1. [item[i] EXCEPT !.try = 2] \in ItemType
      BY <1>2 DEF ItemType
    <3>2. again = [item EXCEPT ![i] = [item[i] EXCEPT !.try = 2]]
      OBVIOUS
    <3>3. again[i] = [item[i] EXCEPT !.try = 2]
      BY <1>2 DEF BatchTypeOK
    <3>4. again[i].try = 2 /\ again[i].verdict = item[i].verdict
      BY <3>3, <1>2 DEF ItemType
    <3>5. again \in [Items -> ItemType] /\ \A j \in Items : j # i => again[j] = item[j]
      BY <1>2, <3>1, <3>2 DEF BatchTypeOK
    <3> QED BY <3>4, <3>5
  <2> HIDE DEF again
  <2>3. Goes(i, "building", 2, item[i].verdict)
    <3>1. again[i] \in ItemType
      BY <2>2
    <3> DEFINE new == [again[i] EXCEPT !.step = "building"]
    <3>2. new \in ItemType /\ new.step = "building" /\ new.try = 2
          /\ new.verdict = item[i].verdict
      BY <2>2, <3>1 DEF ItemType, ItemSteps
    <3>3. item' = [again EXCEPT ![i] = new]
      BY <2>1
    <3> HIDE DEF new
    <3>4. /\ item' \in [Items -> ItemType] /\ item'[i] = new
          /\ \A j \in Items : j # i => item'[j] = item[j]
      BY <2>2, <3>2, <3>3
    <3> QED BY <3>2, <3>4 DEF Goes, Others
  <2>4. BuildKey(i)' = <<i, 2>>
    BY <1>1, <1>3, <2>3 DEF BuildKey, Goes
  <2>5. ASSUME NEW p \in tracked, p.item = i, p.try = 2 PROVE FALSE
    <3>1. p.try <= item[p.item].try
      BY <1>2 DEF Kept, PlacesSound
    <3>2. item[p.item].try = 1
      BY <1>3, <2>5
    <3> QED BY <2>5, <3>1, <3>2
  <2>6. Kept' /\ shared' \in [Keys -> BuildType]
    <3>1. 2 \in {1, 2} /\ item[i].try <= 2
      BY <1>3
    <3> PICK k : k = <<i, 2>>
      OBVIOUS
    <3>2. k = BuildKey(i)' /\ shared' = [shared EXCEPT ![k] = Joined(@)]
      BY <2>1, <2>4
    <3>3. item[i].step \in {"waiting", "transient"}
      BY <1>3
    <3>4. \A p \in tracked : ~(p.item = i /\ p.try = 2)
      BY <2>5
    <3> QED BY <1>1, <1>2, <2>3, <3>1, <3>2, <3>3, <3>4, Starts
  <2>7. \A j \in Items : item'[j].step = "done" => item'[j].verdict # "none"
    BY <2>3, GoesOnOpen
  <2>8. item' \in [Items -> ItemType] /\ tracked' \in SUBSET PlaceType
    BY <1>1, <1>2, <2>3 DEF Goes, BatchTypeOK
  <2> QED BY <1>1, <1>2, <2>6, <2>7, <2>8, ItemsRun
<1>4. CASE ~(item[i].step = "transient" /\ mode = "test" /\ item[i].try = 1)
  <2>1. /\ item' = [item EXCEPT ![i].step = "done", ![i].verdict = "failed"]
        /\ shared' = shared
    BY <1>4 DEF ItemFailed
  <2>2. Goes(i, "done", item[i].try, "failed")
    BY <1>2, <2>1, EndGoes
  <2>3. "done" \in ItemSteps /\ "failed" # "none"
    BY DEF ItemSteps
  <2> QED BY <1>1, <1>2, <2>1, <2>2, <2>3, PlainStepKeeps
<1> QED BY <1>3, <1>4

-----------------------------------------------------------------------------
LEMMA ItemsOverKeeps ==
  ASSUME BatchInv, ItemsOver
  PROVE  BatchInv'
<1> DEFINE bad == \E i \in Items : item[i].verdict = "failed"
<1>1. /\ phase = "items" /\ \A i \in Items : item[i].step = "done"
      /\ exit' = [exit EXCEPT !.code = IF bad THEN 1 ELSE 0]
      /\ phase' = IF mode = "deploy" /\ ~bad THEN "register" ELSE "dispose"
      /\ mode' = mode /\ local' = local /\ attempt' = attempt /\ outcome' = outcome
      /\ chunk' = chunk /\ combined' = combined
      /\ dirs' = dirs /\ failures' = failures
      /\ itemVars' = itemVars /\ item' = item /\ shared' = shared /\ tracked' = tracked
  BY DEF ItemsOver, itemVars, aggregatedVars
<1>2. exit \in [code : {0, 1}, registered : BOOLEAN] /\ exit.code = 0 /\ ~exit.registered
  BY <1>1 DEF BatchInv, BatchTypeOK, ExitSound
<1>3. ~bad => AllPassed
  <2>1. \A i \in Items : item[i].verdict \in {"passed", "failed"}
    BY <1>1 DEF BatchInv, BatchTypeOK, ExitSound, ItemType
  <2> QED BY <1>1, <2>1 DEF AllPassed
<1> HIDE DEF bad
<1>4. /\ exit' \in [code : {0, 1}, registered : BOOLEAN]
      /\ exit'.code = (IF bad THEN 1 ELSE 0) /\ ~exit'.registered
  BY <1>1, <1>2
<1>5. BatchTypeOK'
  BY <1>1, <1>4 DEF BatchInv, BatchTypeOK, RunPhases
<1>6. ChunksSound'
  BY <1>1, <1>2 DEF BatchInv, ChunksSound, AllDone
<1>7. Kept'
  BY <1>1, DirsKept DEF BatchInv, BatchTypeOK
<1>8. ExitSound'
  BY <1>1, <1>3, <1>4 DEF BatchInv, ExitSound, AllPassed
<1>9. Disposed'
  BY <1>1 DEF Disposed
<1> QED BY <1>5, <1>6, <1>7, <1>8, <1>9 DEF BatchInv

LEMMA RegisteredKeeps ==
  ASSUME BatchInv, NEW result \in Results, Registered(result)
  PROVE  BatchInv'
<1>1. /\ phase = "register" /\ phase' = "dispose"
      /\ exit' = IF result = "ok" THEN [exit EXCEPT !.registered = TRUE]
                 ELSE [exit EXCEPT !.code = 1]
      /\ mode' = mode /\ local' = local /\ attempt' = attempt /\ outcome' = outcome
      /\ chunk' = chunk /\ combined' = combined /\ dirs' = dirs
      /\ itemVars' = itemVars /\ item' = item /\ shared' = shared /\ tracked' = tracked
  BY DEF Registered, itemVars, aggregatedVars
<1>2. exit \in [code : {0, 1}, registered : BOOLEAN]
  BY DEF BatchInv, BatchTypeOK
<1>3. /\ exit' \in [code : {0, 1}, registered : BOOLEAN]
      /\ exit'.code = 0 => exit.code = 0
  BY <1>1, <1>2
<1>4. AllPassed
  BY <1>1 DEF BatchInv, ExitSound
<1>5. failures' \in Nat /\ failures <= failures'
  BY CountedUp DEF Registered, BatchInv, BatchTypeOK
<1>6. BatchTypeOK'
  BY <1>1, <1>3, <1>5 DEF BatchInv, BatchTypeOK, RunPhases
<1>7. ChunksSound'
  BY <1>1, <1>3 DEF BatchInv, ChunksSound, AllDone
<1>8. Kept'
  BY <1>1, <1>5, DirsKept DEF BatchInv
<1>9. ExitSound'
  BY <1>1, <1>4 DEF BatchInv, ExitSound, AllPassed
<1>10. Disposed'
  BY <1>1 DEF Disposed
<1> QED BY <1>6, <1>7, <1>8, <1>9, <1>10 DEF BatchInv

LEMMA DisposeKeeps ==
  ASSUME BatchInv, Dispose
  PROVE  BatchInv'
<1>1. /\ phase = "dispose" /\ phase' = "end"
      /\ tracked' = {} /\ shared' = [k \in Keys |-> NoBuild] /\ studios' = {}
      /\ mode' = mode /\ local' = local /\ attempt' = attempt /\ outcome' = outcome
      /\ chunk' = chunk /\ combined' = combined
      /\ item' = item /\ failures' = failures /\ exit' = exit
  BY DEF Dispose, aggregatedVars
<1>2. \A d : d \in dirs' <=>
        /\ d \in dirs /\ d # <<"combined">>
        /\ ~\E k \in Keys : shared[k].is = "built" /\ d = <<"build", k>>
        /\ ~\E p \in tracked : p.merged /\ d = <<"merge", p.item, p.try>>
  BY DEF Dispose
<1>3. \A i \in Items : item[i].step \in {"waiting", "done"}
  BY <1>1 DEF BatchInv, ExitSound
<1>4. BatchTypeOK'
  BY <1>1 DEF BatchInv, BatchTypeOK, RunPhases, BuildType, NoBuild
<1>5. ChunksSound'
  BY <1>1 DEF BatchInv, ChunksSound, AllDone
<1>6. ExitSound'
  BY <1>1 DEF BatchInv, ExitSound, AllPassed
<1>7. <<"combined">> \notin dirs' /\ \A k \in Keys : <<"build", k>> \notin dirs'
  BY <1>2 DEF BatchInv, Kept, BuildSound
<1>8. PlacesSound'
  BY <1>1, FS_EmptySet DEF PlacesSound
<1>9. ASSUME NEW i \in Items PROVE ItemSound(i)'
  BY <1>1, <1>3 DEF ItemSound, HasPlace
<1>10. ASSUME NEW k \in Keys PROVE BuildSound(k)'
  <2>1. OfKey(k)' = {} /\ Awaiting(k)' = {}
    BY <1>1, <1>3 DEF OfKey, Awaiting
  <2>2. Cardinality(OfKey(k)') = 0 /\ Cardinality(Awaiting(k)') = 0
    BY <2>1, FS_EmptySet
  <2>3. shared'[k].is = "none" /\ shared'[k].refs = 0
    BY <1>1 DEF NoBuild
  <2> QED BY <1>7, <2>2, <2>3 DEF BuildSound
<1>11. LeftSound'
  <2>1. ASSUME NEW d, d \in dirs' PROVE d \in dirs /\ ~Owned(d)
    BY <1>2, <1>3, <1>7, <2>1 DEF Owned
  <2>2. Left' \subseteq Left
    BY <2>1 DEF Left
  <2> QED BY <1>1, <2>2, LeftStays DEF BatchInv, Kept, BatchTypeOK
<1>12. Disposed'
  BY <1>1, <1>7 DEF Disposed
<1> QED BY <1>4, <1>5, <1>6, <1>8, <1>9, <1>10, <1>11, <1>12 DEF BatchInv, Kept

LEMMA BatchStutters ==
  ASSUME BatchInv, UNCHANGED batchVars
  PROVE  BatchInv'
<1>1. /\ mode' = mode /\ local' = local /\ phase' = phase /\ combined' = combined
      /\ chunk' = chunk /\ outcome' = outcome /\ attempt' = attempt /\ item' = item
      /\ shared' = shared /\ tracked' = tracked /\ dirs' = dirs /\ studios' = studios
      /\ failures' = failures /\ exit' = exit /\ itemVars' = itemVars
  BY DEF batchVars, itemVars
<1>2. BatchTypeOK'
  BY <1>1 DEF BatchInv, BatchTypeOK
<1>3. ChunksSound'
  BY <1>1 DEF BatchInv, ChunksSound, AllDone
<1>4. Kept'
  BY <1>1, DirsKept DEF BatchInv, BatchTypeOK
<1>5. ExitSound' /\ Disposed'
  BY <1>1, ExitStays DEF BatchInv, Disposed
<1> QED BY <1>2, <1>3, <1>4, <1>5 DEF BatchInv

LEMMA BatchBegins == BatchInit => BatchInv
<1> SUFFICES ASSUME BatchInit PROVE BatchInv
  OBVIOUS
<1>1. /\ combined \in {"none", "built"} /\ tracked = {} /\ failures = 0
      /\ item = [i \in Items |-> Idle] /\ shared = [k \in Keys |-> NoBuild]
      /\ dirs = IF combined = "built" THEN {<<"combined">>} ELSE {}
      /\ exit = [code |-> 0, registered |-> FALSE] /\ phase \in {"batch", "items"}
      /\ chunk = [c \in Chunks |-> NoChunk] /\ outcome = "none" /\ attempt = 1
      /\ mode \in Modes /\ local \in BOOLEAN
      /\ phase = "items" => mode # "aggregated"
  BY DEF BatchInit, Prebuilt
<1>2. \A i \in Items : item[i] = Idle /\ item[i].step = "waiting"
  BY <1>1 DEF Idle
<1>3. BatchTypeOK
  BY <1>1 DEF BatchTypeOK, RunPhases, ItemType, ItemSteps, BuildType, ChunkType, NoChunk,
    NoBuild, Idle
<1>4. ChunksSound
  BY <1>1 DEF ChunksSound, ChunkSound, NoChunk, AllDone
<1>5. ExitSound /\ Disposed
  BY <1>1, <1>2 DEF ExitSound, Disposed
<1>6. PlacesSound
  BY <1>1, FS_EmptySet DEF PlacesSound
<1>7. \A i \in Items : ItemSound(i)
  BY <1>1, <1>2 DEF ItemSound, HasPlace
<1>8. ASSUME NEW k \in Keys PROVE BuildSound(k)
  <2>1. OfKey(k) = {} /\ Awaiting(k) = {}
    BY <1>1, <1>2 DEF OfKey, Awaiting
  <2>2. Cardinality(OfKey(k)) = 0 /\ Cardinality(Awaiting(k)) = 0
    BY <2>1, FS_EmptySet
  <2>3. shared[k].is = "none" /\ shared[k].refs = 0
    BY <1>1 DEF NoBuild
  <2>4. <<"build", k>> \notin dirs
    BY <1>1, DirsDiffer
  <2> QED BY <2>2, <2>3, <2>4 DEF BuildSound
<1>9. LeftSound
  <2>1. Left = {}
    BY <1>1 DEF Left, Owned
  <2> QED BY <2>1, <1>1, FS_EmptySet DEF LeftSound
<1> QED BY <1>3, <1>4, <1>5, <1>6, <1>7, <1>8, <1>9 DEF BatchInv, Kept

LEMMA BatchHolds == BatchSpec => []BatchInv
<1>1. BatchInv /\ [BatchNext]_batchVars => BatchInv'
  <2> SUFFICES ASSUME BatchInv, [BatchNext]_batchVars PROVE BatchInv'
    OBVIOUS
  <2>1. CASE BatchStep
    BY <2>1, RunBatchKeeps, RetryBatchKeeps, BatchOverKeeps, CombinedBuiltKeeps,
      ChunkDeployedKeeps, ChunkRanKeeps DEF BatchStep
  <2>2. CASE ItemStep
    <3>1. CASE \E i \in Items : StartItem(i) \/ Tracked(i) \/ ItemFailed(i)
      BY <3>1, StartItemKeeps, TrackedKeeps, ItemFailedKeeps
    <3>2. ASSUME NEW result \in Results, NEW k \in Keys, BuildEnded(k, result)
          PROVE  BatchInv'
      BY <3>2, BuildEndedKeeps
    <3>3. ASSUME NEW result \in Results, NEW i \in Items,
                 \/ Merged(i, result) \/ Prepared(i, result) \/ Uploaded(i, result)
                 \/ OpenedInStudio(i, result) \/ Shipped(i, result)
          PROVE  BatchInv'
      BY <3>3, MergedKeeps, PreparedKeeps, UploadedKeeps, OpenedInStudioKeeps, ShippedKeeps
    <3>4. ASSUME NEW result \in Results, NEW i \in Items, NEW v \in {"passed", "failed"},
                 RanInCloud(i, result, v) \/ SmokeTested(i, result, v)
          PROVE  BatchInv'
      BY <3>4, RanInCloudKeeps
    <3>5. ASSUME NEW i \in Items, NEW v \in {"passed", "failed"},
                 RanInStudio(i, v) \/ Judged(i, v)
          PROVE  BatchInv'
      BY <3>5, RanInStudioKeeps, JudgedKeeps
    <3>6. CASE ItemsOver
      BY <3>6, ItemsOverKeeps
    <3>7. ASSUME NEW result \in Results, Registered(result) PROVE BatchInv'
      BY <3>7, RegisteredKeeps
    <3> QED BY <2>2, <3>1, <3>2, <3>3, <3>4, <3>5, <3>6, <3>7 DEF ItemStep
  <2>3. CASE Dispose
    BY <2>3, DisposeKeeps
  <2>4. CASE UNCHANGED batchVars
    BY <2>4, BatchStutters
  <2> QED BY <2>1, <2>2, <2>3, <2>4 DEF BatchNext
<1> QED BY BatchBegins, <1>1, PTL DEF BatchSpec

\* Every variable of a batch keeps its type: an item is tried at most twice, and neither
\* the users of a build nor the steps that failed are ever counted below zero.
THEOREM BatchTypeCorrect == BatchSpec => []BatchTypeOK
<1>1. BatchInv => BatchTypeOK
  BY DEF BatchInv
<1> QED BY <1>1, BatchHolds, PTL

\* Nobody's files are deleted under it and nothing is left that no failed step explains,
\* however many items share a build and wherever one fails (releaseBuiltPlaceAsync,
\* _getOrCreateSharedBuildAsync, disposeAsync).
THEOREM FilesAreKept == BatchSpec => []BuildsKept
<1>1. BatchInv => BuildsKept
  <2> SUFFICES ASSUME BatchInv PROVE BuildsKept
    OBVIOUS
  <2>1. ASSUME NEW p \in tracked
        PROVE  <<"build", p.key>> \in dirs
               /\ (p.merged => <<"merge", p.item, p.try>> \in dirs)
    <3>1. p.key \in Keys /\ shared[p.key].is = "built"
      BY DEF BatchInv, BatchTypeOK, PlaceType, Kept, PlacesSound
    <3> QED BY <3>1 DEF BatchInv, Kept, PlacesSound, BuildSound
  <2>2. \A k \in Keys :
          shared[k].refs = Cardinality({p \in tracked : p.key = k})
                             + Cardinality({i \in Items : item[i].step = "building"
                                                          /\ BuildKey(i) = k})
    BY DEF BatchInv, Kept, BuildSound, OfKey, Awaiting
  <2>3. ASSUME phase = "end" PROVE studios = {} /\ Cardinality(dirs) <= failures
    <3>1. /\ studios = {} /\ tracked = {} /\ <<"combined">> \notin dirs
          /\ \A k \in Keys : shared[k] = NoBuild
      BY <2>3 DEF BatchInv, Disposed
    <3>2. \A i \in Items : item[i].step \in {"waiting", "done"}
      BY <2>3 DEF BatchInv, ExitSound
    <3>3. \A k \in Keys : <<"build", k>> \notin dirs
      <4>1. \A k \in Keys : shared[k].is # "built"
        BY <3>1 DEF NoBuild
      <4> QED BY <4>1 DEF BatchInv, Kept, BuildSound
    <3>4. Left = dirs
      BY <3>1, <3>2, <3>3 DEF Left, Owned
    <3> QED BY <3>1, <3>4 DEF BatchInv, Kept, LeftSound
  <2> QED BY <2>1, <2>2, <2>3 DEF BuildsKept
<1> QED BY <1>1, BatchHolds, PTL

\* A clean exit means that every package passed and, of an aggregated run, that every
\* place was executed; watches are registered after a clean deploy only
\* (runBatchAsync, batch-deploy-command.ts).
THEOREM ExitTellsAll == BatchSpec => []ExitTells
<1>1. BatchInv => ExitTells
  BY DEF BatchInv, ExitSound, ChunksSound, AllPassed, ExitTells
<1> QED BY <1>1, BatchHolds, PTL

-----------------------------------------------------------------------------
(* Verdicts                                                                *)

\* The entry of a package in the summary, from what its script did.
LEMMA EntryOfSummary ==
    ASSUME NEW lines, NEW returned, NEW truth \in [Packages -> ScriptKinds], NEW slug \in Packages,
           SummaryOf(lines, returned, truth)[slug].success
    PROVE  /\ returned \/ PrintedSummary(lines)
           /\ truth[slug] \notin {"throws", "fails", "interrupted"}
           /\ SummaryOf(lines, returned, truth)[slug] = SummaryEntry(truth[slug])
<1>1. CASE returned \/ PrintedSummary(lines)
  <2>1. SummaryOf(lines, returned, truth)[slug] = SummaryEntry(truth[slug])
    BY <1>1 DEF SummaryOf
  <2>2. SummaryEntry(truth[slug]).success
    BY <2>1, Zenon
  <2>3. truth[slug] # "throws" /\ ~SaysItFailed(truth[slug])
    BY <2>2, Zenon DEF SummaryEntry
  <2> QED
    BY <1>1, <2>1, <2>3 DEF SaysItFailed
<1>2. CASE ~ (returned \/ PrintedSummary(lines))
  BY <1>2 DEF SummaryOf
<1> QED
  BY <1>1, <1>2

\* Whatever arrived of the log of a run, and in whatever order: a package passes only if
\* a summary came back and its script did not throw; if it returned results, then only if
\* they say it did not fail and, where it has specs, come from running them; and if it
\* returned none, then only if its own text holds a report and nothing that failed
\* (parseBatchTestLogs, executePreparedTestAsync).
THEOREM ResultsDecide ==
    ASSUME NEW lines, NEW returned \in BOOLEAN, NEW truth \in [Packages -> ScriptKinds], NEW slug \in Packages,
           Verdict(ParseBatchTestLogs(lines, returned, truth)[slug], slug \in WithSpecs)
    PROVE  /\ returned \/ PrintedSummary(lines)
           /\ truth[slug] \notin {"throws", "fails", "interrupted"}
           /\ truth[slug] = "smoke" => slug \notin WithSpecs
           /\ ReturnedCounts[truth[slug]] = "none" =>
                LET logs == ParseBatchTestLogs(lines, returned, truth)[slug].logs
                IN HasTestReport(logs) /\ ~Says(logs, "failed") /\ ~Says(logs, "trace")
<1> DEFINE entry == SummaryOf(lines, returned, truth)[slug]
           result == ParseBatchTestLogs(lines, returned, truth)[slug]
<1>1. /\ result.success => entry.success
      /\ result.counts = entry.counts /\ result.ranJest = entry.ranJest
  BY DEF ParseBatchTestLogs
<1> HIDE DEF result
<1>2. /\ result.success
      /\ OutcomePasses(result.logs, result.counts = "none")
      /\ ~ (result.counts # "none" /\ ~result.ranJest /\ slug \in WithSpecs)
  BY DEF Verdict, result
<1>3. /\ returned \/ PrintedSummary(lines)
      /\ truth[slug] \notin {"throws", "fails", "interrupted"}
      /\ entry = SummaryEntry(truth[slug])
  BY <1>1, <1>2, EntryOfSummary
<1>4. result.counts = ReturnedCounts[truth[slug]] /\ result.ranJest = (truth[slug] # "smoke")
  BY <1>1, <1>3 DEF SummaryEntry
<1>5. truth[slug] = "smoke" => slug \notin WithSpecs
  <2>1. ReturnedCounts["smoke"] = "clean"
    BY DEF ReturnedCounts
  <2> QED
    BY <1>2, <1>4, <2>1, Zenon
<1>6. ASSUME ReturnedCounts[truth[slug]] = "none"
      PROVE  HasTestReport(result.logs) /\ ~Says(result.logs, "failed") /\ ~Says(result.logs, "trace")
  BY <1>2, <1>4, <1>6, Zenon DEF OutcomePasses
<1> QED
  BY <1>3, <1>5, <1>6 DEF result

(***************************************************************************)
(* Sections                                                                *)
(* A fold over a sequence is a function defined by recursion: that there   *)
(* is one, and what its values are, follows from the least number for      *)
(* which it would be otherwise.                                            *)
(***************************************************************************)

Texts == {"", "report", "failed", "trace", "text"}

LogTokens ==
    {t \in [kind : {"begin", "content", "end", "summary", "json", "payload"},
            slug : 0 .. Slugs, says : Texts] :
       t.kind \in {"begin", "end"} => t.slug \in Packages}

Sections == [known : BOOLEAN, partial : BOOLEAN, lines : Seq(LogTokens)]

Folds == [sections : [Packages -> Sections], open : 0 .. Slugs,
          lines : Seq(LogTokens), headClaimable : BOOLEAN,
          strays : Seq(0 .. Slugs), orphans : Seq(0 .. Slugs)]

BeginsAt(tokens, k, slug) == tokens[k].kind = "begin" /\ tokens[k].slug = slug
EndsAt(tokens, k, slug) == tokens[k].kind = "end" /\ tokens[k].slug = slug
Marks(tokens, k) == tokens[k].kind \in {"begin", "end"}

\* The lines are the content between two places.
Holds(lines, tokens, b, e) ==
    /\ \A i \in DOMAIN lines : \E k \in b + 1 .. e - 1 :
         tokens[k].kind = "content" /\ lines[i] = tokens[k]
    /\ \A k \in b + 1 .. e - 1 :
         tokens[k].kind = "content" => \E i \in DOMAIN lines : lines[i] = tokens[k]

\* A section that began at b is still open at e, or one that the window has cut off.
OpenFrom(tokens, b, e, slug) ==
    IF b = 0 THEN \A k \in 1 .. e - 1 : ~Marks(tokens, k)
    ELSE /\ BeginsAt(tokens, b, slug)
         /\ \A k \in b + 1 .. e - 1 :
              tokens[k].kind # "begin" /\ ~EndsAt(tokens, k, slug)

\* What is known of the fold after n tokens: of the open section, of the head of the
\* log, of what closed, and of what has to be closed.
OpenRead(tokens, fold, n) ==
    /\ fold.open # 0 =>
         /\ ~fold.headClaimable
         /\ \E b \in 1 .. n : /\ OpenFrom(tokens, b, n + 1, fold.open)
                              /\ Holds(fold.lines, tokens, b, n + 1)
    /\ \A b \in 1 .. n : \A slug \in Packages :
         OpenFrom(tokens, b, n + 1, slug) => fold.open = slug

HeadRead(tokens, fold, n) ==
    /\ fold.headClaimable => Holds(fold.lines, tokens, 0, n + 1)
    /\ fold.headClaimable <=> \A k \in 1 .. n : ~Marks(tokens, k)

Closes(tokens, b, e, slug) == EndsAt(tokens, e, slug) /\ OpenFrom(tokens, b, e, slug)

SectionsRead(tokens, sections, n) ==
    \A slug \in Packages :
      /\ sections[slug].known =>
           \E e \in 1 .. n : \E b \in 0 .. e - 1 :
             Closes(tokens, b, e, slug) /\ Holds(sections[slug].lines, tokens, b, e)
      /\ \A e \in 1 .. n : \A b \in 0 .. e - 1 :
           Closes(tokens, b, e, slug) => sections[slug].known

Read(tokens, fold, n) ==
    /\ OpenRead(tokens, fold, n)
    /\ HeadRead(tokens, fold, n)
    /\ SectionsRead(tokens, fold.sections, n)

\* A token is read in one of four ways.
LEMMA ReadsBegin ==
    ASSUME NEW fold \in Folds, NEW token \in LogTokens, token.kind = "begin"
    PROVE  LET next == FoldToken(fold, token)
           IN /\ next \in Folds /\ next.sections = fold.sections
              /\ next.open = token.slug /\ next.lines = <<>> /\ ~next.headClaimable
<1> DEFINE orphaned == IF fold.open # 0 THEN Append(fold.orphans, fold.open) ELSE fold.orphans
<1>1. token.slug \in 0 .. Slugs
  BY DEF LogTokens
<1>2. FoldToken(fold, token) =
        [fold EXCEPT !.open = token.slug, !.lines = <<>>, !.headClaimable = FALSE,
                     !.orphans = orphaned]
  BY DEF FoldToken
<1>3. orphaned \in Seq(0 .. Slugs) /\ <<>> \in Seq(LogTokens)
  <2> DEFINE S == 0 .. Slugs
  <2>1. fold.orphans \in Seq(S) /\ fold.open \in S
    BY DEF Folds
  <2> HIDE DEF S
  <2>2. Append(fold.orphans, fold.open) \in Seq(S)
    BY <2>1
  <2>3. orphaned \in Seq(S)
    BY <2>1, <2>2
  <2>4. <<>> \in Seq(LogTokens)
    OBVIOUS
  <2> QED
    BY <2>3, <2>4 DEF S
<1> HIDE DEF orphaned
<1> QED
  BY <1>1, <1>2, <1>3 DEF Folds

LEMMA ReadsContent ==
    ASSUME NEW fold \in Folds, NEW token \in LogTokens, token.kind = "content"
    PROVE  LET next == FoldToken(fold, token)
           IN /\ next \in Folds /\ next.sections = fold.sections
              /\ next.open = fold.open /\ next.lines = Append(fold.lines, token)
              /\ next.headClaimable = fold.headClaimable
<1>1. FoldToken(fold, token) = [fold EXCEPT !.lines = Append(@, token)]
  BY DEF FoldToken
<1>2. Append(fold.lines, token) \in Seq(LogTokens)
  BY DEF Folds
<1> QED
  BY <1>1, <1>2 DEF Folds

LEMMA ReadsOther ==
    ASSUME NEW fold \in Folds, NEW token \in LogTokens,
           token.kind \notin {"begin", "content", "end"}
    PROVE  FoldToken(fold, token) = fold
BY DEF FoldToken

LEMMA ReadsEnd ==
    ASSUME NEW fold \in Folds, NEW token \in LogTokens, token.kind = "end",
           token.slug = fold.open \/ fold.headClaimable
    PROVE  LET next == FoldToken(fold, token)
           IN /\ next \in Folds
              /\ next.sections[token.slug].known
              /\ next.sections[token.slug].lines = fold.lines
              /\ \A p \in Packages \ {token.slug} : next.sections[p] = fold.sections[p]
              /\ next.open = 0 /\ next.lines = <<>> /\ ~next.headClaimable
<1> DEFINE section == [known |-> TRUE, partial |-> fold.headClaimable, lines |-> fold.lines]
<1>1. token.slug \in Packages
  BY DEF LogTokens
<1>2. FoldToken(fold, token) =
        [fold EXCEPT !.sections[token.slug] = section,
                     !.open = 0, !.lines = <<>>, !.headClaimable = FALSE]
  BY DEF FoldToken, CloseSection
<1>3. section \in Sections
  BY DEF Folds, Sections
<1>4. [fold.sections EXCEPT ![token.slug] = section] \in [Packages -> Sections]
  BY <1>1, <1>3 DEF Folds
<1>5. 0 \in 0 .. Slugs /\ <<>> \in Seq(LogTokens)
  BY LogAssumption
<1> HIDE DEF section
<1>6. FoldToken(fold, token) =
        [fold EXCEPT !.sections = [fold.sections EXCEPT ![token.slug] = section],
                     !.open = 0, !.lines = <<>>, !.headClaimable = FALSE]
  BY <1>2 DEF Folds
<1>7. /\ FoldToken(fold, token) \in Folds
      /\ FoldToken(fold, token).sections = [fold.sections EXCEPT ![token.slug] = section]
      /\ FoldToken(fold, token).open = 0 /\ FoldToken(fold, token).lines = <<>>
      /\ ~FoldToken(fold, token).headClaimable
  BY <1>4, <1>5, <1>6 DEF Folds
<1>8. section.known /\ section.lines = fold.lines
  BY DEF section
<1>9. fold.sections \in [Packages -> Sections]
  BY DEF Folds
<1> QED
  BY <1>1, <1>7, <1>8, <1>9

LEMMA ReadsStrayEnd ==
    ASSUME NEW fold \in Folds, NEW token \in LogTokens, token.kind = "end",
           token.slug # fold.open, ~fold.headClaimable
    PROVE  LET next == FoldToken(fold, token)
           IN /\ next \in Folds /\ next.sections = fold.sections
              /\ next.open = fold.open /\ next.lines = fold.lines /\ ~next.headClaimable
<1>1. token.slug \in 0 .. Slugs
  BY DEF LogTokens
<1>2. FoldToken(fold, token) = [fold EXCEPT !.strays = Append(@, token.slug)]
  BY DEF FoldToken, CloseSection
<1>3. Append(fold.strays, token.slug) \in Seq(0 .. Slugs)
  BY <1>1 DEF Folds
<1> QED
  BY <1>2, <1>3 DEF Folds

\* What one more token does to what is open and to what lines hold.
LEMMA OpenNext ==
    ASSUME NEW tokens, NEW n \in Nat, NEW slug, NEW b \in 1 .. n
    PROVE  OpenFrom(tokens, b, (n + 1) + 1, slug) <=>
             /\ OpenFrom(tokens, b, n + 1, slug)
             /\ tokens[n + 1].kind # "begin" /\ ~EndsAt(tokens, n + 1, slug)
<1>1. b # 0 /\ (b + 1 .. ((n + 1) + 1) - 1) = (b + 1 .. (n + 1) - 1) \cup {n + 1}
  OBVIOUS
<1> QED
  BY <1>1 DEF OpenFrom

LEMMA OpenNow ==
    ASSUME NEW tokens, NEW n \in Nat, NEW slug
    PROVE  OpenFrom(tokens, n + 1, (n + 1) + 1, slug) <=> BeginsAt(tokens, n + 1, slug)
BY DEF OpenFrom

LEMMA HoldsContent ==
    ASSUME NEW tokens, NEW n \in Nat, NEW b \in 0 .. n, NEW lines \in Seq(LogTokens),
           tokens[n + 1] \in LogTokens, Holds(lines, tokens, b, n + 1),
           tokens[n + 1].kind = "content"
    PROVE  Holds(Append(lines, tokens[n + 1]), tokens, b, (n + 1) + 1)
<1> DEFINE new == Append(lines, tokens[n + 1])
<1>1. (b + 1 .. ((n + 1) + 1) - 1) = (b + 1 .. (n + 1) - 1) \cup {n + 1}
  OBVIOUS
<1>2. /\ DOMAIN new = DOMAIN lines \cup {Len(lines) + 1}
      /\ new[Len(lines) + 1] = tokens[n + 1]
      /\ \A i \in DOMAIN lines : new[i] = lines[i]
  OBVIOUS
<1> HIDE DEF new
<1>3. ASSUME NEW i \in DOMAIN new
      PROVE  \E k \in b + 1 .. ((n + 1) + 1) - 1 : tokens[k].kind = "content" /\ new[i] = tokens[k]
  <2>1. CASE i \in DOMAIN lines
    BY <1>1, <1>2, <2>1 DEF Holds
  <2>2. CASE i = Len(lines) + 1
    BY <1>1, <1>2, <2>2
  <2> QED
    BY <1>2, <1>3, <2>1, <2>2
<1>4. ASSUME NEW k \in b + 1 .. ((n + 1) + 1) - 1, tokens[k].kind = "content"
      PROVE  \E i \in DOMAIN new : new[i] = tokens[k]
  <2>1. CASE k = n + 1
    BY <1>2, <2>1
  <2>2. CASE k # n + 1
    <3>1. PICK i \in DOMAIN lines : lines[i] = tokens[k]
      BY <1>1, <1>4, <2>2 DEF Holds
    <3> QED
      BY <1>2, <3>1
  <2> QED
    BY <2>1, <2>2
<1> QED
  BY <1>3, <1>4 DEF Holds, new

LEMMA HoldsOther ==
    ASSUME NEW tokens, NEW n \in Nat, NEW b \in 0 .. n, NEW lines,
           Holds(lines, tokens, b, n + 1), tokens[n + 1].kind # "content"
    PROVE  Holds(lines, tokens, b, (n + 1) + 1)
<1>1. (b + 1 .. ((n + 1) + 1) - 1) = (b + 1 .. (n + 1) - 1) \cup {n + 1}
  OBVIOUS
<1> QED
  BY <1>1 DEF Holds

LEMMA HoldsNothing ==
    ASSUME NEW tokens, NEW n \in Nat
    PROVE  Holds(<<>>, tokens, n + 1, (n + 1) + 1)
BY DEF Holds

\* Sections that a token does not close stay as they were read.
LEMMA SectionsStay ==
    ASSUME NEW tokens, NEW n \in Nat, NEW sections, SectionsRead(tokens, sections, n),
           \A slug \in Packages : \A b \in 0 .. n : ~Closes(tokens, b, n + 1, slug)
    PROVE  SectionsRead(tokens, sections, n + 1)
<1>1. (1 .. n + 1) = (1 .. n) \cup {n + 1} /\ (0 .. (n + 1) - 1) = 0 .. n
  OBVIOUS
<1> QED
  BY <1>1 DEF SectionsRead

LEMMA ReadsOn ==
    ASSUME NEW tokens, NEW n \in Nat, NEW fold \in Folds, Read(tokens, fold, n),
           tokens[n + 1] \in LogTokens
    PROVE  LET next == FoldToken(fold, tokens[n + 1])
           IN next \in Folds /\ Read(tokens, next, n + 1)
<1> DEFINE token == tokens[n + 1]
           next == FoldToken(fold, token)
<1>1. OpenRead(tokens, fold, n) /\ HeadRead(tokens, fold, n) /\ SectionsRead(tokens, fold.sections, n)
  BY DEF Read
<1>2. (1 .. n + 1) = (1 .. n) \cup {n + 1}
  OBVIOUS
<1>3. fold.lines \in Seq(LogTokens) /\ fold.open \in 0 .. Slugs
  BY DEF Folds
<1>4. CASE token.kind = "begin"
  <2>1. /\ next \in Folds /\ next.sections = fold.sections
        /\ next.open = token.slug /\ next.lines = <<>> /\ ~next.headClaimable
    BY <1>4, ReadsBegin
  <2> HIDE DEF next
  <2>2. OpenRead(tokens, next, n + 1)
    <3>1. OpenFrom(tokens, n + 1, (n + 1) + 1, next.open) /\ Holds(next.lines, tokens, n + 1, (n + 1) + 1)
      BY <1>4, <2>1, OpenNow, HoldsNothing DEF BeginsAt
    <3>2. ASSUME NEW b \in 1 .. n + 1, NEW slug \in Packages, OpenFrom(tokens, b, (n + 1) + 1, slug)
          PROVE  next.open = slug
      <4>1. b = n + 1
        BY <1>2, <1>4, <3>2, OpenNext
      <4> QED
        BY <2>1, <3>2, <4>1, OpenNow DEF BeginsAt
    <3> QED
      BY <2>1, <3>1, <3>2 DEF OpenRead
  <2>3. HeadRead(tokens, next, n + 1)
    BY <1>4, <2>1 DEF HeadRead, Marks
  <2>4. SectionsRead(tokens, next.sections, n + 1)
    BY <1>1, <1>4, <2>1, SectionsStay DEF Closes, EndsAt
  <2> QED
    BY <2>1, <2>2, <2>3, <2>4 DEF Read, next
<1>5. CASE token.kind = "content"
  <2>1. /\ next \in Folds /\ next.sections = fold.sections /\ next.open = fold.open
        /\ next.lines = Append(fold.lines, token) /\ next.headClaimable = fold.headClaimable
    BY <1>5, ReadsContent
  <2> HIDE DEF next
  <2>2. \A b \in 0 .. n : Holds(fold.lines, tokens, b, n + 1) =>
                            Holds(next.lines, tokens, b, (n + 1) + 1)
    BY <1>3, <1>5, <2>1, HoldsContent
  <2>3. OpenRead(tokens, next, n + 1)
    <3>1. \A b \in 1 .. n : \A slug : OpenFrom(tokens, b, (n + 1) + 1, slug) <=> OpenFrom(tokens, b, n + 1, slug)
      BY <1>5, OpenNext DEF EndsAt
    <3>2. \A slug : ~OpenFrom(tokens, n + 1, (n + 1) + 1, slug)
      BY <1>5, OpenNow DEF BeginsAt
    <3> QED
      BY <1>1, <1>2, <2>1, <2>2, <3>1, <3>2 DEF OpenRead
  <2>4. HeadRead(tokens, next, n + 1)
    BY <1>1, <1>2, <1>5, <2>1, <2>2 DEF HeadRead, Marks
  <2>5. SectionsRead(tokens, next.sections, n + 1)
    BY <1>1, <1>5, <2>1, SectionsStay DEF Closes, EndsAt
  <2> QED
    BY <2>1, <2>3, <2>4, <2>5 DEF Read, next
<1>6. CASE token.kind \notin {"begin", "content", "end"}
  <2>1. next = fold
    BY <1>6, ReadsOther
  <2> HIDE DEF next
  <2>2. \A b \in 0 .. n : Holds(fold.lines, tokens, b, n + 1) =>
                            Holds(fold.lines, tokens, b, (n + 1) + 1)
    BY <1>6, HoldsOther
  <2>3. OpenRead(tokens, next, n + 1)
    <3>1. \A b \in 1 .. n : \A slug : OpenFrom(tokens, b, (n + 1) + 1, slug) <=> OpenFrom(tokens, b, n + 1, slug)
      BY <1>6, OpenNext DEF EndsAt
    <3>2. \A slug : ~OpenFrom(tokens, n + 1, (n + 1) + 1, slug)
      BY <1>6, OpenNow DEF BeginsAt
    <3> QED
      BY <1>1, <1>2, <2>1, <2>2, <3>1, <3>2 DEF OpenRead
  <2>4. HeadRead(tokens, next, n + 1)
    BY <1>1, <1>2, <1>6, <2>1, <2>2 DEF HeadRead, Marks
  <2>5. SectionsRead(tokens, next.sections, n + 1)
    BY <1>1, <1>6, <2>1, SectionsStay DEF Closes, EndsAt
  <2> QED
    BY <2>1, <2>3, <2>4, <2>5 DEF Read, next
<1>7. CASE token.kind = "end" /\ (token.slug = fold.open \/ fold.headClaimable)
  <2>1. /\ next \in Folds
        /\ next.sections[token.slug].known /\ next.sections[token.slug].lines = fold.lines
        /\ \A p \in Packages \ {token.slug} : next.sections[p] = fold.sections[p]
        /\ next.open = 0 /\ next.lines = <<>> /\ ~next.headClaimable
    BY <1>7, ReadsEnd
  <2> HIDE DEF next
  <2>2. token.slug \in Packages /\ token.slug # 0
    BY <1>7, LogAssumption DEF LogTokens, Packages
  <2>3. OpenRead(tokens, next, n + 1)
    <3>1. ASSUME NEW b \in 1 .. n + 1, NEW slug \in Packages, OpenFrom(tokens, b, (n + 1) + 1, slug)
          PROVE  FALSE
      <4>1. b \in 1 .. n
        BY <1>2, <1>7, <3>1, OpenNow DEF BeginsAt
      <4>2. OpenFrom(tokens, b, n + 1, slug) /\ token.slug # slug
        BY <1>7, <3>1, <4>1, OpenNext DEF EndsAt
      <4>3. fold.open = slug
        BY <1>1, <4>1, <4>2 DEF OpenRead
      <4>4. ~fold.headClaimable
        BY <1>1, <4>3, LogAssumption DEF OpenRead, Packages
      <4> QED
        BY <1>7, <4>2, <4>3, <4>4
    <3> QED
      BY <2>1, <3>1 DEF OpenRead
  <2>4. HeadRead(tokens, next, n + 1)
    BY <1>7, <2>1 DEF HeadRead, Marks
  <2>5. \E b \in 0 .. n : Closes(tokens, b, n + 1, token.slug) /\ Holds(fold.lines, tokens, b, n + 1)
    <3>1. CASE fold.headClaimable
      <4>1. OpenFrom(tokens, 0, n + 1, token.slug) /\ Holds(fold.lines, tokens, 0, n + 1)
        BY <1>1, <3>1 DEF HeadRead, OpenFrom
      <4> QED
        BY <1>7, <4>1 DEF Closes, EndsAt
    <3>2. CASE ~fold.headClaimable
      <4>1. fold.open = token.slug
        BY <1>7, <3>2
      <4>2. PICK b \in 1 .. n : OpenFrom(tokens, b, n + 1, token.slug) /\ Holds(fold.lines, tokens, b, n + 1)
        BY <1>1, <2>2, <4>1 DEF OpenRead
      <4> QED
        BY <1>7, <4>2 DEF Closes, EndsAt
    <3> QED
      BY <3>1, <3>2
  <2>6. SectionsRead(tokens, next.sections, n + 1)
    <3>1. ASSUME NEW slug \in Packages, next.sections[slug].known
          PROVE  \E e \in 1 .. n + 1 : \E b \in 0 .. e - 1 :
                   Closes(tokens, b, e, slug) /\ Holds(next.sections[slug].lines, tokens, b, e)
      <4>1. CASE slug = token.slug
        <5>1. (0 .. (n + 1) - 1) = 0 .. n /\ n + 1 \in 1 .. n + 1
          OBVIOUS
        <5> QED
          BY <2>1, <2>5, <4>1, <5>1
      <4>2. CASE slug # token.slug
        <5>1. next.sections[slug] = fold.sections[slug]
          BY <2>1, <4>2
        <5> QED
          BY <1>1, <1>2, <3>1, <5>1 DEF SectionsRead
      <4> QED
        BY <4>1, <4>2
    <3>2. ASSUME NEW slug \in Packages, NEW e \in 1 .. n + 1, NEW b \in 0 .. e - 1, Closes(tokens, b, e, slug)
          PROVE  next.sections[slug].known
      <4>1. CASE slug = token.slug
        BY <2>1, <4>1
      <4>2. CASE slug # token.slug
        <5>1. e \in 1 .. n
          BY <1>2, <3>2, <4>2 DEF Closes, EndsAt
        <5> QED
          BY <1>1, <2>1, <3>2, <4>2, <5>1 DEF SectionsRead
      <4> QED
        BY <4>1, <4>2
    <3> QED
      BY <3>1, <3>2 DEF SectionsRead
  <2> QED
    BY <2>1, <2>3, <2>4, <2>6 DEF Read, next
<1>8. CASE token.kind = "end" /\ token.slug # fold.open /\ ~fold.headClaimable
  <2>1. /\ next \in Folds /\ next.sections = fold.sections
        /\ next.open = fold.open /\ next.lines = fold.lines /\ ~next.headClaimable
    BY <1>8, ReadsStrayEnd
  <2> HIDE DEF next
  <2>2. OpenRead(tokens, next, n + 1)
    <3>1. ASSUME fold.open # 0
          PROVE  \E b \in 1 .. n : /\ OpenFrom(tokens, b, (n + 1) + 1, fold.open)
                                   /\ Holds(fold.lines, tokens, b, (n + 1) + 1)
      <4>1. PICK b \in 1 .. n : OpenFrom(tokens, b, n + 1, fold.open) /\ Holds(fold.lines, tokens, b, n + 1)
        BY <1>1, <3>1 DEF OpenRead
      <4>2. OpenFrom(tokens, b, (n + 1) + 1, fold.open)
        BY <1>8, <4>1, OpenNext DEF EndsAt
      <4>3. Holds(fold.lines, tokens, b, (n + 1) + 1)
        BY <1>8, <4>1, HoldsOther
      <4> QED
        BY <4>2, <4>3
    <3>2. ASSUME NEW b \in 1 .. n + 1, NEW slug \in Packages, OpenFrom(tokens, b, (n + 1) + 1, slug)
          PROVE  next.open = slug
      <4>1. b \in 1 .. n
        BY <1>2, <1>8, <3>2, OpenNow DEF BeginsAt
      <4> QED
        BY <1>1, <2>1, <3>2, <4>1, OpenNext DEF OpenRead
    <3> QED
      BY <1>2, <2>1, <3>1, <3>2 DEF OpenRead
  <2>3. HeadRead(tokens, next, n + 1)
    BY <1>8, <2>1 DEF HeadRead, Marks
  <2>4. ASSUME NEW slug \in Packages, NEW b \in 0 .. n, Closes(tokens, b, n + 1, slug) PROVE FALSE
    <3>1. slug = token.slug /\ OpenFrom(tokens, b, n + 1, slug)
      BY <2>4 DEF Closes, EndsAt
    <3>2. CASE b = 0
      BY <1>1, <1>8, <3>1, <3>2 DEF OpenFrom, HeadRead
    <3>3. CASE b # 0
      BY <1>1, <1>8, <3>1, <3>3 DEF OpenRead
    <3> QED
      BY <3>2, <3>3
  <2>5. SectionsRead(tokens, next.sections, n + 1)
    BY <1>1, <2>1, <2>4, SectionsStay
  <2> QED
    BY <2>1, <2>2, <2>3, <2>5 DEF Read, next
<1> QED
  BY <1>4, <1>5, <1>6, <1>7, <1>8

LEMMA LeastNumber ==
    ASSUME NEW S \in SUBSET Nat, S # {}
    PROVE  \E n \in S : \A m \in S : n <= m
<1>1. PICK n \in S : \A m \in S : <<m, n>> \notin OpToRel(<, Nat)
  BY WFMin, NatLessThanWellFounded, Zenon
<1>2. \A m \in S : ~ (m < n)
  BY <1>1, Zenon DEF OpToRel
<1> QED
  BY <1>2

\* There is a fold, and so the one that is chosen is one.
IsFold(fold, tokens, n) ==
    fold = [k \in 0 .. n |-> IF k = 0 THEN Unread ELSE FoldToken(fold[k - 1], tokens[k])]

LEMMA FoldExists ==
    ASSUME NEW tokens, NEW n \in Nat
    PROVE  \E fold : IsFold(fold, tokens, n)
<1> DEFINE Lacks == {m \in Nat : ~ \E fold : IsFold(fold, tokens, m)}
<1> SUFFICES ASSUME Lacks # {} PROVE FALSE
  OBVIOUS
<1>1. PICK m \in Lacks : \A k \in Lacks : m <= k
  BY LeastNumber, Lacks \in SUBSET Nat
<1>2. m # 0
  <2>1. IsFold([k \in 0 .. 0 |-> Unread], tokens, 0)
    BY DEF IsFold
  <2> QED
    BY <1>1, <2>1
<1>3. PICK fold : IsFold(fold, tokens, m - 1)
  BY <1>1, <1>2
<1> DEFINE more == [k \in 0 .. m |-> IF k = m THEN FoldToken(fold[m - 1], tokens[m]) ELSE fold[k]]
<1>4. \A k \in 0 .. m - 1 : more[k] = fold[k]
  BY <1>1
<1>5. more[m] = FoldToken(fold[m - 1], tokens[m])
  BY <1>1
<1>6. \A k \in 0 .. m : more[k] = IF k = 0 THEN Unread ELSE FoldToken(more[k - 1], tokens[k])
  <2> TAKE k \in 0 .. m
  <2>1. CASE k = 0
    BY <1>2, <1>3, <1>4, <2>1 DEF IsFold
  <2>2. CASE k = m
    BY <1>1, <1>2, <1>4, <1>5, <2>2
  <2>3. CASE k # 0 /\ k # m
    <3>1. k \in 0 .. m - 1 /\ k - 1 \in 0 .. m - 1
      BY <1>1, <2>3
    <3>2. fold[k] = FoldToken(fold[k - 1], tokens[k])
      BY <1>3, <2>3, <3>1 DEF IsFold
    <3> QED
      BY <1>4, <2>3, <3>1, <3>2
  <2> QED
    BY <2>1, <2>2, <2>3
<1>7. more = [k \in 0 .. m |-> IF k = 0 THEN Unread ELSE FoldToken(more[k - 1], tokens[k])]
  BY <1>6
<1> QED
  BY <1>1, <1>7 DEF IsFold

LEMMA FoldReads ==
    ASSUME NEW tokens \in Seq(LogTokens), NEW fold, IsFold(fold, tokens, Len(tokens)),
           NEW n \in 0 .. Len(tokens)
    PROVE  fold[n] \in Folds /\ Read(tokens, fold[n], n)
<1> DEFINE Good(k) == fold[k] \in Folds /\ Read(tokens, fold[k], k)
           Bad == {k \in 0 .. Len(tokens) : ~Good(k)}
<1> SUFFICES ASSUME Bad # {} PROVE FALSE
  OBVIOUS
<1>1. PICK k \in Bad : \A m \in Bad : k <= m
  BY LeastNumber, Bad \in SUBSET Nat
<1>2. Good(0)
  <2>1. fold[0] = Unread
    BY DEF IsFold
  <2>2. NoSection \in Sections /\ ~NoSection.known
    BY DEF NoSection, Sections
  <2>3. Unread \in Folds
    BY <2>2, LogAssumption DEF Unread, Folds
  <2>4. Read(tokens, Unread, 0)
    <3>1. OpenRead(tokens, Unread, 0)
      BY DEF OpenRead, Unread
    <3>2. HeadRead(tokens, Unread, 0)
      BY DEF HeadRead, Unread, Holds
    <3>3. SectionsRead(tokens, Unread.sections, 0)
      BY <2>2 DEF SectionsRead, Unread
    <3> QED
      BY <3>1, <3>2, <3>3 DEF Read
  <2> QED
    BY <2>1, <2>3, <2>4
<1>3. k # 0 /\ k - 1 \in 0 .. Len(tokens) /\ k - 1 \in Nat /\ (k - 1) + 1 = k /\ k \in 1 .. Len(tokens)
  BY <1>1, <1>2
<1>4. Good(k - 1)
  BY <1>1, <1>3
<1>5. fold[k] = FoldToken(fold[k - 1], tokens[k])
  BY <1>3 DEF IsFold
<1>6. tokens[k] \in LogTokens
  BY <1>3
<1>7. Good(k)
  BY <1>3, <1>4, <1>5, <1>6, ReadsOn
<1> QED
  BY <1>1, <1>7

\* foldTokensIntoSections, whatever the tokens are and however they are out of order: a
\* section that is known ends at an END of its package and begins at the BEGIN of that
\* package with no other BEGIN and no END of the package in between, or at the head of
\* the log if there is no marker before; it holds just the content in between; and every
\* such END makes its package's section known.
THEOREM SectionsAreOwn ==
    ASSUME NEW tokens \in Seq(LogTokens)
    PROVE  LET fold == FoldTokensIntoSections(tokens)
           IN fold \in Folds /\ SectionsRead(tokens, fold.sections, Len(tokens))
<1> DEFINE fold == CHOOSE f : IsFold(f, tokens, Len(tokens))
<1>1. IsFold(fold, tokens, Len(tokens))
  BY FoldExists
<1>2. FoldTokensIntoSections(tokens) = fold[Len(tokens)]
  BY DEF FoldTokensIntoSections, IsFold
<1> HIDE DEF fold
<1> QED
  BY <1>1, <1>2, FoldReads DEF Read

(***************************************************************************)
(* The log of a run                                                        *)
(* What is left of the log of packages that ran in turn, and what their    *)
(* sections hold of it.                                                    *)
(***************************************************************************)

\* A log of packages that ran in turn, with its head cut off: what its lines are, in
\* which order they come, and that nothing is missing at its end.
Tells(lines, truth) ==
    \A k \in DOMAIN lines :
      IF lines[k].slug = 0
        THEN lines[k].kind \in {"summary", "json"} /\ lines[k].says = ""
        ELSE /\ lines[k].kind \in {"begin", "content", "end"}
             /\ lines[k].kind # "content" => lines[k].says = ""
             /\ lines[k].kind = "content" =>
                  \E i \in DOMAIN Prints[truth[lines[k].slug]] :
                    lines[k].says = Prints[truth[lines[k].slug]][i]

InTurn(lines) ==
    \A i, j \in DOMAIN lines : i < j /\ lines[j].slug # 0 =>
      /\ lines[i].slug # 0 /\ lines[i].slug <= lines[j].slug
      /\ lines[i].slug = lines[j].slug =>
           lines[i].kind # "end" /\ lines[j].kind # "begin"
      /\ lines[i].slug # lines[j].slug =>
           \E b \in i + 1 .. j : BeginsAt(lines, b, lines[j].slug)

RunsOut(lines) ==
    \A k \in DOMAIN lines : lines[k].slug # 0 /\ lines[k].kind # "end" =>
      \E e \in k + 1 .. Len(lines) : EndsAt(lines, e, lines[k].slug)

WindowOf(lines, truth) ==
    /\ lines \in Seq(LogTokens)
    /\ Tells(lines, truth) /\ InTurn(lines) /\ RunsOut(lines)

Written(lines, slug, what) ==
    \E k \in DOMAIN lines : /\ lines[k].kind = "content" /\ lines[k].slug = slug
                            /\ lines[k].says = what

\* What a token is.
LEMMA TokenIs ==
    ASSUME NEW token \in LogTokens
    PROVE  /\ token.slug \in 0 .. Slugs /\ token.slug \in Nat /\ token.says \in Texts
           /\ token.kind \in {"begin", "content", "end", "summary", "json", "payload"}
           /\ token.kind \in {"begin", "end"} => token.slug \in Packages
BY LogAssumption DEF LogTokens

\* Tokenizing changes the kind of the summary's payload only.
LEMMA Tokenized ==
    ASSUME NEW lines \in Seq(LogTokens)
    PROVE  LET tokens == TokenizeBatchLog(lines)
           IN /\ tokens \in Seq(LogTokens) /\ Len(tokens) = Len(lines)
              /\ \A k \in DOMAIN lines :
                   /\ tokens[k].slug = lines[k].slug /\ tokens[k].says = lines[k].says
                   /\ lines[k].kind # "json" => tokens[k] = lines[k]
                   /\ lines[k].kind = "json" => tokens[k].kind \in {"payload", "content"}
<1> DEFINE tokens == TokenizeBatchLog(lines)
<1>1. ASSUME NEW k \in DOMAIN lines
      PROVE  /\ tokens[k] \in LogTokens
             /\ tokens[k].slug = lines[k].slug /\ tokens[k].says = lines[k].says
             /\ lines[k].kind # "json" => tokens[k] = lines[k]
             /\ lines[k].kind = "json" => tokens[k].kind \in {"payload", "content"}
  <2>1. lines[k] \in LogTokens
    OBVIOUS
  <2>2. CASE lines[k].kind # "json"
    <3>1. tokens[k] = lines[k]
      BY <2>2 DEF TokenizeBatchLog
    <3> QED
      BY <2>1, <2>2, <3>1
  <2>3. CASE lines[k].kind = "json"
    <3>1. PICK kind \in {"payload", "content"} : tokens[k] = [lines[k] EXCEPT !.kind = kind]
      BY <2>3 DEF TokenizeBatchLog
    <3> QED
      BY <2>1, <2>3, <3>1 DEF LogTokens
  <2> QED
    BY <2>2, <2>3
<1>2. DOMAIN tokens = 1 .. Len(lines) /\ Len(lines) \in Nat
  BY DEF TokenizeBatchLog
<1>3. tokens = [k \in 1 .. Len(lines) |-> tokens[k]]
  BY DEF TokenizeBatchLog
<1> HIDE DEF tokens
<1>4. tokens \in [1 .. Len(lines) -> LogTokens]
  BY <1>1, <1>2, <1>3
<1>5. tokens \in Seq(LogTokens) /\ Len(tokens) = Len(lines)
  BY <1>2, <1>4
<1> QED
  BY <1>1, <1>5 DEF tokens

\* The section of a package in such a log holds all that the package wrote and that is
\* left, and nothing else.
LEMMA SectionsOfWindow ==
    ASSUME NEW lines, NEW truth, WindowOf(lines, truth), NEW slug \in Packages,
           NEW sections, SectionsRead(TokenizeBatchLog(lines), sections, Len(lines))
    PROVE  /\ sections[slug].known <=> \E e \in DOMAIN lines : EndsAt(lines, e, slug)
           /\ sections[slug].known =>
                \A what : Says(sections[slug].lines, what) <=> Written(lines, slug, what)
<1> DEFINE tokens == TokenizeBatchLog(lines)
<1>1. /\ lines \in Seq(LogTokens) /\ tokens \in Seq(LogTokens) /\ Len(tokens) = Len(lines)
      /\ DOMAIN lines = 1 .. Len(lines) /\ Len(lines) \in Nat
      /\ \A k \in 1 .. Len(lines) :
           /\ tokens[k].slug = lines[k].slug /\ tokens[k].says = lines[k].says
           /\ lines[k].slug # 0 => tokens[k] = lines[k]
           /\ tokens[k].kind = "begin" => lines[k].kind = "begin"
           /\ Marks(tokens, k) <=> Marks(lines, k)
           /\ \A s : BeginsAt(tokens, k, s) <=> BeginsAt(lines, k, s)
           /\ \A s : EndsAt(tokens, k, s) <=> EndsAt(lines, k, s)
  <2>1. lines \in Seq(LogTokens) /\ Tells(lines, truth)
    BY DEF WindowOf
  <2>2. DOMAIN lines = 1 .. Len(lines) /\ Len(lines) \in Nat
    BY <2>1
  <2>3. /\ tokens \in Seq(LogTokens) /\ Len(tokens) = Len(lines)
        /\ \A k \in DOMAIN lines :
             /\ tokens[k].slug = lines[k].slug /\ tokens[k].says = lines[k].says
             /\ lines[k].kind # "json" => tokens[k] = lines[k]
             /\ lines[k].kind = "json" => tokens[k].kind \in {"payload", "content"}
    BY <2>1, Tokenized
  <2> HIDE DEF tokens
  <2>4. ASSUME NEW k \in 1 .. Len(lines)
        PROVE  /\ tokens[k].slug = lines[k].slug /\ tokens[k].says = lines[k].says
               /\ lines[k].slug # 0 => tokens[k] = lines[k]
               /\ lines[k].kind = "json" \/ tokens[k] = lines[k]
               /\ lines[k].kind = "json" => tokens[k].kind \in {"payload", "content"}
    <3>1. lines[k].slug # 0 => lines[k].kind # "json"
      BY <2>1, <2>2 DEF Tells
    <3> QED
      BY <2>2, <2>3, <3>1
  <2>5. ASSUME NEW k \in 1 .. Len(lines)
        PROVE  /\ tokens[k].kind = "begin" => lines[k].kind = "begin"
               /\ Marks(tokens, k) <=> Marks(lines, k)
               /\ \A s : BeginsAt(tokens, k, s) <=> BeginsAt(lines, k, s)
               /\ \A s : EndsAt(tokens, k, s) <=> EndsAt(lines, k, s)
    <3>1. CASE tokens[k] = lines[k]
      BY <3>1 DEF Marks, BeginsAt, EndsAt
    <3>2. CASE lines[k].kind = "json" /\ tokens[k].kind \in {"payload", "content"}
      BY <3>2 DEF Marks, BeginsAt, EndsAt
    <3> QED
      BY <2>4, <3>1, <3>2
  <2> QED
    BY <2>1, <2>2, <2>3, <2>4, <2>5
<1> HIDE DEF tokens
<1>2. \A k \in 1 .. Len(lines) : lines[k].slug \in Nat /\ (Marks(lines, k) => lines[k].slug # 0)
  BY <1>1, TokenIs, LogAssumption DEF Marks, Packages
<1>3. slug # 0 /\ slug \in Nat
  BY LogAssumption DEF Packages
<1>4. \A i, j \in 1 .. Len(lines) : i < j /\ lines[j].slug # 0 =>
        /\ lines[i].slug # 0 /\ lines[i].slug <= lines[j].slug
        /\ lines[i].slug = lines[j].slug => lines[i].kind # "end" /\ lines[j].kind # "begin"
        /\ lines[i].slug # lines[j].slug => \E b \in i + 1 .. j : BeginsAt(lines, b, lines[j].slug)
  BY <1>1 DEF WindowOf, InTurn
\* The END of a package closes its section, from its BEGIN or the head of the log.
<1>5. ASSUME NEW e \in 1 .. Len(lines), EndsAt(lines, e, slug)
      PROVE  \E b \in 0 .. e - 1 : Closes(tokens, b, e, slug)
  <2>1. CASE \E b \in 1 .. e - 1 : BeginsAt(lines, b, slug)
    <3>1. PICK b \in 1 .. e - 1 : BeginsAt(lines, b, slug)
      BY <2>1
    <3>2. ASSUME NEW k \in b + 1 .. e - 1
          PROVE  lines[k].kind # "begin" /\ ~EndsAt(lines, k, slug)
      <4>1. b < k /\ k < e /\ k \in 1 .. Len(lines) /\ b \in 1 .. Len(lines)
        BY <1>1, <1>5
      <4>2. lines[e].slug = slug /\ lines[b].slug = slug /\ lines[k].slug = slug
        BY <1>2, <1>3, <1>4, <1>5, <3>1, <4>1 DEF BeginsAt, EndsAt
      <4> QED
        BY <1>3, <1>4, <4>1, <4>2 DEF EndsAt
    <3>3. OpenFrom(tokens, b, e, slug)
      <4>1. \A k \in b .. e - 1 : k \in 1 .. Len(lines) /\ (tokens[k].kind = "begin" => lines[k].kind = "begin")
        BY <1>1, <1>5 DEF BeginsAt
      <4> QED
        BY <1>1, <1>5, <3>1, <3>2, <4>1 DEF OpenFrom
    <3> QED
      BY <1>1, <1>5, <3>1, <3>3 DEF Closes
  <2>2. CASE ~ \E b \in 1 .. e - 1 : BeginsAt(lines, b, slug)
    <3>1. ASSUME NEW k \in 1 .. e - 1, Marks(lines, k) PROVE FALSE
      <4>1. k < e /\ k \in 1 .. Len(lines) /\ lines[e].slug = slug
        BY <1>1, <1>5 DEF EndsAt
      <4>2. CASE lines[k].slug = slug
        BY <1>3, <1>4, <2>2, <3>1, <4>1, <4>2 DEF Marks, BeginsAt
      <4>3. CASE lines[k].slug # slug
        <5>1. PICK b \in k + 1 .. e : BeginsAt(lines, b, slug)
          BY <1>3, <1>4, <4>1, <4>3
        <5>2. b # e
          BY <1>5, <5>1 DEF BeginsAt, EndsAt
        <5> QED
          BY <2>2, <5>1, <5>2
      <4> QED
        BY <4>2, <4>3
    <3>2. OpenFrom(tokens, 0, e, slug)
      BY <1>1, <1>5, <3>1 DEF OpenFrom
    <3> QED
      BY <1>1, <1>5, <3>2 DEF Closes
  <2> QED
    BY <2>1, <2>2
<1>6. ASSUME sections[slug].known
      PROVE  \E e \in 1 .. Len(lines) : \E b \in 0 .. e - 1 :
               Closes(tokens, b, e, slug) /\ Holds(sections[slug].lines, tokens, b, e)
  BY <1>6 DEF SectionsRead, tokens
<1>7. ASSUME NEW e \in DOMAIN lines, EndsAt(lines, e, slug)
      PROVE  sections[slug].known
  BY <1>1, <1>5, <1>7 DEF SectionsRead, tokens
<1>8. ASSUME sections[slug].known, NEW what
      PROVE  Says(sections[slug].lines, what) <=> Written(lines, slug, what)
  <2>0. PICK e \in 1 .. Len(lines) : \E b \in 0 .. e - 1 :
          Closes(tokens, b, e, slug) /\ Holds(sections[slug].lines, tokens, b, e)
    BY <1>6, <1>8
  <2>1. PICK b \in 0 .. e - 1 : Closes(tokens, b, e, slug) /\ Holds(sections[slug].lines, tokens, b, e)
    BY <2>0
  <2>2. EndsAt(lines, e, slug) /\ OpenFrom(tokens, b, e, slug) /\ lines[e].slug = slug /\ lines[e].kind = "end"
    BY <1>1, <2>1 DEF Closes, EndsAt
  <2>3. ASSUME NEW k \in b + 1 .. e - 1 PROVE k \in 1 .. Len(lines) /\ lines[k].slug = slug /\ tokens[k] = lines[k]
    <3>1. k \in 1 .. Len(lines) /\ k < e
      BY <1>1
    <3>2. lines[k].slug # 0
      BY <1>3, <1>4, <2>2, <3>1
    <3>3. ASSUME lines[k].slug # slug PROVE FALSE
      <4>1. PICK m \in k + 1 .. e : BeginsAt(lines, m, slug)
        BY <1>3, <1>4, <2>2, <3>1, <3>3
      <4>2. m \in b + 1 .. e - 1 /\ m \in 1 .. Len(lines)
        BY <1>1, <2>2, <4>1 DEF BeginsAt
      <4>3. BeginsAt(tokens, m, slug)
        BY <1>1, <4>1, <4>2
      <4> QED
        BY <2>2, <4>2, <4>3 DEF OpenFrom, BeginsAt, Marks
    <3> QED
      BY <1>1, <3>1, <3>2, <3>3
  <2>4. ASSUME NEW k \in 1 .. Len(lines), lines[k].kind = "content", lines[k].slug = slug
        PROVE  k \in b + 1 .. e - 1
    <3>1. k < e
      BY <1>3, <1>4, <2>2, <2>4
    <3>2. ASSUME b # 0 PROVE b < k
      <4>1. b \in 1 .. Len(lines) /\ BeginsAt(lines, b, slug)
        BY <1>1, <2>2, <3>2 DEF OpenFrom
      <4> QED
        BY <1>3, <1>4, <2>4, <4>1 DEF BeginsAt
    <3> QED
      BY <3>1, <3>2
  <2>5. ASSUME Says(sections[slug].lines, what) PROVE Written(lines, slug, what)
    <3>1. PICK i \in DOMAIN sections[slug].lines : sections[slug].lines[i].says = what
      BY <2>5 DEF Says
    <3>2. PICK k \in b + 1 .. e - 1 : tokens[k].kind = "content" /\ sections[slug].lines[i] = tokens[k]
      BY <2>1 DEF Holds
    <3> QED
      BY <1>1, <2>3, <3>1, <3>2 DEF Written
  <2>6. ASSUME Written(lines, slug, what) PROVE Says(sections[slug].lines, what)
    <3>1. PICK k \in 1 .. Len(lines) : lines[k].kind = "content" /\ lines[k].slug = slug /\ lines[k].says = what
      BY <1>1, <2>6 DEF Written
    <3>2. k \in b + 1 .. e - 1 /\ tokens[k] = lines[k]
      BY <2>3, <2>4, <3>1
    <3>3. PICK i \in DOMAIN sections[slug].lines : sections[slug].lines[i] = tokens[k]
      BY <2>1, <3>1, <3>2 DEF Holds
    <3> QED
      BY <3>1, <3>2, <3>3 DEF Says
  <2> QED
    BY <2>5, <2>6
<1> QED
  BY <1>1, <1>6, <1>7, <1>8 DEF Closes

\* Nothing of the packages up to n is missing.
Complete(lines, truth, n) ==
    \A slug \in 1 .. n :
      /\ \E k \in DOMAIN lines : EndsAt(lines, k, slug)
      /\ \A i \in DOMAIN Prints[truth[slug]] : Written(lines, slug, Prints[truth[slug]][i])

\* What the first n packages have written.
LogUpTo(lines, truth, n) ==
    /\ WindowOf(lines, truth)
    /\ \A k \in DOMAIN lines : lines[k].slug \in 1 .. n
    /\ Complete(lines, truth, n)

\* What a script prints.
LEMMA PrintsOf ==
    ASSUME NEW kind \in ScriptKinds
    PROVE  /\ Prints[kind] \in Seq(Texts) /\ Len(Prints[kind]) \in Nat
           /\ DOMAIN Prints[kind] = 1 .. Len(Prints[kind])
<1>1. /\ <<"report">> \in Seq(Texts) /\ <<"failed">> \in Seq(Texts) /\ <<"text">> \in Seq(Texts)
      /\ <<"report", "trace">> \in Seq(Texts)
  BY DEF Texts
<1>2. /\ Prints["passes"] = <<"report">> /\ Prints["fails"] = <<"failed">>
      /\ Prints["interrupted"] = <<"report">>
      /\ Prints["trips"] = <<"report", "trace">> /\ Prints["throws"] = <<"text">>
      /\ Prints["smoke"] = <<"text">> /\ Prints["mutePasses"] = <<"report">>
      /\ Prints["muteFails"] = <<"failed">> /\ Prints["muteDies"] = <<"text">>
  BY DEF Prints
<1>3. Prints[kind] \in Seq(Texts)
  BY <1>1, <1>2 DEF ScriptKinds
<1> QED
  BY <1>3

\* Where a line of two logs stands.
IsJoin(all, front, back, m, n) ==
    /\ all \in Seq(LogTokens) /\ Len(all) = m + n
    /\ DOMAIN all = 1 .. m + n
    /\ DOMAIN front = 1 .. m /\ DOMAIN back = 1 .. n
    /\ \A k \in 1 .. m : all[k] = front[k]
    /\ \A k \in 1 .. n : all[m + k] = back[k]

LEMMA Joining ==
    ASSUME NEW front \in Seq(LogTokens), NEW back \in Seq(LogTokens),
           NEW m \in Nat, NEW n \in Nat, m = Len(front), n = Len(back)
    PROVE  IsJoin(front \o back, front, back, m, n)
BY DEF IsJoin

LEMMA TokenParts ==
    ASSUME NEW kind, NEW slug, NEW says, NEW token, token = Token(kind, slug, says)
    PROVE  token.kind = kind /\ token.slug = slug /\ token.says = says
BY DEF Token

LEMMA TokensMade ==
    ASSUME NEW slug \in Packages
    PROVE  /\ Token("begin", slug, "") \in LogTokens /\ Token("end", slug, "") \in LogTokens
           /\ \A says \in Texts : Token("content", slug, says) \in LogTokens
<1>1. slug \in 0 .. Slugs /\ "" \in Texts
  BY LogAssumption DEF Packages, Texts
<1> QED
  BY <1>1 DEF LogTokens, Token

LEMMA PackageLog ==
    ASSUME NEW kind \in ScriptKinds, NEW slug \in Packages,
           NEW size \in Nat, size = Len(Prints[kind])
    PROVE  LET block == RunPackage(slug, kind)
           IN /\ block \in Seq(LogTokens) /\ Len(block) = size + 2
              /\ block[1] = Token("begin", slug, "") /\ block[size + 2] = Token("end", slug, "")
              /\ \A i \in 1 .. size : block[i + 1] = Token("content", slug, Prints[kind][i])
<1> DEFINE prints == Prints[kind]
           content == [i \in DOMAIN prints |-> Token("content", slug, prints[i])]
           first == Token("begin", slug, "")
           last == Token("end", slug, "")
<1>1. prints \in Seq(Texts) /\ DOMAIN prints = 1 .. size
  BY PrintsOf
<1>2. \A i \in 1 .. size : prints[i] \in Texts
  BY <1>1
<1>3. /\ first \in LogTokens /\ last \in LogTokens
      /\ \A says \in Texts : Token("content", slug, says) \in LogTokens
  BY TokensMade
<1>4. RunPackage(slug, kind) = (<<first>> \o content) \o <<last>>
  BY DEF RunPackage
<1> HIDE DEF prints, first, last
<1>5. content \in [1 .. size -> LogTokens]
  BY <1>1, <1>2, <1>3
<1>6. /\ content \in Seq(LogTokens) /\ Len(content) = size
      /\ \A i \in 1 .. size : content[i] = Token("content", slug, prints[i])
  BY <1>1, <1>5
<1> HIDE DEF content
<1> DEFINE front == <<first>> \o content
<1>0. /\ <<first>> \in Seq(LogTokens) /\ Len(<<first>>) = 1 /\ <<first>>[1] = first
      /\ <<last>> \in Seq(LogTokens) /\ Len(<<last>>) = 1 /\ <<last>>[1] = last
      /\ 1 \in Nat /\ 1 + size \in Nat /\ 1 \in 1 .. 1
  BY <1>3
<1>7. /\ front \in Seq(LogTokens) /\ Len(front) = 1 + size
      /\ front[1] = first /\ \A i \in 1 .. size : front[1 + i] = content[i]
  <2> DEFINE opening == <<first>>
  <2>1. opening \in Seq(LogTokens) /\ Len(opening) = 1 /\ opening[1] = first
    BY <1>0
  <2> HIDE DEF opening
  <2>3. IsJoin(opening \o content, opening, content, 1, size)
    BY <1>0, <1>6, <2>1, Joining
  <2>2. /\ opening \o content \in Seq(LogTokens) /\ Len(opening \o content) = 1 + size
        /\ (opening \o content)[1] = opening[1]
        /\ \A i \in 1 .. size : (opening \o content)[1 + i] = content[i]
    BY <1>0, <2>3 DEF IsJoin
  <2> QED
    BY <2>1, <2>2 DEF opening
<1> HIDE DEF front
<1>8. /\ front \o <<last>> \in Seq(LogTokens) /\ Len(front \o <<last>>) = (1 + size) + 1
      /\ \A i \in 1 .. 1 + size : (front \o <<last>>)[i] = front[i]
      /\ (front \o <<last>>)[(1 + size) + 1] = last
  <2> DEFINE tail == <<last>>
  <2>1. tail \in Seq(LogTokens) /\ Len(tail) = 1 /\ tail[1] = last
    BY <1>0
  <2> HIDE DEF tail
  <2>3. IsJoin(front \o tail, front, tail, 1 + size, 1)
    BY <1>0, <1>7, <2>1, Joining
  <2>2. /\ front \o tail \in Seq(LogTokens) /\ Len(front \o tail) = (1 + size) + 1
        /\ \A i \in 1 .. 1 + size : (front \o tail)[i] = front[i]
        /\ (front \o tail)[(1 + size) + 1] = tail[1]
    BY <1>0, <2>3 DEF IsJoin
  <2> QED
    BY <2>1, <2>2 DEF tail
<1>9. /\ 1 \in 1 .. 1 + size /\ (1 + size) + 1 = size + 2
      /\ \A i \in 1 .. size : i + 1 \in 1 .. 1 + size /\ i + 1 = 1 + i
  OBVIOUS
<1>10. RunPackage(slug, kind) = front \o <<last>>
  BY <1>4 DEF front
<1>11. \A i \in 1 .. size : RunPackage(slug, kind)[i + 1] = Token("content", slug, prints[i])
  BY <1>6, <1>7, <1>8, <1>9, <1>10
<1> QED
  BY <1>7, <1>8, <1>9, <1>10, <1>11 DEF prints, first, last

\* One more package runs: what the lines are that it adds.
Adds(all, lines, prints, n, before, last) ==
    /\ all \in Seq(LogTokens) /\ DOMAIN all = 1 .. last /\ Len(all) = last
    /\ DOMAIN lines = 1 .. before /\ before + 2 <= last
    /\ \A k \in 1 .. before : all[k] = lines[k]
    /\ all[before + 1] = Token("begin", n, "") /\ all[last] = Token("end", n, "")
    /\ \A k \in before + 2 .. last - 1 : \E i \in DOMAIN prints : all[k] = Token("content", n, prints[i])
    /\ \A i \in DOMAIN prints : \E k \in before + 2 .. last - 1 : all[k] = Token("content", n, prints[i])

LEMMA PackageAdds ==
    ASSUME NEW kind \in ScriptKinds, NEW n \in Packages, NEW lines \in Seq(LogTokens),
           NEW before \in Nat, before = Len(lines)
    PROVE  \E last \in Nat : Adds(lines \o RunPackage(n, kind), lines, Prints[kind], n, before, last)
<1> DEFINE prints == Prints[kind]
           block == RunPackage(n, kind)
           all == lines \o block
<1>1. PICK size \in Nat : size = Len(prints) /\ DOMAIN prints = 1 .. size
  BY PrintsOf
<1>2. /\ block \in Seq(LogTokens) /\ Len(block) = size + 2
      /\ block[1] = Token("begin", n, "") /\ block[size + 2] = Token("end", n, "")
      /\ \A i \in 1 .. size : block[i + 1] = Token("content", n, prints[i])
  BY <1>1, PackageLog
<1> HIDE DEF block, prints
<1>3. PICK length \in Nat : length = size + 2
  OBVIOUS
<1>4. /\ all \in Seq(LogTokens) /\ Len(all) = before + length
      /\ DOMAIN all = 1 .. before + length
      /\ DOMAIN lines = 1 .. before
      /\ \A k \in 1 .. before : all[k] = lines[k]
      /\ \A k \in 1 .. length : all[before + k] = block[k]
  <2>1. block \in Seq(LogTokens) /\ Len(block) = length
    BY <1>2, <1>3
  <2>2. IsJoin(all, lines, block, before, length)
    BY <2>1, Joining
  <2> QED
    BY <2>2 DEF IsJoin
<1> HIDE DEF all
<1>5. PICK last \in Nat : last = before + length
  OBVIOUS
<1>6. all[before + 1] = Token("begin", n, "") /\ all[last] = Token("end", n, "")
  <2>1. 1 \in 1 .. length /\ length \in 1 .. length
    BY <1>3
  <2> QED
    BY <1>2, <1>3, <1>4, <1>5, <2>1
<1>7. ASSUME NEW i \in 1 .. size
      PROVE  /\ before + (i + 1) \in before + 2 .. last - 1
             /\ all[before + (i + 1)] = Token("content", n, prints[i])
  <2>1. i + 1 \in 1 .. length /\ before + (i + 1) \in before + 2 .. last - 1
    BY <1>3, <1>5
  <2> QED
    BY <1>2, <1>4, <2>1
<1>8. ASSUME NEW k \in before + 2 .. last - 1
      PROVE  \E i \in 1 .. size : all[k] = Token("content", n, prints[i])
  <2>1. (k - before) - 1 \in 1 .. size /\ before + (((k - before) - 1) + 1) = k
    BY <1>3, <1>5
  <2> QED
    BY <1>7, <2>1
<1>9. before + 2 <= last
  BY <1>3, <1>5
<1>10. Adds(all, lines, prints, n, before, last)
  <2>1. all \in Seq(LogTokens) /\ DOMAIN all = 1 .. last /\ Len(all) = last
    BY <1>4, <1>5
  <2>2. /\ DOMAIN lines = 1 .. before
        /\ \A k \in 1 .. before : all[k] = lines[k]
    BY <1>4
  <2>3. DOMAIN prints = 1 .. size
    BY <1>1
  <2>4. \A i \in 1 .. size : \E k \in before + 2 .. last - 1 : all[k] = Token("content", n, prints[i])
    BY <1>7
  <2> QED
    BY <2>1, <2>2, <2>3, <2>4, <1>6, <1>8, <1>9 DEF Adds
<1> QED
  BY <1>10 DEF all, block, prints

LEMMA NextPackage ==
    ASSUME NEW truth \in [Packages -> ScriptKinds], NEW n \in Packages, NEW lines, NEW all,
           LogUpTo(lines, truth, n - 1), NEW before \in Nat, NEW last \in Nat,
           Adds(all, lines, Prints[truth[n]], n, before, last)
    PROVE  LogUpTo(all, truth, n)
<1> DEFINE prints == Prints[truth[n]]
<1>1. n \in Nat /\ n # 0 /\ n >= 1
  BY LogAssumption DEF Packages
<1>2. Tells(lines, truth) /\ InTurn(lines) /\ RunsOut(lines)
  BY DEF LogUpTo, WindowOf
<1>3. /\ all \in Seq(LogTokens) /\ DOMAIN all = 1 .. last /\ Len(all) = last
      /\ DOMAIN lines = 1 .. before /\ before + 2 <= last
  BY DEF Adds
<1>4. Len(lines) = before
  BY <1>3 DEF LogUpTo, WindowOf
<1>5. /\ \A k \in 1 .. before : all[k] = lines[k]
      /\ all[before + 1] = Token("begin", n, "") /\ all[last] = Token("end", n, "")
      /\ \A k \in before + 2 .. last - 1 : \E i \in DOMAIN prints : all[k] = Token("content", n, prints[i])
      /\ \A i \in DOMAIN prints : \E k \in before + 2 .. last - 1 : all[k] = Token("content", n, prints[i])
  BY DEF Adds
<1> HIDE DEF prints
<1>6. /\ before + 1 \in 1 .. last /\ last \in 1 .. last /\ before + 1 # last
      /\ \A k \in 1 .. before : k \in 1 .. last
      /\ \A k \in 1 .. last : k \in 1 .. before \/ k = before + 1 \/ k = last \/ k \in before + 2 .. last - 1
  BY <1>3
<1>7. /\ all[before + 1].kind = "begin" /\ all[before + 1].slug = n /\ all[before + 1].says = ""
      /\ all[last].kind = "end" /\ all[last].slug = n /\ all[last].says = ""
      /\ BeginsAt(all, before + 1, n) /\ EndsAt(all, last, n)
  <2>1. all[before + 1] = Token("begin", n, "") /\ all[last] = Token("end", n, "")
    BY <1>5
  <2>2. all[before + 1].kind = "begin" /\ all[before + 1].slug = n /\ all[before + 1].says = ""
    <3>1. PICK token : token = all[before + 1]
      OBVIOUS
    <3>2. token = Token("begin", n, "")
      BY <2>1, <3>1
    <3>3. token.kind = "begin" /\ token.slug = n /\ token.says = ""
      BY <3>2 DEF Token
    <3> QED
      BY <3>1, <3>3
  <2>3. all[last].kind = "end" /\ all[last].slug = n /\ all[last].says = ""
    <3>1. PICK token : token = all[last]
      OBVIOUS
    <3>2. token = Token("end", n, "")
      BY <2>1, <3>1
    <3>3. token.kind = "end" /\ token.slug = n /\ token.says = ""
      BY <3>2 DEF Token
    <3> QED
      BY <3>1, <3>3
  <2> QED
    BY <2>2, <2>3 DEF BeginsAt, EndsAt
<1>8. ASSUME NEW k \in before + 2 .. last - 1
      PROVE  all[k].kind = "content" /\ all[k].slug = n /\ \E i \in DOMAIN prints : all[k].says = prints[i]
  <2>1. PICK i \in DOMAIN prints : all[k] = Token("content", n, prints[i])
    BY <1>5
  <2>2. all[k].kind = "content" /\ all[k].slug = n /\ all[k].says = prints[i]
    BY <2>1, TokenParts
  <2> QED
    BY <2>2
<1>9. ASSUME NEW k \in 1 .. before
      PROVE  all[k] = lines[k] /\ all[k].slug \in Nat /\ all[k].slug # 0 /\ all[k].slug < n
  <2>1. lines[k].slug \in 1 .. n - 1
    BY <1>3 DEF LogUpTo
  <2>2. all[k] = lines[k]
    BY <1>5
  <2> HIDE DEF LogUpTo
  <2> QED
    BY <1>1, <2>1, <2>2
<1>10. \A k \in 1 .. last : k \notin 1 .. before => all[k].slug = n
  BY <1>6, <1>7, <1>8
<1>11. Tells(all, truth)
  <2> SUFFICES ASSUME NEW k \in 1 .. last
               PROVE  /\ all[k].slug # 0
                      /\ all[k].kind \in {"begin", "content", "end"}
                      /\ all[k].kind # "content" => all[k].says = ""
                      /\ all[k].kind = "content" =>
                           \E i \in DOMAIN Prints[truth[all[k].slug]] :
                             all[k].says = Prints[truth[all[k].slug]][i]
    BY <1>3 DEF Tells
  <2>1. CASE k \in 1 .. before
    BY <1>2, <1>3, <1>9, <2>1 DEF Tells
  <2>2. CASE k = before + 1
    BY <1>1, <1>7, <2>2
  <2>3. CASE k = last
    BY <1>1, <1>7, <2>3
  <2>4. CASE k \in before + 2 .. last - 1
    BY <1>1, <1>8, <2>4 DEF prints
  <2> QED
    BY <1>6, <2>1, <2>2, <2>3, <2>4
<1>12. InTurn(all)
  <2> SUFFICES ASSUME NEW i \in 1 .. last, NEW j \in 1 .. last, i < j, all[j].slug # 0
               PROVE  /\ all[i].slug # 0 /\ all[i].slug <= all[j].slug
                      /\ all[i].slug = all[j].slug => all[i].kind # "end" /\ all[j].kind # "begin"
                      /\ all[i].slug # all[j].slug =>
                           \E b \in i + 1 .. j : BeginsAt(all, b, all[j].slug)
    BY <1>3 DEF InTurn
  <2>1. CASE j \in 1 .. before
    <3>1. i \in 1 .. before /\ \A b \in i + 1 .. j : b \in 1 .. before
      BY <2>1
    <3>2. /\ lines[i].slug # 0 /\ lines[i].slug <= lines[j].slug
          /\ lines[i].slug = lines[j].slug => lines[i].kind # "end" /\ lines[j].kind # "begin"
          /\ lines[i].slug # lines[j].slug =>
               \E b \in i + 1 .. j : BeginsAt(lines, b, lines[j].slug)
      BY <1>2, <1>3, <1>9, <2>1, <3>1 DEF InTurn
    <3> QED
      BY <1>9, <2>1, <3>1, <3>2 DEF BeginsAt
  <2>2. CASE j \notin 1 .. before /\ i \in 1 .. before
    <3>1. before + 1 \in i + 1 .. j
      BY <2>2
    <3>2. all[j].slug = n
      BY <1>10, <2>2
    <3>3. all[i].slug \in Nat /\ all[i].slug # 0 /\ all[i].slug < n
      BY <1>9, <2>2
    <3>4. \E b \in i + 1 .. j : BeginsAt(all, b, n)
      BY <1>7, <3>1
    <3> QED
      BY <1>1, <3>2, <3>3, <3>4
  <2>3. CASE j \notin 1 .. before /\ i \notin 1 .. before
    <3>1. i # last /\ j # before + 1
      BY <2>3
    <3>2. all[i].kind # "end" /\ all[j].kind # "begin"
      BY <1>6, <1>7, <1>8, <2>3, <3>1
    <3>3. all[i].slug = n /\ all[j].slug = n
      BY <1>10, <2>3
    <3> QED
      BY <1>1, <3>2, <3>3
  <2> QED
    BY <2>1, <2>2, <2>3
<1>13. RunsOut(all)
  <2> SUFFICES ASSUME NEW k \in 1 .. last, all[k].kind # "end"
               PROVE  \E e \in k + 1 .. last : EndsAt(all, e, all[k].slug)
    BY <1>3 DEF RunsOut
  <2>1. CASE k \in 1 .. before
    <3>1. PICK e \in k + 1 .. before : EndsAt(lines, e, lines[k].slug)
      BY <1>2, <1>3, <1>4, <1>9, <2>1 DEF RunsOut
    <3>2. e \in 1 .. before /\ e \in k + 1 .. last
      BY <1>6, <2>1
    <3> QED
      BY <1>9, <2>1, <3>1, <3>2 DEF EndsAt
  <2>2. CASE k \notin 1 .. before
    <3>1. k # last
      BY <1>7
    <3>2. last \in k + 1 .. last
      BY <3>1
    <3> QED
      BY <1>7, <1>10, <2>2, <3>2
  <2> QED
    BY <2>1, <2>2
<1>14. \A k \in 1 .. last : all[k].slug \in 1 .. n
  <2> SUFFICES ASSUME NEW k \in 1 .. last PROVE all[k].slug \in 1 .. n
    OBVIOUS
  <2>1. CASE k \in 1 .. before
    BY <1>1, <1>9, <2>1
  <2>2. CASE k \notin 1 .. before
    BY <1>1, <1>10, <2>2
  <2> QED
    BY <2>1, <2>2
<1>15. Complete(all, truth, n)
  <2> SUFFICES ASSUME NEW slug \in 1 .. n
               PROVE  /\ \E k \in 1 .. last : EndsAt(all, k, slug)
                      /\ \A i \in DOMAIN Prints[truth[slug]] :
                           Written(all, slug, Prints[truth[slug]][i])
    BY <1>3 DEF Complete
  <2>1. CASE slug = n
    <3>1. ASSUME NEW i \in DOMAIN prints PROVE Written(all, n, prints[i])
      <4>1. PICK k \in before + 2 .. last - 1 : all[k] = Token("content", n, prints[i])
        BY <1>5
      <4>2. k \in 1 .. last
        OBVIOUS
      <4> QED
        BY <1>3, <4>1, <4>2 DEF Written, Token
    <3> QED
      BY <1>6, <1>7, <2>1, <3>1 DEF prints
  <2>2. CASE slug # n
    <3>1. slug \in 1 .. n - 1
      BY <1>1, <2>2
    <3>2. /\ \E k \in 1 .. before : EndsAt(lines, k, slug)
          /\ \A i \in DOMAIN Prints[truth[slug]] : Written(lines, slug, Prints[truth[slug]][i])
      BY <1>3, <3>1 DEF LogUpTo, Complete
    <3>3. \E k \in 1 .. last : EndsAt(all, k, slug)
      BY <1>6, <1>9, <3>2 DEF EndsAt
    <3>4. ASSUME NEW what, Written(lines, slug, what) PROVE Written(all, slug, what)
      BY <1>3, <1>6, <1>9, <3>4 DEF Written
    <3> QED
      BY <3>2, <3>3, <3>4
  <2> QED
    BY <2>1, <2>2
<1> QED
  BY <1>3, <1>11, <1>12, <1>13, <1>14, <1>15 DEF LogUpTo, WindowOf

\* There are logs, and so the one that is chosen is one.
IsLog(log, truth, n) ==
    log = [k \in 0 .. n |-> IF k = 0 THEN <<>> ELSE log[k - 1] \o RunPackage(k, truth[k])]

LEMMA LogExists ==
    ASSUME NEW truth, NEW n \in Nat
    PROVE  \E log : IsLog(log, truth, n)
<1> DEFINE Lacks == {m \in Nat : ~ \E log : IsLog(log, truth, m)}
<1> SUFFICES ASSUME Lacks # {} PROVE FALSE
  OBVIOUS
<1>1. PICK m \in Lacks : \A k \in Lacks : m <= k
  BY LeastNumber, Lacks \in SUBSET Nat
<1>2. m # 0
  <2>1. IsLog([k \in 0 .. 0 |-> <<>>], truth, 0)
    BY DEF IsLog
  <2> QED
    BY <1>1, <2>1
<1>3. PICK log : IsLog(log, truth, m - 1)
  BY <1>1, <1>2
<1> DEFINE next == log[m - 1] \o RunPackage(m, truth[m])
<1> HIDE DEF next
<1> DEFINE more == [k \in 0 .. m |-> IF k = m THEN next ELSE log[k]]
<1>4. \A k \in 0 .. m - 1 : more[k] = log[k]
  BY <1>1
<1>5. more[m] = log[m - 1] \o RunPackage(m, truth[m])
  <2>1. more[m] = next
    BY <1>1
  <2> QED
    BY <2>1, Zenon DEF next
<1>6. \A k \in 0 .. m : more[k] = IF k = 0 THEN <<>> ELSE more[k - 1] \o RunPackage(k, truth[k])
  <2> TAKE k \in 0 .. m
  <2>1. CASE k = 0
    BY <1>2, <1>3, <1>4, <2>1 DEF IsLog
  <2>2. CASE k = m
    BY <1>1, <1>2, <1>4, <1>5, <2>2
  <2>3. CASE k # 0 /\ k # m
    <3>1. k \in 0 .. m - 1 /\ k - 1 \in 0 .. m - 1
      BY <1>1, <2>3
    <3>2. log[k] = log[k - 1] \o RunPackage(k, truth[k])
      BY <1>3, <2>3, <3>1 DEF IsLog
    <3> QED
      BY <1>4, <2>3, <3>1, <3>2
  <2> QED
    BY <2>1, <2>2, <2>3
<1>7. more = [k \in 0 .. m |-> IF k = 0 THEN <<>> ELSE more[k - 1] \o RunPackage(k, truth[k])]
  BY <1>6
<1> QED
  BY <1>1, <1>7 DEF IsLog

LEMMA LogGrows ==
    ASSUME NEW truth \in [Packages -> ScriptKinds], NEW log, IsLog(log, truth, Slugs),
           NEW n \in 0 .. Slugs
    PROVE  LogUpTo(log[n], truth, n)
<1> DEFINE Bad == {k \in 0 .. Slugs : ~LogUpTo(log[k], truth, k)}
<1> SUFFICES ASSUME Bad # {} PROVE FALSE
  OBVIOUS
<1>1. PICK k \in Bad : \A m \in Bad : k <= m
  BY LeastNumber, Bad \in SUBSET Nat
<1>2. LogUpTo(log[0], truth, 0)
  <2>1. log[0] = <<>>
    BY LogAssumption DEF IsLog
  <2>2. WindowOf(<<>>, truth)
    BY DEF WindowOf, Tells, InTurn, RunsOut
  <2>3. Complete(<<>>, truth, 0)
    BY DEF Complete
  <2> QED
    BY <2>1, <2>2, <2>3 DEF LogUpTo
<1>3. k # 0 /\ k - 1 \in 0 .. Slugs /\ k \in Packages /\ k - 1 \notin Bad
  BY <1>1, <1>2, LogAssumption DEF Packages
<1>4. LogUpTo(log[k - 1], truth, k - 1)
  BY <1>3
<1>5. log[k] = log[k - 1] \o RunPackage(k, truth[k])
  BY <1>3 DEF IsLog
<1>6. log[k - 1] \in Seq(LogTokens) /\ truth[k] \in ScriptKinds
  BY <1>3, <1>4 DEF LogUpTo, WindowOf
<1>7. PICK before \in Nat : before = Len(log[k - 1])
  BY <1>6
<1>8. PICK last \in Nat : Adds(log[k], log[k - 1], Prints[truth[k]], k, before, last)
  BY <1>3, <1>5, <1>6, <1>7, PackageAdds
<1>9. LogUpTo(log[k], truth, k)
  BY <1>3, <1>4, <1>8, NextPackage
<1> QED
  BY <1>1, <1>9

\* What an aggregated run prints: its packages in turn, and the summary.
LEMMA WholeLog ==
    ASSUME NEW truth \in [Packages -> ScriptKinds]
    PROVE  LET log == RunLog(truth)
           IN /\ WindowOf(log, truth) /\ Complete(log, truth, Slugs)
              /\ PrintedSummary(log)
<1> DEFINE grown == CHOOSE f : IsLog(f, truth, Slugs)
           all == RunLog(truth)
           first == Token("summary", 0, "")
           second == Token("json", 0, "")
<1>1. IsLog(grown, truth, Slugs)
  BY LogExists, LogAssumption
<1>2. RunLog(truth) = grown[Slugs] \o <<first, second>>
  BY DEF RunLog, IsLog
<1> HIDE DEF grown
<1>3. LogUpTo(grown[Slugs], truth, Slugs)
  BY <1>1, LogGrows, LogAssumption
<1>4. PICK lines : lines = grown[Slugs]
  OBVIOUS
<1>5. /\ lines \in Seq(LogTokens) /\ Tells(lines, truth) /\ InTurn(lines) /\ RunsOut(lines)
      /\ Complete(lines, truth, Slugs)
      /\ \A k \in DOMAIN lines : lines[k].slug \in 1 .. Slugs
  BY <1>3, <1>4 DEF LogUpTo, WindowOf
<1>6. PICK n \in Nat : n = Len(lines)
  BY <1>5
<1>7. /\ first.kind = "summary" /\ first.slug = 0 /\ first.says = "" /\ first \in LogTokens
      /\ second.kind = "json" /\ second.slug = 0 /\ second.says = "" /\ second \in LogTokens
  <2>1. 0 \in 0 .. Slugs /\ "" \in Texts
    BY LogAssumption DEF Texts
  <2> QED
    BY <2>1 DEF Token, LogTokens
<1> HIDE DEF first, second
<1>8. /\ <<first, second>> \in Seq(LogTokens) /\ Len(<<first, second>>) = 2
      /\ <<first, second>>[1] = first /\ <<first, second>>[2] = second
  <2>1. first \in LogTokens /\ second \in LogTokens
    BY <1>7
  <2> QED
    BY <2>1
<1>9. /\ all \in Seq(LogTokens) /\ Len(all) = n + 2 /\ DOMAIN all = 1 .. n + 2
      /\ DOMAIN lines = 1 .. n
      /\ \A k \in 1 .. n : all[k] = lines[k]
      /\ all[n + 1] = first /\ all[n + 2] = second
  <2>1. PICK tail : tail = <<first, second>>
    OBVIOUS
  <2>2. PICK two \in Nat : two = 2
    OBVIOUS
  <2>3. tail \in Seq(LogTokens) /\ Len(tail) = two /\ tail[1] = first /\ tail[2] = second
    BY <1>8, <2>1, <2>2
  <2>4. IsJoin(lines \o tail, lines, tail, n, two)
    BY <1>5, <1>6, <2>3, Joining
  <2>5. all = lines \o tail
    BY <1>2, <1>4, <2>1
  <2>6. 1 \in 1 .. two /\ 2 \in 1 .. two
    BY <2>2
  <2> HIDE DEF all
  <2> QED
    BY <2>2, <2>3, <2>4, <2>5, <2>6 DEF IsJoin
<1> HIDE DEF all
<1>10. \A k \in 1 .. n + 2 : k \in 1 .. n \/ k = n + 1 \/ k = n + 2
  OBVIOUS
<1>11. \A k \in 1 .. n : /\ all[k].slug # 0 /\ all[k].slug \in Nat
                         /\ all[k].kind \in {"begin", "content", "end"}
  <2> SUFFICES ASSUME NEW k \in 1 .. n
               PROVE  /\ lines[k].slug # 0 /\ lines[k].slug \in Nat
                      /\ lines[k].kind \in {"begin", "content", "end"}
    BY <1>9
  <2>1. lines[k].slug \in 1 .. Slugs
    BY <1>5, <1>9
  <2>2. lines[k].slug # 0 /\ lines[k].slug \in Nat
    BY <2>1, LogAssumption
  <2> QED
    BY <1>5, <1>9, <2>2 DEF Tells
<1>12. Tells(all, truth)
  <2> SUFFICES ASSUME NEW k \in 1 .. n + 2
               PROVE  IF all[k].slug = 0
                      THEN all[k].kind \in {"summary", "json"} /\ all[k].says = ""
                      ELSE /\ all[k].kind \in {"begin", "content", "end"}
                           /\ all[k].kind # "content" => all[k].says = ""
                           /\ all[k].kind = "content" =>
                                \E i \in DOMAIN Prints[truth[all[k].slug]] :
                                  all[k].says = Prints[truth[all[k].slug]][i]
    BY <1>9 DEF Tells
  <2>1. CASE k \in 1 .. n
    BY <1>5, <1>9, <2>1 DEF Tells
  <2>2. CASE k = n + 1 \/ k = n + 2
    BY <1>7, <1>9, <2>2
  <2> QED
    BY <1>10, <2>1, <2>2
<1>13. InTurn(all)
  <2> SUFFICES ASSUME NEW i \in 1 .. n + 2, NEW j \in 1 .. n + 2, i < j, all[j].slug # 0
               PROVE  /\ all[i].slug # 0 /\ all[i].slug <= all[j].slug
                      /\ all[i].slug = all[j].slug => all[i].kind # "end" /\ all[j].kind # "begin"
                      /\ all[i].slug # all[j].slug =>
                           \E b \in i + 1 .. j : BeginsAt(all, b, all[j].slug)
    BY <1>9 DEF InTurn
  <2>1. j \in 1 .. n
    BY <1>7, <1>9, <1>10
  <2>2. i \in 1 .. n /\ \A b \in i + 1 .. j : b \in 1 .. n
    BY <2>1
  <2>3. /\ lines[i].slug # 0 /\ lines[i].slug <= lines[j].slug
        /\ lines[i].slug = lines[j].slug => lines[i].kind # "end" /\ lines[j].kind # "begin"
        /\ lines[i].slug # lines[j].slug =>
             \E b \in i + 1 .. j : BeginsAt(lines, b, lines[j].slug)
    BY <1>5, <1>9, <2>1, <2>2 DEF InTurn
  <2> QED
    BY <1>9, <2>1, <2>2, <2>3 DEF BeginsAt
<1>14. RunsOut(all)
  <2> SUFFICES ASSUME NEW k \in 1 .. n + 2, all[k].slug # 0, all[k].kind # "end"
               PROVE  \E e \in k + 1 .. n + 2 : EndsAt(all, e, all[k].slug)
    BY <1>9 DEF RunsOut
  <2>1. k \in 1 .. n
    BY <1>7, <1>9, <1>10
  <2>2. PICK e \in k + 1 .. n : EndsAt(lines, e, lines[k].slug)
    BY <1>5, <1>6, <1>9, <2>1 DEF RunsOut
  <2>3. e \in 1 .. n /\ e \in k + 1 .. n + 2
    BY <2>1
  <2> QED
    BY <1>9, <2>1, <2>2, <2>3 DEF EndsAt
<1>15. Complete(all, truth, Slugs)
  <2>1. \A k \in 1 .. n : k \in 1 .. n + 2
    OBVIOUS
  <2>2. ASSUME NEW slug, \E k \in 1 .. n : EndsAt(lines, k, slug)
        PROVE  \E k \in 1 .. n + 2 : EndsAt(all, k, slug)
    BY <1>9, <2>1, <2>2 DEF EndsAt
  <2>3. ASSUME NEW slug, NEW what, Written(lines, slug, what)
        PROVE  Written(all, slug, what)
    BY <1>9, <2>1, <2>3 DEF Written
  <2> QED
    BY <1>5, <1>9, <2>2, <2>3 DEF Complete
<1>16. PrintedSummary(all)
  <2>1. n + 1 < n + 2 /\ n + 1 \in 1 .. n + 2 /\ n + 2 \in 1 .. n + 2
    OBVIOUS
  <2>2. all[n + 1].kind = "summary" /\ all[n + 2].kind = "json"
    BY <1>7, <1>9
  <2>3. \A k \in 1 .. (n + 1) - 1 : all[k].kind # "summary"
    BY <1>11
  <2> QED
    BY <1>9, <2>1, <2>2, <2>3 DEF PrintedSummary
<1> QED
  BY <1>9, <1>12, <1>13, <1>14, <1>15, <1>16 DEF WindowOf, all

\* The tail of such a log is one too.
LEMMA TailOfLog ==
    ASSUME NEW truth, NEW log, WindowOf(log, truth), NEW from \in 0 .. Len(log)
    PROVE  WindowOf(SubSeq(log, from + 1, Len(log)), truth)
<1> DEFINE tail == SubSeq(log, from + 1, Len(log))
<1>1. log \in Seq(LogTokens) /\ Tells(log, truth) /\ InTurn(log) /\ RunsOut(log)
  BY DEF WindowOf
<1>2. PICK n \in Nat : n = Len(log) /\ DOMAIN log = 1 .. n
  BY <1>1
<1>3. PICK m \in Nat : m = n - from /\ n = m + from /\ from \in Nat
  <2>1. from \in 0 .. n
    BY <1>2
  <2>2. n - from \in Nat /\ n = (n - from) + from /\ from \in Nat
    BY <2>1
  <2> QED
    BY <2>2
<1>4. /\ tail \in Seq(LogTokens) /\ Len(tail) = m /\ DOMAIN tail = 1 .. m
      /\ \A k \in 1 .. m : tail[k] = log[k + from]
  BY <1>1, <1>2, <1>3
<1> HIDE DEF tail
<1>5. \A k \in 1 .. m : k + from \in 1 .. n
  BY <1>3
<1>6. Tells(tail, truth)
  <2> SUFFICES ASSUME NEW k \in 1 .. m
               PROVE  IF tail[k].slug = 0
                      THEN tail[k].kind \in {"summary", "json"} /\ tail[k].says = ""
                      ELSE /\ tail[k].kind \in {"begin", "content", "end"}
                           /\ tail[k].kind # "content" => tail[k].says = ""
                           /\ tail[k].kind = "content" =>
                                \E i \in DOMAIN Prints[truth[tail[k].slug]] :
                                  tail[k].says = Prints[truth[tail[k].slug]][i]
    BY <1>4 DEF Tells
  <2>1. k + from \in 1 .. n /\ tail[k] = log[k + from]
    BY <1>4, <1>5
  <2> QED
    BY <1>1, <1>2, <2>1 DEF Tells
<1>7. InTurn(tail)
  <2> SUFFICES ASSUME NEW i \in 1 .. m, NEW j \in 1 .. m, i < j, tail[j].slug # 0
               PROVE  /\ tail[i].slug # 0 /\ tail[i].slug <= tail[j].slug
                      /\ tail[i].slug = tail[j].slug => tail[i].kind # "end" /\ tail[j].kind # "begin"
                      /\ tail[i].slug # tail[j].slug =>
                           \E b \in i + 1 .. j : BeginsAt(tail, b, tail[j].slug)
    BY <1>4 DEF InTurn
  <2>1. i + from < j + from /\ i + from \in 1 .. n /\ j + from \in 1 .. n
    BY <1>3, <1>5
  <2>2. tail[i] = log[i + from] /\ tail[j] = log[j + from]
    BY <1>4
  <2>3. /\ tail[i].slug # 0 /\ tail[i].slug <= tail[j].slug
        /\ tail[i].slug = tail[j].slug => tail[i].kind # "end" /\ tail[j].kind # "begin"
        /\ tail[i].slug # tail[j].slug =>
             \E b \in (i + from) + 1 .. j + from : BeginsAt(log, b, tail[j].slug)
    BY <1>1, <1>2, <2>1, <2>2 DEF InTurn
  <2>4. ASSUME NEW b \in (i + from) + 1 .. j + from, BeginsAt(log, b, tail[j].slug)
        PROVE  \E c \in i + 1 .. j : BeginsAt(tail, c, tail[j].slug)
    <3>1. b - from \in i + 1 .. j /\ b - from \in 1 .. m /\ (b - from) + from = b
      BY <1>3
    <3> QED
      BY <1>4, <2>4, <3>1 DEF BeginsAt
  <2> QED
    BY <2>3, <2>4
<1>8. RunsOut(tail)
  <2> SUFFICES ASSUME NEW k \in 1 .. m, tail[k].slug # 0, tail[k].kind # "end"
               PROVE  \E e \in k + 1 .. m : EndsAt(tail, e, tail[k].slug)
    BY <1>4 DEF RunsOut
  <2>1. k + from \in 1 .. n /\ tail[k] = log[k + from]
    BY <1>4, <1>5
  <2>2. PICK e \in (k + from) + 1 .. n : EndsAt(log, e, tail[k].slug)
    BY <1>1, <1>2, <2>1 DEF RunsOut
  <2>3. e - from \in k + 1 .. m /\ e - from \in 1 .. m /\ (e - from) + from = e
    BY <1>3
  <2> QED
    BY <1>4, <2>2, <2>3 DEF EndsAt
<1> QED
  BY <1>4, <1>6, <1>7, <1>8 DEF WindowOf, tail

(***************************************************************************)
(* Verdicts of a run                                                       *)
(* Of the whole log of a run or of its tail, whatever its packages do.     *)
(***************************************************************************)

LEMMA KindsOfScripts ==
    /\ ReturnedCounts["passes"] = "clean" /\ ReturnedCounts["fails"] = "failed"
    /\ ReturnedCounts["interrupted"] = "clean"
    /\ ReturnedCounts["trips"] = "clean" /\ ReturnedCounts["throws"] = "none"
    /\ ReturnedCounts["smoke"] = "clean" /\ ReturnedCounts["mutePasses"] = "none"
    /\ ReturnedCounts["muteFails"] = "none" /\ ReturnedCounts["muteDies"] = "none"
BY DEF ReturnedCounts

\* What decides the verdict of a package once a summary came back.
Decides(lines, truth, slug) ==
    LET sections == FoldTokensIntoSections(TokenizeBatchLog(lines)).sections
        counted == ReturnedCounts[truth[slug]] # "none"
    IN /\ truth[slug] \notin {"throws", "fails", "interrupted"}
       /\ truth[slug] = "smoke" => slug \notin WithSpecs
       /\ IF sections[slug].known THEN OutcomePasses(sections[slug].lines, ~counted)
          ELSE /\ counted
               /\ OutcomePasses(IF UnattributedTo(sections, slug) THEN lines ELSE <<>>, FALSE)

LEMMA VerdictDecided ==
    ASSUME NEW lines, NEW returned \in BOOLEAN, NEW truth \in [Packages -> ScriptKinds],
           NEW slug \in Packages, returned \/ PrintedSummary(lines)
    PROVE  Passes(lines, returned, truth, slug) <=> Decides(lines, truth, slug)
<1> DEFINE sections == FoldTokensIntoSections(TokenizeBatchLog(lines)).sections
           entry == SummaryOf(lines, returned, truth)[slug]
           result == ParseBatchTestLogs(lines, returned, truth)[slug]
           kind == truth[slug]
           counts == ReturnedCounts[kind]
           logs == IF sections[slug].known THEN sections[slug].lines
                   ELSE IF UnattributedTo(sections, slug) THEN lines ELSE <<>>
<1>1. entry = SummaryEntry(kind)
  BY DEF SummaryOf
<1>2. /\ entry.success <=> kind # "throws" /\ ~SaysItFailed(kind)
      /\ entry.counts = counts /\ entry.ranJest = (kind # "smoke")
  <2>1. SummaryEntry(kind).success <=> kind # "throws" /\ ~SaysItFailed(kind)
    BY Zenon DEF SummaryEntry
  <2>2. SummaryEntry(kind).counts = counts /\ SummaryEntry(kind).ranJest = (kind # "smoke")
    BY DEF SummaryEntry
  <2> QED
    BY <1>1, <2>1, <2>2, Zenon
<1>3. /\ result.success <=>
           /\ entry.success
           /\ entry.counts # "failed"
           /\ IF sections[slug].known THEN OutcomePasses(sections[slug].lines, entry.counts = "none")
              ELSE entry.counts # "none"
      /\ result.counts = entry.counts /\ result.ranJest = entry.ranJest
      /\ result.failed = ~entry.success /\ result.logs = logs
  BY DEF ParseBatchTestLogs
<1>4. /\ kind \in ScriptKinds /\ (counts = "failed" <=> kind = "fails")
      /\ kind = "smoke" => counts # "none"
      /\ SaysItFailed(kind) <=> kind \in {"fails", "interrupted"}
  BY KindsOfScripts DEF ScriptKinds, SaysItFailed
<1> HIDE DEF entry, result, kind, counts, sections, logs
<1>5. Passes(lines, returned, truth, slug) <=>
        /\ result.success
        /\ OutcomePasses(logs, counts = "none")
        /\ kind = "smoke" => slug \notin WithSpecs
  BY <1>2, <1>3, <1>4 DEF Passes, Verdict, result
<1>6. result.success <=>
        /\ kind \notin {"throws", "fails", "interrupted"}
        /\ IF sections[slug].known THEN OutcomePasses(sections[slug].lines, counts = "none")
           ELSE counts # "none"
  BY <1>2, <1>3, <1>4
<1>7. CASE sections[slug].known
  <2>1. logs = sections[slug].lines
    BY <1>7 DEF logs
  <2>2. (counts = "none") = ~(counts # "none")
    OBVIOUS
  <2> QED
    BY <1>4, <1>5, <1>6, <1>7, <2>1, <2>2 DEF Decides, kind, counts, sections
<1>8. CASE ~sections[slug].known
  <2>1. logs = IF UnattributedTo(sections, slug) THEN lines ELSE <<>>
    BY <1>8 DEF logs
  <2>2. counts # "none" => (counts = "none") = FALSE
    OBVIOUS
  <2> QED
    BY <1>4, <1>5, <1>6, <1>8, <2>1, <2>2 DEF Decides, kind, counts, sections
<1> QED
  BY <1>7, <1>8

\* What the scripts print, and which of them are sound.
LEMMA PrintsAre ==
    ASSUME NEW kind \in ScriptKinds, NEW i \in DOMAIN Prints[kind]
    PROVE  /\ Prints[kind][i] \in Texts
           /\ Prints[kind][i] = "report" =>
                kind \in {"passes", "interrupted", "trips", "mutePasses"}
           /\ Prints[kind][i] = "failed" => kind \in {"fails", "muteFails"}
           /\ Prints[kind][i] = "trace" => kind = "trips"
           /\ Prints[kind][i] # ""
<1>1. /\ Prints["passes"] = <<"report">> /\ Prints["fails"] = <<"failed">>
      /\ Prints["interrupted"] = <<"report">>
      /\ Prints["trips"] = <<"report", "trace">> /\ Prints["throws"] = <<"text">>
      /\ Prints["smoke"] = <<"text">> /\ Prints["mutePasses"] = <<"report">>
      /\ Prints["muteFails"] = <<"failed">> /\ Prints["muteDies"] = <<"text">>
  BY DEF Prints
<1>2. ASSUME NEW text \in Texts, NEW prints, prints = <<text>>, NEW j \in DOMAIN prints
      PROVE  prints[j] = text
  BY <1>2
<1>3. kind = "trips" => Prints[kind][i] \in {"report", "trace"}
  BY <1>1
<1>4. kind # "trips" =>
        \/ kind \in {"passes", "interrupted", "mutePasses"} /\ Prints[kind][i] = "report"
        \/ kind \in {"fails", "muteFails"} /\ Prints[kind][i] = "failed"
        \/ kind \in {"throws", "smoke", "muteDies"} /\ Prints[kind][i] = "text"
  <2>1. CASE kind \in {"passes", "interrupted", "mutePasses"}
    <3>1. Prints[kind] = <<"report">>
      BY <1>1, <2>1
    <3> QED
      BY <1>2, <2>1, <3>1 DEF Texts
  <2>2. CASE kind \in {"fails", "muteFails"}
    <3>1. Prints[kind] = <<"failed">>
      BY <1>1, <2>2
    <3> QED
      BY <1>2, <2>2, <3>1 DEF Texts
  <2>3. CASE kind \in {"throws", "smoke", "muteDies"}
    <3>1. Prints[kind] = <<"text">>
      BY <1>1, <2>3
    <3> QED
      BY <1>2, <2>3, <3>1 DEF Texts
  <2> QED
    BY <2>1, <2>2, <2>3 DEF ScriptKinds
<1> QED
  BY <1>3, <1>4 DEF Texts

LEMMA PrintsAll ==
    /\ \A kind \in {"passes", "interrupted", "trips", "mutePasses"} :
         1 \in DOMAIN Prints[kind] /\ Prints[kind][1] = "report"
    /\ 1 \in DOMAIN Prints["muteFails"] /\ Prints["muteFails"][1] = "failed"
    /\ 2 \in DOMAIN Prints["trips"] /\ Prints["trips"][2] = "trace"
<1>1. /\ Prints["passes"] = <<"report">> /\ Prints["interrupted"] = <<"report">>
      /\ Prints["trips"] = <<"report", "trace">>
      /\ Prints["mutePasses"] = <<"report">> /\ Prints["muteFails"] = <<"failed">>
  BY DEF Prints
<1> QED
  BY <1>1

\* What is read in the section of a package, or else in the whole of a log.
LEMMA WindowRead ==
    ASSUME NEW truth \in [Packages -> ScriptKinds], NEW log, WindowOf(log, truth), NEW slug \in Packages
    PROVE  LET section == FoldTokensIntoSections(TokenizeBatchLog(log)).sections[slug]
           IN /\ section.known <=> \E e \in DOMAIN log : EndsAt(log, e, slug)
              /\ section.known => \A what : Says(section.lines, what) <=> Written(log, slug, what)
<1>1. log \in Seq(LogTokens)
  BY DEF WindowOf
<1>2. TokenizeBatchLog(log) \in Seq(LogTokens) /\ Len(TokenizeBatchLog(log)) = Len(log)
  BY <1>1, Tokenized
<1>3. SectionsRead(TokenizeBatchLog(log), FoldTokensIntoSections(TokenizeBatchLog(log)).sections, Len(log))
  BY <1>2, SectionsAreOwn
<1> QED
  BY <1>3, SectionsOfWindow

LEMMA WrittenIs ==
    ASSUME NEW truth \in [Packages -> ScriptKinds], NEW log, WindowOf(log, truth),
           NEW slug \in Packages, NEW what, Written(log, slug, what)
    PROVE  \E i \in DOMAIN Prints[truth[slug]] : what = Prints[truth[slug]][i]
<1>1. PICK k \in DOMAIN log : log[k].kind = "content" /\ log[k].slug = slug /\ log[k].says = what
  BY DEF Written
<1>2. slug # 0
  BY LogAssumption DEF Packages
<1>3. Tells(log, truth)
  BY DEF WindowOf
<1> QED
  BY <1>1, <1>2, <1>3 DEF Tells

\* A package without a section has left nothing.
LEMMA NothingLeft ==
    ASSUME NEW truth \in [Packages -> ScriptKinds], NEW log, WindowOf(log, truth),
           NEW slug, slug # 0, ~ \E e \in DOMAIN log : EndsAt(log, e, slug),
           NEW k \in DOMAIN log, log[k].slug = slug
    PROVE  FALSE
<1>1. RunsOut(log) /\ log \in Seq(LogTokens)
  BY DEF WindowOf
<1>2. DOMAIN log = 1 .. Len(log) /\ Len(log) \in Nat
  BY <1>1
<1>3. log[k].kind # "end"
  BY DEF EndsAt
<1>4. PICK e \in k + 1 .. Len(log) : EndsAt(log, e, slug)
  BY <1>1, <1>3 DEF RunsOut
<1>5. e \in DOMAIN log
  BY <1>2
<1> QED
  BY <1>4, <1>5

LEMMA SlugsArePositive == \A slug \in Packages : slug # 0
BY LogAssumption DEF Packages

LEMMA SurvivesIsWritten ==
    ASSUME NEW truth \in [Packages -> ScriptKinds], NEW log, WindowOf(log, truth),
           NEW slug \in Packages, NEW what, what # ""
    PROVE  Survives(log, slug, what) <=> Written(log, slug, what)
<1>1. slug # 0 /\ Tells(log, truth)
  <2>1. slug # 0
    BY SlugsArePositive
  <2>2. Tells(log, truth)
    BY DEF WindowOf
  <2> QED
    BY <2>1, <2>2
<1>2. ASSUME NEW k \in DOMAIN log, log[k].slug = slug, log[k].says = what
      PROVE  log[k].kind = "content"
  BY <1>1, <1>2 DEF Tells
<1> QED
  BY <1>2 DEF Survives, Written

\* Whatever part is left.
LEMMA NoWindowPassesFalsely ==
    ASSUME NEW truth \in [Packages -> ScriptKinds], NEW log, WindowOf(log, truth),
           NEW returned \in BOOLEAN, NEW slug \in Packages, Passes(log, returned, truth, slug)
    PROVE  \/ Sound(slug, truth[slug])
           \/ truth[slug] = "trips" /\ ~Survives(log, slug, "trace")
<1> DEFINE kind == truth[slug]
           section == FoldTokensIntoSections(TokenizeBatchLog(log)).sections[slug]
<1>1. returned \/ PrintedSummary(log)
  BY ResultsDecide DEF Passes
<1>2. Decides(log, truth, slug)
  BY <1>1, VerdictDecided
<1>3. /\ kind \in ScriptKinds \ {"throws", "fails", "interrupted"}
      /\ kind = "smoke" => slug \notin WithSpecs
      /\ section.known => OutcomePasses(section.lines, ReturnedCounts[kind] = "none")
      /\ ~section.known => ReturnedCounts[kind] # "none"
  BY <1>2 DEF Decides
<1>4. /\ section.known <=> \E e \in DOMAIN log : EndsAt(log, e, slug)
      /\ section.known => \A what : Says(section.lines, what) <=> Written(log, slug, what)
  BY WindowRead
<1>5. \A what : Written(log, slug, what) => \E i \in DOMAIN Prints[kind] : what = Prints[kind][i]
  BY WrittenIs
<1> HIDE DEF section
<1>6. CASE kind = "trips"
  <2>1. ASSUME Survives(log, slug, "trace") PROVE FALSE
    <3>1. Written(log, slug, "trace")
      BY <2>1, SurvivesIsWritten
    <3>2. PICK k \in DOMAIN log : log[k].slug = slug
      BY <3>1 DEF Written
    <3>3. slug # 0
      BY LogAssumption DEF Packages
    <3>4. section.known
      BY <1>4, <3>2, <3>3, NothingLeft
    <3> QED
      BY <1>3, <1>4, <3>1, <3>4 DEF OutcomePasses
  <2> QED
    BY <1>6, <2>1
<1>7. CASE kind \in {"muteFails", "muteDies"}
  <2>1. ReturnedCounts[kind] = "none"
    BY <1>7, KindsOfScripts
  <2>2. section.known /\ OutcomePasses(section.lines, TRUE)
    BY <1>3, <2>1
  <2>3. Written(log, slug, "report") \/ Written(log, slug, "failed")
    BY <1>4, <2>2 DEF OutcomePasses, HasTestReport
  <2>4. ~Written(log, slug, "failed")
    BY <1>4, <2>2 DEF OutcomePasses
  <2>5. PICK i \in DOMAIN Prints[kind] : "report" = Prints[kind][i]
    BY <1>5, <2>3, <2>4
  <2> QED
    BY <1>3, <1>7, <2>5, PrintsAre
<1> QED
  BY <1>3, <1>6, <1>7 DEF Sound, ScriptKinds

\* With counts that came back, a sound package passes whatever part is left.
LEMMA SoundWindowPasses ==
    ASSUME NEW truth \in [Packages -> ScriptKinds], NEW log, WindowOf(log, truth), NEW slug \in Packages,
           Sound(slug, truth[slug]), ReturnedCounts[truth[slug]] # "none"
    PROVE  Passes(log, TRUE, truth, slug)
<1> DEFINE kind == truth[slug]
           sections == FoldTokensIntoSections(TokenizeBatchLog(log)).sections
           section == sections[slug]
<1>1. kind \in {"passes", "smoke"} /\ (kind = "smoke" => slug \notin WithSpecs)
  BY KindsOfScripts DEF Sound
<1>2. \A p \in Packages :
        /\ sections[p].known <=> \E e \in DOMAIN log : EndsAt(log, e, p)
        /\ sections[p].known => \A what : Says(sections[p].lines, what) <=> Written(log, p, what)
  BY WindowRead
<1>3. \A what : Written(log, slug, what) => \E i \in DOMAIN Prints[kind] : what = Prints[kind][i]
  BY WrittenIs
<1> HIDE DEF sections
<1>4. ~Written(log, slug, "failed") /\ ~Written(log, slug, "trace")
  BY <1>1, <1>3, PrintsAre
<1>5. section.known => OutcomePasses(section.lines, FALSE)
  BY <1>2, <1>4 DEF OutcomePasses
<1>6. OutcomePasses(<<>>, FALSE)
  BY DEF OutcomePasses, Says
<1>7. UnattributedTo(sections, slug) => OutcomePasses(log, FALSE)
  <2>1. SUFFICES ASSUME \A p \in Packages : ~sections[p].known, NEW k \in DOMAIN log
                 PROVE  log[k].says = ""
    BY DEF UnattributedTo, OutcomePasses, Says
  <2>2. log[k] \in LogTokens /\ Tells(log, truth)
    BY DEF WindowOf
  <2>3. CASE log[k].slug = 0
    BY <2>2, <2>3 DEF Tells
  <2>4. CASE log[k].slug # 0
    <3>1. log[k].slug \in Packages
      BY <2>2, <2>4, TokenIs, LogAssumption DEF Packages
    <3>2. ~ \E e \in DOMAIN log : EndsAt(log, e, log[k].slug)
      BY <1>2, <2>1, <3>1
    <3> QED
      BY <2>4, <3>2, NothingLeft
  <2> QED
    BY <2>3, <2>4
<1>8. Decides(log, truth, slug)
  <2>1. kind \notin {"throws", "fails", "interrupted"}
    BY <1>1
  <2>2. OutcomePasses(IF UnattributedTo(sections, slug) THEN log ELSE <<>>, FALSE)
    BY <1>6, <1>7
  <2> QED
    BY <1>1, <1>5, <2>1, <2>2 DEF Decides, sections
<1> QED
  BY <1>8, VerdictDecided

\* Of a log that nothing is missing of, exactly the sound packages pass.
LEMMA WholeLogDecides ==
    ASSUME NEW truth \in [Packages -> ScriptKinds], NEW log, WindowOf(log, truth),
           Complete(log, truth, Slugs), PrintedSummary(log), NEW slug \in Packages
    PROVE  Passes(log, FALSE, truth, slug) <=> Sound(slug, truth[slug])
<1> DEFINE kind == truth[slug]
           section == FoldTokensIntoSections(TokenizeBatchLog(log)).sections[slug]
           says(what) == \E i \in DOMAIN Prints[kind] : what = Prints[kind][i]
<1>1. /\ section.known <=> \E e \in DOMAIN log : EndsAt(log, e, slug)
      /\ section.known => \A what : Says(section.lines, what) <=> Written(log, slug, what)
  BY WindowRead
<1>2. /\ \E e \in DOMAIN log : EndsAt(log, e, slug)
      /\ \A i \in DOMAIN Prints[kind] : Written(log, slug, Prints[kind][i])
  BY DEF Complete, Packages
<1>3. \A what : Written(log, slug, what) => says(what)
  BY WrittenIs
<1>4. section.known /\ \A what : Says(section.lines, what) <=> says(what)
  BY <1>1, <1>2, <1>3
<1>5. Passes(log, FALSE, truth, slug) <=> Decides(log, truth, slug)
  BY VerdictDecided
<1>6. Decides(log, truth, slug) <=>
        /\ kind \notin {"throws", "fails", "interrupted"}
        /\ kind = "smoke" => slug \notin WithSpecs
        /\ OutcomePasses(section.lines, ReturnedCounts[kind] = "none")
  <2>1. ~(ReturnedCounts[kind] # "none") = (ReturnedCounts[kind] = "none")
    OBVIOUS
  <2> QED
    BY <1>4, <2>1 DEF Decides
<1> HIDE DEF section, says
<1>7. OutcomePasses(section.lines, ReturnedCounts[kind] = "none") <=>
        /\ ~says("failed") /\ ~says("trace")
        /\ ReturnedCounts[kind] = "none" => says("report")
  BY <1>4 DEF OutcomePasses, HasTestReport
<1>8. /\ says("report") <=> kind \in {"passes", "interrupted", "trips", "mutePasses"}
      /\ says("failed") => kind \in {"fails", "muteFails"}
      /\ kind = "muteFails" => says("failed")
      /\ says("trace") <=> kind = "trips"
  <2>1. kind \in ScriptKinds
    OBVIOUS
  <2> QED
    BY <2>1, PrintsAre, PrintsAll DEF says
<1>9. kind \in ScriptKinds
  OBVIOUS
<1> HIDE DEF kind
<1>10. Sound(slug, kind) <=>
         /\ kind \notin {"throws", "fails", "interrupted"}
         /\ kind = "smoke" => slug \notin WithSpecs
         /\ ~says("failed") /\ ~says("trace")
         /\ ReturnedCounts[kind] = "none" => says("report")
  BY <1>8, <1>9, KindsOfScripts DEF Sound, ScriptKinds
<1> QED
  BY <1>5, <1>6, <1>7, <1>10 DEF kind

\* The run of one package alone.
LEMMA AloneDecides ==
    ASSUME NEW kind \in ScriptKinds, NEW from \in 0 .. 2, NEW returned \in BOOLEAN,
           NEW specs \in BOOLEAN, SingleVerdict(kind, from, returned, specs)
    PROVE  \/ kind \in {"passes", "mutePasses", "trips"}
           \/ kind = "interrupted" /\ ~returned
           \/ kind = "smoke" /\ returned /\ ~specs
<1> DEFINE counts == IF returned THEN ReturnedCounts[kind] ELSE "none"
           logs == [i \in 1 .. Len(Prints[kind]) - from |-> Token("content", 1, Prints[kind][i + from])]
           result == [success |-> kind # "throws", counts |-> counts,
                      failed |-> SaysItFailed(kind), ranJest |-> kind # "smoke", logs |-> logs]
<1>1. Verdict(result, specs)
  BY DEF SingleVerdict
<1>2. result.success = (kind # "throws") /\ result.counts = counts
      /\ result.ranJest = (kind # "smoke") /\ result.logs = logs
      /\ result.failed = SaysItFailed(kind)
  OBVIOUS
<1> HIDE DEF result
<1>3. /\ kind # "throws" /\ (counts # "none" => ~SaysItFailed(kind))
      /\ OutcomePasses(logs, counts = "none")
      /\ ~(counts # "none" /\ kind = "smoke" /\ specs)
  BY <1>1, <1>2 DEF Verdict
<1>4. ASSUME NEW what, Says(logs, what)
      PROVE  \E i \in DOMAIN Prints[kind] : what = Prints[kind][i]
  <2>1. PICK i \in 1 .. Len(Prints[kind]) - from : Token("content", 1, Prints[kind][i + from]).says = what
    BY <1>4 DEF Says
  <2>2. Len(Prints[kind]) \in Nat /\ DOMAIN Prints[kind] = 1 .. Len(Prints[kind])
    BY PrintsOf
  <2>3. i + from \in DOMAIN Prints[kind]
    BY <2>2
  <2> QED
    BY <2>1, <2>3 DEF Token
<1> HIDE DEF logs
<1>5. CASE counts = "none"
  <2>1. Says(logs, "report") /\ ~Says(logs, "failed")
    BY <1>3, <1>5 DEF OutcomePasses, HasTestReport
  <2>2. PICK i \in DOMAIN Prints[kind] : "report" = Prints[kind][i]
    BY <1>4, <2>1
  <2>3. kind \in {"passes", "interrupted", "trips", "mutePasses"}
    BY <2>2, PrintsAre
  <2>4. kind = "interrupted" => ~returned
    BY <1>5, KindsOfScripts
  <2> QED
    BY <2>3, <2>4
<1>6. CASE counts # "none"
  <2>1. returned /\ ReturnedCounts[kind] # "none" /\ ~SaysItFailed(kind)
    BY <1>3, <1>6
  <2>2. kind \in {"passes", "trips", "smoke"}
    BY <2>1, KindsOfScripts DEF ScriptKinds, SaysItFailed
  <2> QED
    BY <1>3, <1>6, <2>1, <2>2
<1> QED
  BY <1>5, <1>6

\* For any packages, any run of them and any part of its log.
LEMMA VerdictsAreRight == WindowTells
<1>1. ASSUME NEW truth \in Truths
      PROVE  /\ truth \in [Packages -> ScriptKinds]
             /\ WindowOf(RunLog(truth), truth) /\ Complete(RunLog(truth), truth, Slugs)
             /\ PrintedSummary(RunLog(truth))
  BY <1>1, WholeLog DEF Truths
<1>2. ASSUME NEW truth \in Truths, NEW from \in 0 .. Len(RunLog(truth))
      PROVE  WindowOf(Window(RunLog(truth), from), truth)
  BY <1>1, TailOfLog DEF Window
<1>3. ASSUME NEW truth \in Truths
      PROVE  Window(RunLog(truth), 0) = RunLog(truth)
  <2>1. PICK log \in Seq(LogTokens) : log = RunLog(truth)
    BY <1>1 DEF WindowOf
  <2>2. SubSeq(log, 1, Len(log)) = log
    OBVIOUS
  <2> QED
    BY <2>1, <2>2 DEF Window
<1>4. NoFalsePass
  <2>1. ASSUME NEW truth \in Truths, NEW returned \in BOOLEAN, NEW from \in 0 .. Len(RunLog(truth)),
               NEW slug \in Packages, Passes(Window(RunLog(truth), from), returned, truth, slug)
        PROVE  \/ Sound(slug, truth[slug])
               \/ truth[slug] = "trips" /\ ~Survives(Window(RunLog(truth), from), slug, "trace")
    BY <1>1, <1>2, <2>1, NoWindowPassesFalsely
  <2>2. ASSUME NEW kind \in ScriptKinds, NEW from \in 0 .. 2, NEW returned \in BOOLEAN,
               NEW specs \in BOOLEAN, SingleVerdict(kind, from, returned, specs)
        PROVE  \/ kind \in {"passes", "mutePasses", "trips"}
               \/ kind = "interrupted" /\ ~returned
               \/ kind = "smoke" /\ returned /\ ~specs
    BY <2>2, AloneDecides
  <2> QED
    BY <2>1, <2>2 DEF NoFalsePass
<1>5. CountsSurvive
  <2>1. ASSUME NEW truth \in Truths, NEW from \in 0 .. Len(RunLog(truth)), NEW slug \in Packages,
               Sound(slug, truth[slug]), ReturnedCounts[truth[slug]] # "none"
        PROVE  Passes(Window(RunLog(truth), from), TRUE, truth, slug)
    BY <1>1, <1>2, <2>1, SoundWindowPasses
  <2>2. ASSUME NEW truth \in Truths, NEW slug \in Packages
        PROVE  Passes(Window(RunLog(truth), 0), FALSE, truth, slug) <=> Sound(slug, truth[slug])
    BY <1>1, <1>3, WholeLogDecides
  <2> QED
    BY <2>1, <2>2 DEF CountsSurvive
<1> QED
  BY <1>4, <1>5 DEF WindowTells

\* However many packages run together, whatever each of them does and whatever part of
\* the head of the log is missing: none passes that failed or whose tests never ran,
\* unless the traceback that tells was lost; counts that came back pass every sound
\* package; and of the whole log exactly the sound ones pass (parseBatchTestLogs,
\* executePreparedTestAsync).
THEOREM VerdictsHold == BatchSpec => []WindowTells
BY VerdictsAreRight, PTL

(***************************************************************************)
(* Places                                                                  *)
(* Groups are runs of the packages, in their order. partitionBySize keeps  *)
(* each within the budget unless it holds one package (Packs), so that     *)
(* equally large packages are spread over as many groups as were asked     *)
(* for, or more: after r rounds the places fit, or there are more than r.  *)
(***************************************************************************)

\* Steps that stay in a set, and the values they lead to from x, one after another.
StaysIn(S, step, N) == \A n \in 1 .. N, y \in S : step[n][y] \in S
Iterates(f, S, x, step, N) ==
    /\ f \in [0 .. N -> S]
    /\ f[0] = x
    /\ \A n \in 1 .. N : f[n] = step[n][f[n - 1]]

LEMMA IterationExists ==
    ASSUME NEW S, NEW N \in Nat, NEW x \in S, NEW step, StaysIn(S, step, N)
    PROVE  \E f : Iterates(f, S, x, step, N)
<1> DEFINE Lacks == {m \in 0 .. N : ~ \E f : Iterates(f, S, x, step, m)}
<1>1. Lacks = {}
  <2> SUFFICES ASSUME Lacks # {} PROVE FALSE
    OBVIOUS
  <2>1. PICK m \in Lacks : \A k \in Lacks : m <= k
    BY LeastNumber, Lacks \in SUBSET Nat
  <2>2. m # 0
    <3>1. Iterates([k \in 0 .. 0 |-> x], S, x, step, 0)
      BY DEF Iterates
    <3> QED
      BY <2>1, <3>1
  <2>3. m \in 1 .. N /\ m - 1 \in 0 .. N /\ m - 1 < m /\ m - 1 \notin Lacks
    BY <2>1, <2>2
  <2>4. PICK f : Iterates(f, S, x, step, m - 1)
    BY <2>3
  <2> DEFINE more == [k \in 0 .. m |-> IF k = m THEN step[m][f[m - 1]] ELSE f[k]]
  <2>5. f[m - 1] \in S /\ step[m][f[m - 1]] \in S
    <3>1. m - 1 \in 0 .. m - 1
      BY <2>3
    <3>2. f[m - 1] \in S
      BY <2>4, <3>1 DEF Iterates
    <3> QED
      BY <2>3, <3>2 DEF StaysIn
  <2>6. more \in [0 .. m -> S]
    BY <2>3, <2>4, <2>5 DEF Iterates
  <2>7. more[0] = x
    BY <2>3, <2>4 DEF Iterates
  <2>8. ASSUME NEW k \in 1 .. m PROVE more[k] = step[k][more[k - 1]]
    <3>1. k - 1 \in 0 .. m - 1 /\ k - 1 \in 0 .. m /\ k - 1 # m /\ k \in 0 .. m
      BY <2>3
    <3>2. more[k - 1] = f[k - 1]
      BY <3>1
    <3>3. CASE k = m
      BY <3>1, <3>2, <3>3
    <3>4. CASE k # m
      <4>1. k \in 1 .. m - 1
        BY <2>3, <3>4
      <4> QED
        BY <2>4, <3>1, <3>2, <3>4, <4>1 DEF Iterates
    <3> QED
      BY <3>3, <3>4
  <2>9. Iterates(more, S, x, step, m)
    BY <2>6, <2>7, <2>8 DEF Iterates
  <2> QED
    BY <2>1, <2>9
<1> QED
  BY <1>1

-----------------------------------------------------------------------------
(* Sums.                                                                   *)

IsSum(f, size, group) ==
    f = [i \in 0 .. Len(group) |-> IF i = 0 THEN 0 ELSE f[i - 1] + size[group[i]]]

LEMMA SumSteps ==
    ASSUME NEW f, NEW size, NEW group, Len(group) \in Nat, IsSum(f, size, group)
    PROVE  /\ f[0] = 0
           /\ \A i \in 1 .. Len(group) : f[i] = f[i - 1] + size[group[i]]
           /\ DOMAIN f = 0 .. Len(group)
<1>1. f[0] = 0
  BY DEF IsSum
<1>2. ASSUME NEW i \in 1 .. Len(group) PROVE f[i] = f[i - 1] + size[group[i]]
  <2>1. i \in 0 .. Len(group) /\ i # 0
    OBVIOUS
  <2> QED
    BY <2>1 DEF IsSum
<1>3. DOMAIN f = 0 .. Len(group)
  BY DEF IsSum
<1> QED
  BY <1>1, <1>2, <1>3

LEMMA SumExists ==
    ASSUME NEW n \in Nat, NEW size \in [1 .. n -> Nat], NEW group \in Seq(1 .. n)
    PROVE  /\ SumOver(size, group) \in Nat
           /\ \E f : IsSum(f, size, group) /\ SumOver(size, group) = f[Len(group)]
<1> DEFINE N == Len(group)
           step == [i \in 1 .. N |-> [y \in Nat |-> y + size[group[i]]]]
<1>1. N \in Nat /\ 0 \in Nat
  OBVIOUS
<1>2. \A i \in 1 .. N, y \in Nat : step[i][y] = y + size[group[i]]
  OBVIOUS
<1>3. StaysIn(Nat, step, N)
  <2>1. \A i \in 1 .. N : size[group[i]] \in Nat
    OBVIOUS
  <2>2. ASSUME NEW i \in 1 .. N, NEW y \in Nat PROVE step[i][y] \in Nat
    <3>1. step[i][y] = y + size[group[i]] /\ size[group[i]] \in Nat
      BY <1>2, <2>1, Zenon
    <3> DEFINE z == size[group[i]]
    <3>2. z \in Nat /\ step[i][y] = y + z
      BY <3>1, Zenon
    <3> HIDE DEF z
    <3>3. y + z \in Nat
      BY <3>2
    <3> QED
      BY <3>2, <3>3, Zenon
  <2> HIDE DEF step
  <2> QED
    BY <2>2, Zenon DEF StaysIn
<1> HIDE DEF step
<1>4. PICK g : Iterates(g, Nat, 0, step, N)
  <2> HIDE DEF N
  <2> QED
    BY <1>1, <1>3, IterationExists
<1>5. IsSum(g, size, group)
  <2>1. \A i \in 0 .. N : g[i] = IF i = 0 THEN 0 ELSE g[i - 1] + size[group[i]]
    <3> TAKE i \in 0 .. N
    <3>1. CASE i = 0
      BY <1>4, <3>1 DEF Iterates
    <3>2. CASE i # 0
      <4>1. i \in 1 .. N /\ i - 1 \in 0 .. N
        BY <1>1, <3>2
      <4>2. g[i - 1] \in Nat
        BY <1>4, <4>1 DEF Iterates
      <4> QED
        BY <1>2, <1>4, <3>2, <4>1, <4>2 DEF Iterates
    <3> QED
      BY <3>1, <3>2
  <2> QED
    BY <2>1, <1>4 DEF IsSum, Iterates
<1> DEFINE f == CHOOSE s : IsSum(s, size, group)
<1>6. IsSum(f, size, group)
  BY <1>5
<1>7. SumOver(size, group) = f[N]
  BY DEF SumOver, IsSum
<1> HIDE DEF f
<1>8. f[0] = 0 /\ (\A i \in 1 .. N : f[i] = f[i - 1] + size[group[i]]) /\ DOMAIN f = 0 .. N
  BY <1>1, <1>6, SumSteps, SMTT(30)
<1>9. \A i \in 0 .. N : f[i] \in Nat
  <2> DEFINE Bad == {i \in 0 .. N : f[i] \notin Nat}
  <2> SUFFICES ASSUME Bad # {} PROVE FALSE
    OBVIOUS
  <2>1. PICK i \in Bad : \A k \in Bad : i <= k
    BY LeastNumber, Bad \in SUBSET Nat
  <2>2. i \in 1 .. N /\ i - 1 \in 0 .. N /\ ~ (i <= i - 1)
    BY <1>1, <1>8, <2>1
  <2>3. f[i - 1] \in Nat
    BY <2>1, <2>2
  <2>4. size[group[i]] \in Nat
    BY <2>2
  <2>5. f[i] = f[i - 1] + size[group[i]]
    BY <1>8, <2>2
  <2> QED
    BY <2>1, <2>3, <2>4, <2>5, SMTT(30)
<1>10. N \in 0 .. N
  BY <1>1
<1> QED
  BY <1>6, <1>7, <1>9, <1>10

\* Sums of two groups agree as far as the groups do.
Begins(short, long) ==
    /\ Len(short) \in Nat /\ Len(long) \in Nat /\ Len(short) <= Len(long)
    /\ \A i \in 1 .. Len(short) : short[i] = long[i]

LEMMA SumsAgree ==
    ASSUME NEW size, NEW f, NEW g, NEW short, NEW long, Begins(short, long),
           IsSum(f, size, short), IsSum(g, size, long)
    PROVE  \A i \in 0 .. Len(short) : f[i] = g[i]
<1> USE DEF Begins
<1> DEFINE Bad == {i \in 0 .. Len(short) : f[i] # g[i]}
<1> SUFFICES ASSUME Bad # {} PROVE FALSE
  OBVIOUS
<1>1. PICK i \in Bad : \A k \in Bad : i <= k
  BY LeastNumber, Bad \in SUBSET Nat
<1>2. i \in 1 .. Len(short) /\ i \in 1 .. Len(long) /\ i - 1 \in 0 .. Len(short) /\ ~ (i <= i - 1)
  BY <1>1, SumSteps
<1>3. f[i - 1] = g[i - 1]
  BY <1>1, <1>2
<1>4. f[i] = f[i - 1] + size[short[i]] /\ g[i] = g[i - 1] + size[long[i]]
  BY <1>2, SumSteps
<1> QED
  BY <1>1, <1>2, <1>3, <1>4

\* What a sum is: of one package, with one more, and of equally large ones.
LEMMA SumsUp ==
    ASSUME NEW n \in Nat, NEW size \in [1 .. n -> Nat], NEW p \in 1 .. n
    PROVE  /\ SumOver(size, <<p>>) = size[p]
           /\ \A group \in Seq(1 .. n) :
                SumOver(size, Append(group, p)) = SumOver(size, group) + size[p]
<1>1. ASSUME NEW group \in Seq(1 .. n)
      PROVE  SumOver(size, Append(group, p)) = SumOver(size, group) + size[p]
  <2> DEFINE more == Append(group, p)
  <2>1. /\ more \in Seq(1 .. n) /\ Len(more) = Len(group) + 1 /\ more[Len(more)] = p
        /\ \A i \in 1 .. Len(group) : group[i] = more[i]
    OBVIOUS
  <2>2. PICK f :
          IsSum(f, size, group) /\ SumOver(size, group) = f[Len(group)]
    BY SumExists
  <2>3. PICK g :
          IsSum(g, size, more) /\ SumOver(size, more) = g[Len(more)]
    BY <2>1, SumExists
  <2> HIDE DEF more
  <2>4. Len(group) \in Nat /\ Len(more) \in Nat /\ Len(group) <= Len(more)
    BY <2>1
  <2>5. f[Len(group)] = g[Len(group)]
    <3>1. Begins(group, more)
      BY <2>1, <2>4 DEF Begins
    <3>2. \A i \in 0 .. Len(group) : f[i] = g[i]
      BY <2>2, <2>3, <3>1, SumsAgree
    <3> QED
      BY <2>4, <3>2
  <2>6. g[Len(more)] = g[Len(group)] + size[p]
    <3>1. Len(more) \in 1 .. Len(more) /\ Len(more) - 1 = Len(group)
      BY <2>1, <2>4
    <3>2. \A i \in 1 .. Len(more) : g[i] = g[i - 1] + size[more[i]]
      <4>1. /\ g[0] = 0
            /\ \A i \in 1 .. Len(more) : g[i] = g[i - 1] + size[more[i]]
            /\ DOMAIN g = 0 .. Len(more)
        BY <2>3, <2>4, SumSteps
      <4> QED
        BY <4>1
    <3> QED
      BY <2>1, <3>1, <3>2
  <2>7. SumOver(size, group) \in Nat
    BY SumExists
  <2> QED
    BY <2>2, <2>3, <2>5, <2>6, <2>7 DEF more
<1>2. SumOver(size, <<>>) = 0
  <2>1. <<>> \in Seq(1 .. n) /\ Len(<<>>) = 0
    OBVIOUS
  <2>2. PICK f : IsSum(f, size, <<>>) /\ SumOver(size, <<>>) = f[Len(<<>>)]
    BY <2>1, SumExists
  <2> QED
    BY <2>1, <2>2, SumSteps
<1>3. SumOver(size, <<p>>) = size[p]
  <2>1. Append(<<>>, p) = <<p>> /\ <<>> \in Seq(1 .. n)
    OBVIOUS
  <2>2. SumOver(size, Append(<<>>, p)) = SumOver(size, <<>>) + size[p]
    BY <1>1, <2>1
  <2>3. size[p] \in Nat
    OBVIOUS
  <2> QED
    BY <1>2, <2>1, <2>2, <2>3
<1> QED
  BY <1>1, <1>3

LEMMA SumOfEquals ==
    ASSUME NEW n \in Nat, NEW c \in Nat, NEW size \in [1 .. n -> Nat],
           \A p \in 1 .. n : size[p] = c, NEW group \in Seq(1 .. n)
    PROVE  SumOver(size, group) = c * Len(group)
<1>1. PICK f :
        IsSum(f, size, group) /\ SumOver(size, group) = f[Len(group)]
  BY SumExists
<1>2. \A i \in 1 .. Len(group) : f[i] = f[i - 1] + size[group[i]]
  <2>1. Len(group) \in Nat
    OBVIOUS
  <2> QED
    BY <1>1, <2>1, SumSteps
<1> DEFINE Bad == {i \in 0 .. Len(group) : f[i] # c * i}
<1>3. Bad = {}
  <2> SUFFICES ASSUME Bad # {} PROVE FALSE
    OBVIOUS
  <2>1. PICK i \in Bad : \A k \in Bad : i <= k
    BY LeastNumber, Bad \in SUBSET Nat
  <2>2. Len(group) \in Nat
    OBVIOUS
  <2>3. i \in 1 .. Len(group) /\ i - 1 \in 0 .. Len(group) /\ ~ (i <= i - 1)
    BY <1>1, <2>1, <2>2, SumSteps
  <2>4. f[i - 1] = c * (i - 1) /\ f[i] = f[i - 1] + c
    <3>1. f[i - 1] = c * (i - 1)
      BY <2>1, <2>3
    <3>2. size[group[i]] = c
      BY <2>3, SMTT(30)
    <3> QED
      BY <1>2, <2>3, <3>1, <3>2
  <2>5. c * (i - 1) + c = c * i
    BY <2>3
  <2> QED
    BY <2>1, <2>3, <2>4, <2>5
<1> QED
  BY <1>1, <1>3

-----------------------------------------------------------------------------
(* Groups.                                                                 *)

LEMMA FromIs ==
    ASSUME NEW n \in Nat, NEW a \in 1 .. n, NEW b \in 1 .. n, a <= b
    PROVE  /\ From(a, b) \in Seq(1 .. n)
           /\ Len(From(a, b)) = b - a + 1
           /\ \A j \in 1 .. b - a + 1 : From(a, b)[j] = a + j - 1
           /\ From(a, a) = <<a>>
           /\ b < n => Append(From(a, b), b + 1) = From(a, b + 1)
<1>1. b - a + 1 \in Nat /\ \A j \in 1 .. b - a + 1 : a + j - 1 \in 1 .. n
  OBVIOUS
<1>2. From(a, b) \in [1 .. b - a + 1 -> 1 .. n]
  BY <1>1 DEF From
<1>3. From(a, b) \in Seq(1 .. n) /\ Len(From(a, b)) = b - a + 1
  BY <1>1, <1>2
<1>4. \A j \in 1 .. b - a + 1 : From(a, b)[j] = a + j - 1
  BY DEF From
<1>5. From(a, a) = <<a>>
  <2>1. a - a + 1 = 1 /\ \A j \in 1 .. 1 : a + j - 1 = a
    OBVIOUS
  <2>2. From(a, a) = [j \in 1 .. 1 |-> a]
    BY <2>1 DEF From
  <2> QED
    BY <2>2
<1>6. ASSUME b < n PROVE Append(From(a, b), b + 1) = From(a, b + 1)
  <2>1. b + 1 - a + 1 = (b - a + 1) + 1 /\ a + (b - a + 2) - 1 = b + 1
    OBVIOUS
  <2>2. /\ Append(From(a, b), b + 1) \in Seq(Nat)
        /\ Len(Append(From(a, b), b + 1)) = b - a + 2
        /\ \A j \in 1 .. b - a + 1 : Append(From(a, b), b + 1)[j] = a + j - 1
        /\ Append(From(a, b), b + 1)[b - a + 2] = b + 1
    BY <1>1, <1>3, <1>4
  <2>3. From(a, b + 1) = [j \in 1 .. b - a + 2 |-> a + j - 1]
    BY <2>1 DEF From
  <2>4. \A j \in 1 .. b - a + 2 : Append(From(a, b), b + 1)[j] = a + j - 1
    BY <2>1, <2>2
  <2> QED
    BY <2>2, <2>3, <2>4
<1> QED
  BY <1>3, <1>4, <1>5, <1>6

\* The groups that the first m packages are in.
IsRun(groups, i, m) ==
    \E a, b \in 1 .. m : /\ a <= b
                         /\ groups[i] = From(a, b)
                         /\ i <= a
                         /\ b <= m - (Len(groups) - i)

Placed(groups, m) ==
    /\ \A i \in 1 .. Len(groups) : IsRun(groups, i, m)
    /\ AllInTurn(groups, m)
    /\ m > 0 => groups # <<>> /\ \E a \in 1 .. m : groups[Len(groups)] = From(a, m)

\* The next package alone.
LEMMA GroupOpens ==
    ASSUME NEW n \in Nat, NEW m \in 0 .. n - 1, NEW groups \in Seq(Seq(1 .. n)),
           Placed(groups, m)
    PROVE  LET next == Append(groups, <<m + 1>>)
           IN next \in Seq(Seq(1 .. n)) /\ Placed(next, m + 1)
<1> DEFINE next == Append(groups, <<m + 1>>)
           G == Len(groups)
<1>1. /\ m \in Nat /\ m + 1 \in 1 .. n /\ n \in Nat
      /\ G \in Nat /\ Len(next) = G + 1 /\ DOMAIN next = 1 .. G + 1 /\ DOMAIN groups = 1 .. G
      /\ next \in Seq(Seq(1 .. n)) /\ next # <<>>
      /\ next[G + 1] = <<m + 1>> /\ \A i \in 1 .. G : next[i] = groups[i]
  <2> DEFINE E == Seq(1 .. n)
  <2>1. m \in Nat /\ m + 1 \in 1 .. n /\ n \in Nat
    OBVIOUS
  <2>2. <<m + 1>> \in E /\ groups \in Seq(E)
    BY <2>1
  <2> HIDE DEF E
  <2>3. /\ G \in Nat /\ Len(next) = G + 1 /\ DOMAIN next = 1 .. G + 1 /\ DOMAIN groups = 1 .. G
        /\ next \in Seq(E) /\ next[G + 1] = <<m + 1>> /\ \A i \in 1 .. G : next[i] = groups[i]
    BY <2>2
  <2>4. next # <<>>
    <3>1. Len(next) # 0 /\ Len(<<>>) = 0
      BY <2>3
    <3> QED
      BY <3>1
  <2> QED
    BY <2>1, <2>3, <2>4 DEF E
<1> HIDE DEF next
<1>2. From(m + 1, m + 1) = <<m + 1>>
  <2>1. m + 1 <= m + 1
    BY <1>1
  <2> QED
    BY <1>1, <2>1, FromIs
<1>3. G <= m
  <2>1. CASE G = 0
    BY <1>1, <2>1
  <2>2. CASE G # 0
    <3>1. IsRun(groups, G, m)
      BY <1>1, <2>2 DEF Placed
    <3> QED
      BY <1>1, <3>1 DEF IsRun
  <2> QED
    BY <2>1, <2>2
<1>4. ASSUME NEW i \in 1 .. G + 1 PROVE IsRun(next, i, m + 1)
  <2>1. CASE i = G + 1
    BY <1>1, <1>2, <1>3, <2>1, SMTT(30) DEF IsRun
  <2>2. CASE i # G + 1
    <3>1. i \in 1 .. G
      BY <1>1, <2>2
    <3>2. PICK a \in 1 .. m, b \in 1 .. m :
            a <= b /\ groups[i] = From(a, b) /\ i <= a /\ b <= m - (G - i)
      BY <3>1 DEF Placed, IsRun
    <3>3. a \in 1 .. m + 1 /\ b \in 1 .. m + 1 /\ b <= m + 1 - (G + 1 - i)
      BY <1>1, <3>1, <3>2
    <3> QED
      BY <1>1, <3>1, <3>2, <3>3 DEF IsRun
  <2> QED
    BY <2>1, <2>2
<1>5. AllInTurn(next, m + 1)
  <2>1. ASSUME NEW p \in 1 .. m + 1
        PROVE  \E i \in DOMAIN next : \E j \in DOMAIN next[i] : next[i][j] = p
    <3>1. CASE p = m + 1
      <4>1. G + 1 \in DOMAIN next /\ 1 \in DOMAIN next[G + 1] /\ next[G + 1][1] = m + 1
        BY <1>1
      <4> QED
        BY <3>1, <4>1
    <3>2. CASE p # m + 1
      <4>1. p \in 1 .. m
        BY <1>1, <3>2
      <4>2. PICK i \in DOMAIN groups : \E j \in DOMAIN groups[i] : groups[i][j] = p
        BY <4>1 DEF Placed, AllInTurn
      <4>3. i \in DOMAIN next /\ next[i] = groups[i]
        BY <1>1, <4>2
      <4> QED
        BY <4>2, <4>3
    <3> QED
      BY <3>1, <3>2
  <2>2. ASSUME NEW i \in DOMAIN next, NEW k \in DOMAIN next,
               NEW j \in DOMAIN next[i], NEW l \in DOMAIN next[k]
        PROVE  /\ next[i][j] \in 1 .. m + 1
               /\ i < k \/ (i = k /\ j < l) => next[i][j] < next[k][l]
    <3>1. i \in 1 .. G + 1 /\ k \in 1 .. G + 1
      BY <1>1
    <3>2. \A h \in 1 .. G + 1 : h # G + 1 => h \in DOMAIN groups /\ next[h] = groups[h]
      <4>1. \A h \in 1 .. G + 1 : h # G + 1 => h \in 1 .. G
        BY <1>1
      <4> QED
        BY <1>1, <4>1
    <3>3. i # G + 1 => next[i][j] \in 1 .. m
      BY <3>1, <3>2 DEF Placed, AllInTurn
    <3>4. i = G + 1 => next[i][j] = m + 1 /\ j = 1
      BY <1>1
    <3>5. k = G + 1 => next[k][l] = m + 1 /\ l = 1
      BY <1>1
    <3>6. CASE k = G + 1
      <4>1. CASE i # G + 1
        <5>1. next[i][j] \in 1 .. m /\ next[k][l] = m + 1 /\ i # k
          BY <3>3, <3>5, <3>6, <4>1
        <5>2. next[i][j] \in 1 .. m + 1 /\ next[i][j] < m + 1
          BY <5>1
        <5> QED
          BY <5>1, <5>2
      <4>2. CASE i = G + 1
        <5>1. next[i][j] = m + 1 /\ i = k /\ j = 1 /\ l = 1 /\ i \in Nat
          BY <1>1, <3>4, <3>5, <3>6, <4>2
        <5>2. next[i][j] \in 1 .. m + 1 /\ ~ (i < k) /\ ~ (j < l)
          BY <5>1
        <5> QED
          BY <5>2
      <4> QED
        BY <4>1, <4>2
    <3>7. CASE k # G + 1 /\ i # G + 1
      <4>1. /\ i \in DOMAIN groups /\ k \in DOMAIN groups
            /\ next[i] = groups[i] /\ next[k] = groups[k]
        BY <3>1, <3>2, <3>7
      <4>2. i < k \/ (i = k /\ j < l) => groups[i][j] < groups[k][l]
        BY <4>1 DEF Placed, AllInTurn
      <4>3. next[i][j] \in 1 .. m + 1
        BY <1>1, <3>3, <3>7
      <4> QED
        BY <4>1, <4>2, <4>3
    <3>8. CASE k # G + 1 /\ i = G + 1
      BY <1>1, <3>1, <3>4, <3>8, SMTT(30)
    <3> QED
      BY <3>6, <3>7, <3>8
  <2> QED
    BY <2>1, <2>2 DEF AllInTurn
<1>6. next[Len(next)] = From(m + 1, m + 1)
  BY <1>1, <1>2
<1>7. Placed(next, m + 1)
  <2>1. m + 1 \in 1 .. m + 1
    BY <1>1, SMTT(30)
  <2> QED
    BY <1>1, <1>4, <1>5, <1>6, <2>1 DEF Placed
<1> QED
  BY <1>1, <1>7 DEF next

\* The next package with those of the last group.
LEMMA GroupGrows ==
    ASSUME NEW n \in Nat, NEW m \in 0 .. n - 1, NEW groups \in Seq(Seq(1 .. n)),
           groups # <<>>, Placed(groups, m)
    PROVE  LET next == [groups EXCEPT ![Len(groups)] = Append(groups[Len(groups)], m + 1)]
           IN next \in Seq(Seq(1 .. n)) /\ Placed(next, m + 1)
<1> DEFINE G == Len(groups)
           last == groups[G]
           next == [groups EXCEPT ![G] = Append(last, m + 1)]
<1>1. /\ m \in Nat /\ m + 1 \in 1 .. n /\ n \in Nat
      /\ G \in Nat \ {0} /\ G \in 1 .. G /\ DOMAIN groups = 1 .. G
      /\ last \in Seq(1 .. n)
  OBVIOUS
<1>2. /\ Append(last, m + 1) \in Seq(1 .. n) /\ Len(Append(last, m + 1)) = Len(last) + 1
      /\ Append(last, m + 1)[Len(last) + 1] = m + 1
      /\ \A j \in 1 .. Len(last) : Append(last, m + 1)[j] = last[j]
      /\ DOMAIN last = 1 .. Len(last) /\ DOMAIN Append(last, m + 1) = 1 .. Len(last) + 1
      /\ Len(last) \in Nat
  BY <1>1, SMTT(30)
<1>3. /\ next \in Seq(Seq(1 .. n)) /\ Len(next) = G /\ DOMAIN next = 1 .. G
      /\ next[G] = Append(last, m + 1)
      /\ \A i \in 1 .. G - 1 : next[i] = groups[i]
  <2> DEFINE E == Seq(1 .. n)
  <2>1. Append(last, m + 1) \in E /\ groups \in Seq(E)
    BY <1>2, SMTT(30)
  <2> HIDE DEF E
  <2>2. /\ next \in Seq(E) /\ Len(next) = G /\ DOMAIN next = 1 .. G
        /\ next[G] = Append(last, m + 1)
        /\ \A i \in 1 .. G - 1 : next[i] = groups[i]
    <3> DEFINE more == Append(last, m + 1)
    <3> HIDE DEF last, more
    <3>1. G \in 1 .. G /\ G \in Nat /\ more \in E /\ groups \in Seq(E)
      BY <1>1, <2>1 DEF more
    <3>2. [groups EXCEPT ![G] = more] \in Seq(E)
      BY <3>1
    <3>3. Len([groups EXCEPT ![G] = more]) = G /\ DOMAIN [groups EXCEPT ![G] = more] = 1 .. G
      BY <3>1, <3>2
    <3>4. [groups EXCEPT ![G] = more][G] = more
      BY <1>1, <3>1
    <3>5. \A i \in 1 .. G - 1 : [groups EXCEPT ![G] = more][i] = groups[i]
      <4> HIDE DEF G
      <4>1. \A i \in 1 .. G - 1 : i \in 1 .. G /\ i # G
        BY <3>1
      <4> QED
        BY <1>1, <4>1
    <3> QED
      BY <3>2, <3>3, <3>4, <3>5 DEF more
  <2> QED
    BY <2>2 DEF E
<1> HIDE DEF next
<1>4. PICK a \in 1 .. m : last = From(a, m) /\ G <= a
  <2>1. IsRun(groups, G, m)
    BY <1>1 DEF Placed
  <2>2. PICK a \in 1 .. m, b \in 1 .. m :
          a <= b /\ last = From(a, b) /\ G <= a /\ b <= m - (G - G)
    BY <2>1 DEF IsRun
  <2>3. m > 0
    BY <1>1, <2>2
  <2>4. PICK c \in 1 .. m : last = From(c, m)
    BY <2>3 DEF Placed
  <2>5. c <= m
    BY <2>3
  <2>6. Len(last) = b - a + 1 /\ last[1] = a + 1 - 1 /\ Len(last) = m - c + 1 /\ last[1] = c + 1 - 1
    <3>1. m \in 1 .. m /\ m \in Nat /\ 1 \in 1 .. b - a + 1 /\ 1 \in 1 .. m - c + 1
      BY <1>1, <2>2, <2>3, <2>5
    <3>2. Len(From(a, b)) = b - a + 1 /\ From(a, b)[1] = a + 1 - 1
      BY <2>2, <3>1, FromIs
    <3>3. Len(From(c, m)) = m - c + 1 /\ From(c, m)[1] = c + 1 - 1
      BY <2>5, <3>1, FromIs
    <3> QED
      BY <2>2, <2>4, <3>2, <3>3
  <2>7. a = c
    BY <2>6
  <2> QED
    BY <2>2, <2>4, <2>7
<1>5. next[G] = From(a, m + 1)
  <2>1. m \in 1 .. n /\ a \in 1 .. n /\ a <= m /\ m < n
    BY <1>1
  <2>2. Append(From(a, m), m + 1) = From(a, m + 1)
    BY <2>1, FromIs
  <2> QED
    BY <1>3, <1>4, <2>2
<1>6. ASSUME NEW i \in 1 .. G PROVE IsRun(next, i, m + 1)
  <2>1. CASE i = G
    <3>1. a \in 1 .. m + 1 /\ m + 1 \in 1 .. m + 1 /\ a <= m + 1 /\ m + 1 <= m + 1 - (G - G)
      BY <1>1, <1>4
    <3> QED
      BY <1>3, <1>4, <1>5, <2>1, <3>1 DEF IsRun
  <2>2. CASE i # G
    <3>1. i \in 1 .. G - 1 /\ i \in 1 .. Len(groups)
      <4> HIDE DEF G
      <4>1. G \in Nat
        BY <1>1
      <4>2. i \in 1 .. G - 1
        BY <2>2, <4>1
      <4> QED
        BY <4>2 DEF G
    <3>2. PICK x \in 1 .. m, y \in 1 .. m :
            x <= y /\ groups[i] = From(x, y) /\ i <= x /\ y <= m - (G - i)
      BY <3>1 DEF Placed, IsRun
    <3>3. x \in 1 .. m + 1 /\ y \in 1 .. m + 1 /\ y <= m + 1 - (G - i)
      BY <1>1, <3>1, <3>2
    <3> QED
      BY <1>3, <3>1, <3>2, <3>3 DEF IsRun
  <2> QED
    BY <2>1, <2>2
<1>7. AllInTurn(next, m + 1)
  <2>1. ASSUME NEW p \in 1 .. m + 1
        PROVE  \E i \in DOMAIN next : \E j \in DOMAIN next[i] : next[i][j] = p
    <3>1. CASE p = m + 1
      <4>1. Len(last) + 1 \in DOMAIN next[G] /\ next[G][Len(last) + 1] = m + 1 /\ G \in DOMAIN next
        BY <1>1, <1>2, <1>3
      <4> QED
        BY <3>1, <4>1
    <3>2. CASE p # m + 1
      <4>1. p \in 1 .. m
        BY <1>1, <3>2
      <4>2. PICK i \in DOMAIN groups : \E j \in DOMAIN groups[i] : groups[i][j] = p
        BY <4>1 DEF Placed, AllInTurn
      <4>3. PICK j \in DOMAIN groups[i] : groups[i][j] = p
        BY <4>2
      <4>4. j \in DOMAIN next[i] /\ next[i][j] = p /\ i \in DOMAIN next
        <5>1. CASE i = G
          <6>1. j \in 1 .. Len(last) /\ j \in 1 .. Len(last) + 1
            BY <1>2, <4>3, <5>1
          <6> QED
            BY <1>1, <1>2, <1>3, <4>3, <5>1, <6>1
        <5>2. CASE i # G
          <6>1. i \in 1 .. G - 1
            BY <1>1, <4>2, <5>2
          <6> QED
            BY <1>1, <1>3, <4>3, <6>1
        <5> QED
          BY <5>1, <5>2
      <4> QED
        BY <4>4
    <3> QED
      BY <3>1, <3>2
  <2>2. ASSUME NEW i \in DOMAIN next, NEW j \in DOMAIN next[i]
        PROVE  \/ i \in DOMAIN groups /\ j \in DOMAIN groups[i] /\ next[i][j] = groups[i][j]
               \/ i = G /\ j = Len(last) + 1 /\ next[i][j] = m + 1
    <3>1. CASE i = G
      <4>1. j \in 1 .. Len(last) + 1
        BY <1>2, <1>3, <3>1
      <4>2. CASE j = Len(last) + 1
        BY <1>2, <1>3, <3>1, <4>2
      <4>3. CASE j # Len(last) + 1
        <5>1. j \in 1 .. Len(last)
          BY <1>2, <4>1, <4>3
        <5> QED
          BY <1>1, <1>2, <1>3, <3>1, <5>1
      <4> QED
        BY <4>2, <4>3
    <3>2. CASE i # G
      <4>1. i \in 1 .. G - 1
        BY <1>1, <1>3, <3>2, SMTT(30)
      <4> QED
        BY <1>1, <1>3, <4>1
    <3> QED
      BY <3>1, <3>2
  <2>3. ASSUME NEW i \in DOMAIN next, NEW k \in DOMAIN next,
               NEW j \in DOMAIN next[i], NEW l \in DOMAIN next[k]
        PROVE  /\ next[i][j] \in 1 .. m + 1
               /\ i < k \/ (i = k /\ j < l) => next[i][j] < next[k][l]
    <3>1. \/ i \in DOMAIN groups /\ j \in DOMAIN groups[i] /\ next[i][j] = groups[i][j]
          \/ i = G /\ j = Len(last) + 1 /\ next[i][j] = m + 1
      BY <2>2
    <3>2. \/ k \in DOMAIN groups /\ l \in DOMAIN groups[k] /\ next[k][l] = groups[k][l]
          \/ k = G /\ l = Len(last) + 1 /\ next[k][l] = m + 1
      BY <2>2
    <3>3. \A h \in DOMAIN groups : \A o \in DOMAIN groups[h] : groups[h][o] \in 1 .. m
      BY DEF Placed, AllInTurn
    <3>4. CASE i = G /\ j = Len(last) + 1 /\ next[i][j] = m + 1
      <4>1. k \in 1 .. G
        BY <1>3
      <4>2. k = G => l \in 1 .. Len(last) + 1
        BY <1>2, <1>3
      <4> QED
        BY <1>1, <1>2, <3>4, <4>1, <4>2
    <3>5. CASE i \in DOMAIN groups /\ j \in DOMAIN groups[i] /\ next[i][j] = groups[i][j]
      <4>1. next[i][j] \in 1 .. m
        BY <3>3, <3>5
      <4>2. CASE k = G /\ l = Len(last) + 1 /\ next[k][l] = m + 1
        BY <1>1, <4>1, <4>2
      <4>3. CASE k \in DOMAIN groups /\ l \in DOMAIN groups[k] /\ next[k][l] = groups[k][l]
        <5>1. i < k \/ (i = k /\ j < l) => groups[i][j] < groups[k][l]
          BY <3>5, <4>3 DEF Placed, AllInTurn
        <5> QED
          BY <1>1, <3>5, <4>1, <4>3, <5>1
      <4> QED
        BY <3>2, <4>2, <4>3
    <3> QED
      BY <3>1, <3>4, <3>5
  <2> QED
    BY <2>1, <2>3 DEF AllInTurn
<1>8. next # <<>> /\ a \in 1 .. m + 1 /\ next[Len(next)] = From(a, m + 1)
  BY <1>1, <1>3, <1>4, <1>5, SMTT(30)
<1>9. Placed(next, m + 1)
  BY <1>3, <1>6, <1>7, <1>8 DEF Placed
<1> QED
  BY <1>3, <1>9 DEF next
-----------------------------------------------------------------------------
(* partitionBySize.                                                        *)

\* A group of several packages is within the budget.
WithinBudget(groups, size, bytes, parts) ==
    \A i \in 1 .. Len(groups) :
      Len(groups[i]) = 1 \/ SumOver(size, groups[i]) * parts <= bytes

\* Equally large packages, as large as bytes together.
Alike(n, size, bytes) ==
    \E c \in Nat \ {0} : (\A p \in 1 .. n : size[p] = c) /\ bytes = c * n

\* Of equally large packages every group but the last takes no more than its part.
Spread(groups, m, n, parts) ==
    m > 0 => (m - Len(groups[Len(groups)])) * parts <= (Len(groups) - 1) * n

Packs(groups, m, n, size, bytes, parts) ==
    /\ groups \in Seq(Seq(1 .. n))
    /\ Placed(groups, m)
    /\ WithinBudget(groups, size, bytes, parts)
    /\ Alike(n, size, bytes) /\ parts <= n => Spread(groups, m, n, parts)

LEMMA GroupIsSome ==
    ASSUME NEW n \in Nat, NEW m \in 0 .. n, NEW groups \in Seq(Seq(1 .. n)),
           Placed(groups, m), NEW i \in 1 .. Len(groups)
    PROVE  Len(groups[i]) \in Nat \ {0}
<1>1. PICK a \in 1 .. m, b \in 1 .. m : a <= b /\ groups[i] = From(a, b)
  BY DEF Placed, IsRun
<1>2. a \in 1 .. n /\ b \in 1 .. n /\ b - a + 1 \in Nat \ {0}
  BY <1>1
<1> QED
  BY <1>1, <1>2, FromIs

LEMMA Cancels ==
    ASSUME NEW c \in Nat \ {0}, NEW x \in Nat, NEW y \in Nat, c * x <= c * y
    PROVE  x <= y
<1> SUFFICES ASSUME y + 1 <= x PROVE FALSE
  OBVIOUS
<1>1. c * (y + 1) <= c * x
  OBVIOUS
<1>2. c * (y + 1) = c * y + c
  OBVIOUS
<1> QED
  BY <1>1, <1>2

LEMMA SmallGroups ==
    ASSUME NEW n \in Nat, NEW m \in 0 .. n, NEW size \in [1 .. n -> Nat], NEW bytes \in Nat,
           NEW parts \in Nat, Alike(n, size, bytes), NEW groups, Placed(groups, m),
           groups \in Seq(Seq(1 .. n)), WithinBudget(groups, size, bytes, parts),
           NEW i \in 1 .. Len(groups)
    PROVE  Len(groups[i]) = 1 \/ Len(groups[i]) * parts <= n
<1> DEFINE L == Len(groups[i])
<1> SUFFICES ASSUME L # 1 PROVE L * parts <= n
  OBVIOUS
<1>1. PICK c \in Nat \ {0} : (\A p \in 1 .. n : size[p] = c) /\ bytes = c * n
  BY DEF Alike
<1>2. groups[i] \in Seq(1 .. n) /\ L \in Nat
  OBVIOUS
<1>3. SumOver(size, groups[i]) = c * L
  BY <1>1, <1>2, SumOfEquals, ZenonT(40)
<1>4. (c * L) * parts <= c * n
  BY <1>1, <1>3 DEF WithinBudget
<1> HIDE DEF L
<1>5. (c * L) * parts = c * (L * parts) /\ L * parts \in Nat
  BY <1>1, <1>2
<1> QED
  BY <1>1, <1>4, <1>5, Cancels

LEMMA PutPacks ==
    ASSUME NEW n \in Nat, NEW m \in 0 .. n - 1, NEW size \in [1 .. n -> Nat],
           NEW bytes \in Nat, NEW parts \in Nat \ {0}, NEW groups,
           Packs(groups, m, n, size, bytes, parts)
    PROVE  Packs(Put(groups, m + 1, size, bytes, parts), m + 1, n, size, bytes, parts)
<1> DEFINE p == m + 1
           G == Len(groups)
           last == groups[G]
           next == Put(groups, p, size, bytes, parts)
<1>1. groups \in Seq(Seq(1 .. n)) /\ Placed(groups, m) /\ m \in Nat /\ p \in 1 .. n /\ G \in Nat
  BY DEF Packs
<1>2. size[p] \in Nat /\ SumOver(size, <<p>>) = size[p]
  BY <1>1, SumsUp
<1>3. CASE groups # <<>> /\ (SumOver(size, last) + size[p]) * parts <= bytes
  <2>1. next = [groups EXCEPT ![G] = Append(last, p)]
    BY <1>3 DEF Put
  <2> HIDE DEF next
  <2>2. next \in Seq(Seq(1 .. n)) /\ Placed(next, m + 1)
    <3>1. groups # <<>>
      BY <1>3
    <3>2. [groups EXCEPT ![G] = Append(last, p)] \in Seq(Seq(1 .. n))
            /\ Placed([groups EXCEPT ![G] = Append(last, p)], m + 1)
      BY <1>1, <3>1, GroupGrows, Zenon
    <3> QED
      BY <2>1, <3>2
  <2>3. last \in Seq(1 .. n) /\ G \in 1 .. G
    BY <1>1, <1>3
  <2>4. Len(next) = G /\ next[G] = Append(last, p) /\ \A i \in 1 .. G : i # G => next[i] = groups[i]
    <3>1. DOMAIN groups = 1 .. G
      BY <1>1
    <3>2. DOMAIN next = 1 .. G /\ next \in Seq(Seq(1 .. n))
      BY <2>1, <2>2, <3>1
    <3>3. Len(next) = G
      BY <1>1, <3>2
    <3> DEFINE more == Append(last, p)
    <3>4. next = [groups EXCEPT ![G] = more]
      BY <2>1
    <3> HIDE DEF G, more
    <3>5. next[G] = more /\ \A i \in 1 .. G : i # G => next[i] = groups[i]
      BY <2>3, <3>1, <3>4
    <3> QED
      BY <3>3, <3>5 DEF more
  <2>5. WithinBudget(next, size, bytes, parts)
    <3> SUFFICES ASSUME NEW i \in 1 .. G
                 PROVE  Len(next[i]) = 1 \/ SumOver(size, next[i]) * parts <= bytes
      BY <2>4 DEF WithinBudget
    <3>1. CASE i = G
      <4>1. SumOver(size, Append(last, p)) = SumOver(size, last) + size[p]
        BY <1>1, <2>3, SumsUp
      <4> QED
        BY <1>3, <2>4, <3>1, <4>1
    <3>2. CASE i # G
      BY <2>4, <3>2 DEF Packs, WithinBudget
    <3> QED
      BY <3>1, <3>2
  <2>6. ASSUME Alike(n, size, bytes), parts <= n PROVE Spread(next, m + 1, n, parts)
    <3>1. Len(next[Len(next)]) = Len(last) + 1 /\ Len(last) \in Nat
      BY <2>3, <2>4
    <3>2. m > 0
      <4>1. IsRun(groups, G, m)
        BY <1>1, <2>3 DEF Placed
      <4> QED
        BY <1>1, <4>1 DEF IsRun
    <3>3. (m - Len(last)) * parts <= (G - 1) * n
      BY <2>6, <3>2 DEF Packs, Spread
    <3> HIDE DEF last, G
    <3>4. (m + 1) - Len(next[Len(next)]) = m - Len(last) /\ Len(next) - 1 = G - 1
      <4> DEFINE L == Len(last)
      <4>1. L \in Nat /\ Len(next[Len(next)]) = L + 1
        BY <3>1
      <4> HIDE DEF L
      <4>2. (m + 1) - (L + 1) = m - L
        BY <1>1, <4>1
      <4> QED
        BY <2>4, <4>1, <4>2 DEF L
    <3> QED
      BY <3>3, <3>4 DEF Spread
  <2> QED
    BY <2>2, <2>5, <2>6 DEF Packs, next
<1>4. CASE ~(groups # <<>> /\ (SumOver(size, last) + size[p]) * parts <= bytes)
  <2>1. next = Append(groups, <<p>>)
    BY <1>4 DEF Put
  <2>2. next \in Seq(Seq(1 .. n)) /\ Placed(next, m + 1)
    BY <1>1, <2>1, GroupOpens
  <2> HIDE DEF next
  <2>3. /\ Len(next) = G + 1 /\ next[G + 1] = <<p>> /\ Len(<<p>>) = 1
        /\ \A i \in 1 .. G + 1 : i # G + 1 => i \in 1 .. G /\ next[i] = groups[i]
    <3> DEFINE E == Seq(1 .. n)
    <3>1. groups \in Seq(E) /\ <<p>> \in E
      BY <1>1
    <3> HIDE DEF E
    <3>2. Len(next) = G + 1 /\ next[G + 1] = <<p>> /\ \A i \in 1 .. G : next[i] = groups[i]
      BY <2>1, <3>1
    <3>3. \A i \in 1 .. G + 1 : i # G + 1 => i \in 1 .. G
      <4> HIDE DEF G
      <4> QED
        BY <1>1
    <3> QED
      BY <3>2, <3>3
  <2>4. WithinBudget(next, size, bytes, parts)
    BY <2>3 DEF Packs, WithinBudget
  <2>5. ASSUME Alike(n, size, bytes), parts <= n PROVE Spread(next, m + 1, n, parts)
    <3>1. m * parts <= G * n
      <4>1. CASE m = 0
        BY <1>1, <4>1
      <4>2. CASE m # 0
        <5>1. groups # <<>> /\ G \in 1 .. G /\ m \in 0 .. n
          BY <1>1, <4>2 DEF Placed
        <5>2. Len(last) \in Nat
          BY <1>1, <5>1
        <5>3. Len(last) * parts <= n
          <6>1. Len(last) = 1 \/ Len(last) * parts <= n
            <7>1. WithinBudget(groups, size, bytes, parts) /\ parts \in Nat
              BY DEF Packs
            <7> QED
              BY <1>1, <2>5, <5>1, <7>1, SmallGroups
          <6>2. 1 * parts = parts
            OBVIOUS
          <6> QED
            BY <2>5, <6>1, <6>2
        <5>4. (m - Len(last)) * parts <= (G - 1) * n
          BY <1>1, <2>5, <4>2 DEF Packs, Spread
        <5>5. (m - Len(last)) * parts + Len(last) * parts = m * parts /\ (G - 1) * n + n = G * n
          BY <1>1, <5>2
        <5> QED
          <6> DEFINE A == (m - Len(last)) * parts
                     B == Len(last) * parts
                     C == (G - 1) * n
          <6>1. A \in Int /\ B \in Int /\ C \in Int
            BY <1>1, <5>2
          <6> HIDE DEF A, B, C
          <6> QED
            BY <5>3, <5>4, <5>5, <6>1 DEF A, B, C
      <4> QED
        BY <4>1, <4>2
    <3>2. m + 1 - 1 = m /\ G + 1 - 1 = G
      BY <1>1
    <3> QED
      BY <2>3, <3>1, <3>2 DEF Spread
  <2> QED
    BY <2>2, <2>4, <2>5 DEF Packs, next
<1> QED
  BY <1>3, <1>4

IsPartition(f, n, size, bytes, parts) ==
    f = [m \in 0 .. Len(InOrder(n)) |->
           IF m = 0 THEN <<>> ELSE Put(f[m - 1], InOrder(n)[m], size, bytes, parts)]

LEMMA PutKeepsType ==
    ASSUME NEW n \in Nat, NEW p \in 1 .. n, NEW groups \in Seq(Seq(1 .. n)),
           NEW size, NEW bytes, NEW parts
    PROVE  Put(groups, p, size, bytes, parts) \in Seq(Seq(1 .. n))
<1> DEFINE E == Seq(1 .. n)
<1>1. CASE Put(groups, p, size, bytes, parts)
             = [groups EXCEPT ![Len(groups)] = Append(groups[Len(groups)], p)] /\ groups # <<>>
  <2>1. groups[Len(groups)] \in E /\ Len(groups) \in 1 .. Len(groups)
    BY <1>1
  <2>2. Append(groups[Len(groups)], p) \in E
    BY <2>1
  <2> DEFINE more == Append(groups[Len(groups)], p)
  <2> HIDE DEF E, more
  <2>3. groups \in Seq(E) /\ more \in E
    BY <2>2 DEF E, more
  <2>4. Len(groups) \in 1 .. Len(groups)
    BY <2>1
  <2>5. [groups EXCEPT ![Len(groups)] = more] \in Seq(E)
    BY <2>3, <2>4
  <2> QED
    BY <1>1, <2>5 DEF E, more
<1>2. CASE Put(groups, p, size, bytes, parts) = Append(groups, <<p>>)
  <2>1. <<p>> \in E
    OBVIOUS
  <2> HIDE DEF E
  <2>2. groups \in Seq(E)
    BY DEF E
  <2>3. Append(groups, <<p>>) \in Seq(E)
    BY <2>1, <2>2
  <2> QED
    BY <1>2, <2>3 DEF E
<1> QED
  BY <1>1, <1>2 DEF Put

LEMMA InOrderIs ==
    ASSUME NEW n \in Nat \ {0}
    PROVE  InOrder(n) \in Seq(1 .. n) /\ Len(InOrder(n)) = n /\ \A m \in 1 .. n : InOrder(n)[m] = m
<1>1. 1 \in 1 .. n /\ n \in 1 .. n /\ 1 <= n /\ n - 1 + 1 = n /\ n \in Nat
  OBVIOUS
<1>2. /\ From(1, n) \in Seq(1 .. n) /\ Len(From(1, n)) = n - 1 + 1
      /\ \A m \in 1 .. n - 1 + 1 : From(1, n)[m] = 1 + m - 1
  BY <1>1, FromIs
<1> QED
  BY <1>1, <1>2 DEF InOrder

LEMMA PartitionExists ==
    ASSUME NEW n \in Nat \ {0}, NEW size, NEW bytes, NEW parts
    PROVE  \E f : /\ IsPartition(f, n, size, bytes, parts)
                  /\ PartitionBySize(InOrder(n), size, bytes, parts) = f[n]
<1> DEFINE S == Seq(Seq(1 .. n))
           step == [m \in 1 .. n |-> [y \in S |-> Put(y, m, size, bytes, parts)]]
<1>1. n \in Nat /\ <<>> \in S
  OBVIOUS
<1>2. \A m \in 1 .. n, y \in S : step[m][y] = Put(y, m, size, bytes, parts)
  OBVIOUS
<1>3. StaysIn(S, step, n)
  <2> HIDE DEF step
  <2>1. ASSUME NEW m \in 1 .. n, NEW y \in S PROVE step[m][y] \in S
    BY <1>1, <1>2, PutKeepsType
  <2> QED
    BY <2>1 DEF StaysIn
<1> HIDE DEF step, S
<1>4. PICK g : Iterates(g, S, <<>>, step, n)
  BY <1>1, <1>3, IterationExists
<1>5. \A m \in 1 .. n : g[m] = Put(g[m - 1], m, size, bytes, parts)
  <2> TAKE m \in 1 .. n
  <2>1. m - 1 \in 0 .. n
    BY <1>1
  <2>2. g[m - 1] \in S
    BY <1>4, <2>1 DEF Iterates
  <2> QED
    BY <1>2, <1>4, <2>2 DEF Iterates
<1>6. IsPartition(g, n, size, bytes, parts)
  <2>1. \A m \in 0 .. n :
          g[m] = IF m = 0 THEN <<>> ELSE Put(g[m - 1], InOrder(n)[m], size, bytes, parts)
    <3> TAKE m \in 0 .. n
    <3>1. CASE m = 0
      BY <1>4, <3>1 DEF Iterates
    <3>2. CASE m # 0
      <4>1. m \in 1 .. n
        BY <3>2
      <4> QED
        BY <1>5, <3>2, <4>1, InOrderIs
    <3> QED
      BY <3>1, <3>2
  <2>2. g \in [0 .. n -> S]
    BY <1>4 DEF Iterates
  <2>3. g = [m \in 0 .. n |->
               IF m = 0 THEN <<>> ELSE Put(g[m - 1], InOrder(n)[m], size, bytes, parts)]
    BY <2>1, <2>2
  <2> QED
    BY <2>3, InOrderIs DEF IsPartition
<1> DEFINE f == CHOOSE h : IsPartition(h, n, size, bytes, parts)
<1>7. IsPartition(f, n, size, bytes, parts)
  BY <1>6
<1>8. PartitionBySize(InOrder(n), size, bytes, parts) = f[Len(InOrder(n))]
  BY DEF PartitionBySize, IsPartition
<1> QED
  BY <1>7, <1>8, InOrderIs

LEMMA PartitionPacks ==
    ASSUME NEW n \in Nat \ {0}, NEW size \in [1 .. n -> Nat], NEW bytes \in Nat,
           NEW parts \in Nat \ {0}
    PROVE  Packs(PartitionBySize(InOrder(n), size, bytes, parts), n, n, size, bytes, parts)
<1>1. PICK f : /\ IsPartition(f, n, size, bytes, parts)
               /\ PartitionBySize(InOrder(n), size, bytes, parts) = f[n]
  BY PartitionExists
<1>2. f[0] = <<>> /\ \A m \in 1 .. n : f[m] = Put(f[m - 1], m, size, bytes, parts)
  <2>1. 0 \in 0 .. Len(InOrder(n)) /\ Len(InOrder(n)) = n
    BY InOrderIs
  <2>2. f[0] = <<>>
    BY <1>1, <2>1 DEF IsPartition
  <2>3. ASSUME NEW m \in 1 .. n PROVE f[m] = Put(f[m - 1], m, size, bytes, parts)
    <3>1. m \in 0 .. Len(InOrder(n)) /\ m # 0 /\ InOrder(n)[m] = m
      BY <2>1, InOrderIs
    <3> QED
      BY <1>1, <3>1 DEF IsPartition
  <2> QED
    BY <2>2, <2>3
<1> DEFINE Bad == {m \in 0 .. n : ~Packs(f[m], m, n, size, bytes, parts)}
<1>3. Bad = {}
  <2> SUFFICES ASSUME Bad # {} PROVE FALSE
    OBVIOUS
  <2>1. PICK m \in Bad : \A k \in Bad : m <= k
    BY LeastNumber, Bad \in SUBSET Nat
  <2>2. m # 0
    <3>1. Packs(<<>>, 0, n, size, bytes, parts)
      <4>1. Len(<<>>) = 0 /\ DOMAIN <<>> = {} /\ <<>> \in Seq(Seq(1 .. n))
        OBVIOUS
      <4>2. Placed(<<>>, 0)
        BY <4>1 DEF Placed, AllInTurn
      <4>3. WithinBudget(<<>>, size, bytes, parts)
        BY <4>1 DEF WithinBudget
      <4>4. Spread(<<>>, 0, n, parts)
        BY DEF Spread
      <4> QED
        BY <4>1, <4>2, <4>3, <4>4 DEF Packs
    <3> QED
      BY <1>2, <2>1, <3>1
  <2>3. m \in 1 .. n /\ m - 1 \in 0 .. n /\ m - 1 \in 0 .. n - 1 /\ m - 1 + 1 = m /\ ~ (m <= m - 1)
    BY <2>1, <2>2
  <2>4. Packs(f[m - 1], m - 1, n, size, bytes, parts)
    BY <2>1, <2>3
  <2>5. Packs(Put(f[m - 1], m - 1 + 1, size, bytes, parts), m - 1 + 1, n, size, bytes, parts)
    BY <2>3, <2>4, PutPacks
  <2> QED
    BY <1>2, <2>1, <2>3, <2>5
<1> QED
  BY <1>1, <1>3

-----------------------------------------------------------------------------
(* The rounds.                                                             *)

Placements(n) == {groups \in Seq(Seq(1 .. n)) : Placed(groups, n)}

Fits(groups, merged, limit) == \A i \in 1 .. Len(groups) : merged[groups[i]] <= limit

LEMMA RunIs ==
    ASSUME NEW n, NEW a \in 1 .. n, NEW b \in 1 .. n, a <= b
    PROVE  From(a, b) \in Runs(n)
<1> DEFINE r == <<a, b>>
<1>1. r \in (1 .. n) \X (1 .. n) /\ r[1] = a /\ r[2] = b
  OBVIOUS
<1> HIDE DEF r
<1>2. From(r[1], r[2]) \in Runs(n)
  BY <1>1 DEF Runs
<1> QED
  BY <1>1, <1>2

LEMMA GroupsAreRuns ==
    ASSUME NEW n \in Nat \ {0}, NEW groups \in Placements(n)
    PROVE  /\ Len(groups) \in 1 .. n /\ DOMAIN groups = 1 .. Len(groups)
           /\ \A i \in 1 .. Len(groups) :
                /\ groups[i] \in Runs(n)
                /\ Len(groups) = n \/ Len(groups[i]) = 1 => \E p \in 1 .. n : groups[i] = <<p>>
<1> DEFINE G == Len(groups)
<1>1. groups \in Seq(Seq(1 .. n)) /\ Placed(groups, n) /\ G \in Nat /\ DOMAIN groups = 1 .. G
  BY DEF Placements
<1>2. G # 0
  <2>1. groups # <<>>
    BY <1>1 DEF Placed
  <2> QED
    BY <1>1, <2>1
<1>3. \A i \in 1 .. G : IsRun(groups, i, n)
  BY <1>1 DEF Placed
<1> HIDE DEF G
<1>4. G <= n
  <2>1. G \in 1 .. G
    BY <1>1, <1>2
  <2>2. PICK a \in 1 .. n, b \in 1 .. n : a <= b /\ G <= a
    BY <1>3, <2>1 DEF IsRun
  <2> QED
    BY <1>1, <2>2
<1>5. ASSUME NEW i \in 1 .. G
      PROVE  /\ groups[i] \in Runs(n)
             /\ G = n \/ Len(groups[i]) = 1 => \E p \in 1 .. n : groups[i] = <<p>>
  <2>1. PICK a \in 1 .. n, b \in 1 .. n :
          a <= b /\ groups[i] = From(a, b) /\ i <= a /\ b <= n - (G - i)
    BY <1>3 DEF IsRun, G
  <2>2. groups[i] \in Runs(n)
    BY <2>1, RunIs
  <2>3. Len(groups[i]) = b - a + 1
    BY <2>1, FromIs
  <2>4. G = n \/ Len(groups[i]) = 1 => a = b
    BY <1>1, <2>1, <2>3
  <2>5. From(a, a) = <<a>>
    <3>1. a <= a
      OBVIOUS
    <3> QED
      BY <3>1, FromIs
  <2> QED
    BY <2>1, <2>2, <2>4, <2>5
<1>6. G \in 1 .. n
  BY <1>1, <1>2, <1>4
<1> QED
  BY <1>1, <1>5, <1>6 DEF G

LEMMA LargestIs ==
    ASSUME NEW groups, NEW merged, Len(groups) \in Nat \ {0},
           DOMAIN groups = 1 .. Len(groups),
           \A i \in 1 .. Len(groups) : merged[groups[i]] \in Nat
    PROVE  /\ \E i \in 1 .. Len(groups) : Largest(groups, merged) = merged[groups[i]]
           /\ \A i \in 1 .. Len(groups) : merged[groups[i]] <= Largest(groups, merged)
<1> DEFINE G == Len(groups)
           v(i) == merged[groups[i]]
           Bad == {m \in 1 .. G : ~ \E i \in 1 .. m : \A j \in 1 .. m : v(j) <= v(i)}
<1>1. Bad = {}
  <2> SUFFICES ASSUME Bad # {} PROVE FALSE
    OBVIOUS
  <2>1. PICK m \in Bad : \A k \in Bad : m <= k
    BY LeastNumber, Bad \in SUBSET Nat
  <2>2. \A i \in 1 .. m : v(i) \in Nat
    <3> TAKE i \in 1 .. m
    <3>1. i \in 1 .. G
      BY <2>1
    <3> QED
      BY <3>1
  <2>3. m # 1
    <3>1. CASE m = 1
      <4>1. \A j \in 1 .. 1 : v(j) <= v(1)
        <5>1. v(1) \in Nat
          BY <2>2, <3>1
        <5> HIDE DEF v
        <5> QED
          BY <5>1
      <4> QED
        BY <2>1, <3>1, <4>1
    <3> QED
      BY <3>1
  <2>4. m - 1 \in 1 .. G /\ ~ (m <= m - 1)
    <3>1. m \in 1 .. G /\ G \in Nat
      BY <2>1
    <3> HIDE DEF G
    <3> QED
      BY <2>3, <3>1
  <2>5. PICK i \in 1 .. m - 1 : \A j \in 1 .. m - 1 : v(j) <= v(i)
    BY <2>1, <2>4
  <2>6. \A j \in 1 .. m : j = m \/ j \in 1 .. m - 1
    BY <2>1
  <2>7. i \in 1 .. m /\ m \in 1 .. m
    BY <2>1, <2>5
  <2> HIDE DEF v
  <2>8. CASE v(m) <= v(i)
    BY <2>1, <2>5, <2>6, <2>7, <2>8
  <2>9. CASE ~ (v(m) <= v(i))
    <3>1. \A j \in 1 .. m : v(j) <= v(m)
      <4> TAKE j \in 1 .. m
      <4>1. v(j) \in Nat /\ v(m) \in Nat /\ v(i) \in Nat
        BY <2>2, <2>7
      <4>2. CASE j = m
        BY <4>1, <4>2
      <4>3. CASE j \in 1 .. m - 1
        <5>1. v(j) <= v(i)
          BY <2>5, <4>3
        <5> QED
          BY <2>9, <4>1, <5>1
      <4> QED
        BY <2>6, <4>2, <4>3
    <3> QED
      BY <2>1, <2>7, <3>1
  <2> QED
    BY <2>8, <2>9
<1>2. PICK i \in 1 .. G : \A j \in 1 .. G : v(j) <= v(i)
  <2>1. G \in 1 .. G
    OBVIOUS
  <2> HIDE DEF v
  <2> QED
    BY <1>1, <2>1
<1> DEFINE sizes == {merged[groups[j]] : j \in DOMAIN groups}
<1>3. \A bytes \in sizes : bytes <= v(i)
  BY <1>2
<1>4. \E most \in sizes : \A bytes \in sizes : bytes <= most
  BY <1>2, <1>3
<1>5. /\ Largest(groups, merged) \in sizes
      /\ \A bytes \in sizes : bytes <= Largest(groups, merged)
  BY <1>4 DEF Largest
<1> QED
  BY <1>5

LEMMA CeilDivCovers ==
    ASSUME NEW a \in Nat, NEW b \in Nat \ {0}
    PROVE  CeilDiv(a, b) \in Nat /\ a <= CeilDiv(a, b) * b
<1> DEFINE q == (a + b - 1) \div b
           r == (a + b - 1) % b
<1>1. a + b - 1 \in Nat
  OBVIOUS
<1>2. q \in Nat /\ r \in 0 .. b - 1
  BY <1>1
<1>3. a + b - 1 = b * q + r
  BY <1>1
<1>4. b * q = q * b
  BY <1>2
<1> HIDE DEF q, r
<1>5. a <= q * b
  BY <1>2, <1>3, <1>4
<1> QED
  BY <1>2, <1>5 DEF CeilDiv, q

LEMMA NextCountIs ==
    ASSUME NEW n \in Nat \ {0}, NEW limit \in Nat \ {0}, NEW merged \in [Runs(n) -> Nat],
           NEW groups \in Placements(n)
    PROVE  LET k == NextCount(groups, merged, limit)
           IN /\ k \in Nat \ {0}
              /\ k > Len(groups)
              /\ Len(groups) * Largest(groups, merged) <= k * limit
              /\ Largest(groups, merged) \in Nat
              /\ Largest(groups, merged) <= limit <=> Fits(groups, merged, limit)
<1> DEFINE G == Len(groups)
           k == NextCount(groups, merged, limit)
           most == Largest(groups, merged)
           guess == CeilDiv(G * most, limit)
<1>1. G \in Nat \ {0} /\ DOMAIN groups = 1 .. G /\ \A i \in 1 .. G : merged[groups[i]] \in Nat
  BY GroupsAreRuns
<1>2. /\ \E i \in 1 .. G : most = merged[groups[i]]
      /\ \A i \in 1 .. G : merged[groups[i]] <= most
  BY <1>1, LargestIs
<1>3. most \in Nat
  BY <1>1, <1>2
<1>4. most <= limit <=> Fits(groups, merged, limit)
  BY <1>1, <1>2, <1>3 DEF Fits
<1> HIDE DEF G, most
<1>5. G * most \in Nat
  BY <1>1, <1>3
<1>6. guess \in Nat /\ G * most <= guess * limit
  BY <1>5, CeilDivCovers
<1>7. k = IF guess > G + 1 THEN guess ELSE G + 1
  BY DEF NextCount, G, most
<1> HIDE DEF k, guess
<1>8. k \in Nat \ {0} /\ k > G /\ guess <= k
  BY <1>1, <1>6, <1>7
<1>9. guess * limit <= k * limit
  BY <1>6, <1>8
<1>10. G * most <= k * limit
  <2> DEFINE x == G * most
             y == guess * limit
             z == k * limit
  <2>1. x \in Nat /\ y \in Nat /\ z \in Nat
    BY <1>5, <1>6, <1>8
  <2> HIDE DEF x, y, z
  <2>2. x <= y /\ y <= z
    BY <1>6, <1>9 DEF x, y, z
  <2> QED
    BY <2>1, <2>2 DEF x, z
<1> QED
  BY <1>3, <1>4, <1>8, <1>10 DEF k, G, most

\* What the packages and their merged places have to be for the splitting to end well.
Mergeable(n, size, merged, limit) ==
    /\ \A p \in 1 .. n : merged[<<p>>] <= limit
    /\ \/ \A group \in Runs(n) : merged[group] = SumOver(size, group)
       \/ \E c \in Nat \ {0} : \A p \in 1 .. n : size[p] = c

LEMMA OneIsPlaced ==
    ASSUME NEW n \in Nat \ {0}
    PROVE  <<InOrder(n)>> \in Placements(n) /\ InOrder(n) \in Runs(n)
<1> DEFINE groups == <<InOrder(n)>>
<1>1. groups \in Seq(Seq(1 .. n)) /\ Len(groups) = 1 /\ groups[1] = From(1, n) /\ groups # <<>>
  BY InOrderIs DEF InOrder
<1>2. 1 \in 1 .. n /\ n \in 1 .. n /\ 1 <= n /\ n <= n - (1 - 1) /\ n \in Nat
  OBVIOUS
<1>3. \A i \in 1 .. Len(groups) : IsRun(groups, i, n)
  <2>1. IsRun(groups, 1, n)
    BY <1>1, <1>2 DEF IsRun
  <2> QED
    BY <1>1, <2>1
<1>4. AllInTurn(groups, n)
  <2>1. DOMAIN groups = {1} /\ DOMAIN groups[1] = 1 .. n /\ \A j \in 1 .. n : groups[1][j] = j
    BY InOrderIs
  <2> HIDE DEF groups
  <2> QED
    BY <2>1 DEF AllInTurn
<1>5. groups \in Placements(n)
  <2> HIDE DEF groups
  <2>1. \E a \in 1 .. n : groups[Len(groups)] = From(a, n)
    BY <1>1, <1>2
  <2>2. Placed(groups, n)
    BY <1>1, <1>3, <1>4, <2>1 DEF Placed
  <2> QED
    BY <1>1, <2>2 DEF Placements
<1>6. InOrder(n) \in Runs(n)
  BY <1>2, RunIs DEF InOrder
<1> QED
  BY <1>5, <1>6

LEMMA SplitPacks ==
    ASSUME NEW n \in Nat \ {0}, NEW limit \in Nat \ {0}, NEW size \in [1 .. n -> Nat \ {0}],
           NEW merged \in [Runs(n) -> Nat], NEW groups \in Placements(n)
    PROVE  LET next == SplitAgain(InOrder(n), groups, size, merged, limit)
               k == NextCount(groups, merged, limit)
           IN /\ next \in Placements(n)
              /\ Packs(next, n, n, size, SumOver(size, InOrder(n)), k)
<1>1. size \in [1 .. n -> Nat] /\ n \in Nat /\ InOrder(n) \in Seq(1 .. n)
  BY InOrderIs
<1>2. SumOver(size, InOrder(n)) \in Nat
  BY <1>1, SumExists
<1>3. NextCount(groups, merged, limit) \in Nat \ {0}
  BY NextCountIs
<1> QED
  BY <1>1, <1>2, <1>3, PartitionPacks DEF SplitAgain, Packs, Placements

\* One split of the first place is enough if sizes add up.
LEMMA FirstSplitFits ==
    ASSUME NEW n \in Nat \ {0}, NEW limit \in Nat \ {0}, NEW size \in [1 .. n -> Nat \ {0}],
           NEW merged \in [Runs(n) -> Nat],
           \A p \in 1 .. n : merged[<<p>>] <= limit,
           \A group \in Runs(n) : merged[group] = SumOver(size, group)
    PROVE  Fits(SplitAgain(InOrder(n), <<InOrder(n)>>, size, merged, limit), merged, limit)
<1> DEFINE first == <<InOrder(n)>>
           next == SplitAgain(InOrder(n), first, size, merged, limit)
           k == NextCount(first, merged, limit)
           T == SumOver(size, InOrder(n))
<1>1. first \in Placements(n) /\ InOrder(n) \in Runs(n) /\ Len(first) = 1 /\ first[1] = InOrder(n)
      /\ DOMAIN first = 1 .. 1
  BY OneIsPlaced
<1> HIDE DEF first
<1>2. k \in Nat \ {0} /\ 1 * Largest(first, merged) <= k * limit /\ Largest(first, merged) \in Nat
  BY <1>1, NextCountIs
<1>3. Largest(first, merged) = T /\ T \in Nat
  <2>1. \A i \in 1 .. Len(first) : merged[first[i]] \in Nat
    <3>1. merged[first[1]] \in Nat
      BY <1>1
    <3> QED
      BY <1>1, <3>1
  <2>2. \E i \in 1 .. Len(first) : Largest(first, merged) = merged[first[i]]
    <3>1. Len(first) \in Nat \ {0} /\ DOMAIN first = 1 .. Len(first)
      BY <1>1
    <3> QED
      BY <2>1, <3>1, LargestIs
  <2> QED
    BY <1>1, <2>2
<1>4. next \in Placements(n) /\ Packs(next, n, n, size, T, k)
  BY <1>1, SplitPacks
<1> HIDE DEF next, k, T
<1>5. T <= k * limit
  BY <1>2, <1>3
<1>6. ASSUME NEW i \in 1 .. Len(next) PROVE merged[next[i]] <= limit
  <2>1. next[i] \in Runs(n) /\ (Len(next[i]) = 1 => \E p \in 1 .. n : next[i] = <<p>>)
    BY <1>4, GroupsAreRuns
  <2>2. CASE Len(next[i]) = 1
    BY <2>1, <2>2
  <2>3. CASE Len(next[i]) # 1
    <3> DEFINE x == merged[next[i]]
    <3>1. x = SumOver(size, next[i]) /\ x \in Nat
      BY <2>1
    <3>2. SumOver(size, next[i]) * k <= T
      BY <1>4, <2>3 DEF Packs, WithinBudget
    <3>3. x * k <= T
      BY <3>1, <3>2
    <3> HIDE DEF x
    <3>4. k * x = x * k /\ k * x \in Nat /\ k * limit \in Nat
      BY <1>2, <3>1
    <3>5. k * x <= k * limit
      BY <1>3, <1>5, <3>3, <3>4
    <3>6. x <= limit
      BY <1>2, <3>1, <3>5, Cancels
    <3> QED
      BY <3>6 DEF x
  <2> QED
    BY <2>2, <2>3
<1> QED
  BY <1>6 DEF Fits, next, first

\* Every split gives more places, or places that fit, if packages are equally large.
LEMMA SplitGoesOn ==
    ASSUME NEW n \in Nat \ {0}, NEW limit \in Nat \ {0}, NEW size \in [1 .. n -> Nat \ {0}],
           NEW merged \in [Runs(n) -> Nat],
           \A p \in 1 .. n : merged[<<p>>] <= limit,
           NEW c \in Nat \ {0}, \A p \in 1 .. n : size[p] = c,
           NEW groups \in Placements(n)
    PROVE  LET next == SplitAgain(InOrder(n), groups, size, merged, limit)
           IN Fits(next, merged, limit) \/ Len(next) > Len(groups)
<1> DEFINE next == SplitAgain(InOrder(n), groups, size, merged, limit)
           k == NextCount(groups, merged, limit)
           T == SumOver(size, InOrder(n))
           H == Len(next)
<1>1. k \in Nat \ {0} /\ k > Len(groups) /\ Len(groups) \in Nat
  BY NextCountIs, GroupsAreRuns, SMTT(30)
<1>2. next \in Placements(n) /\ Packs(next, n, n, size, T, k)
  BY SplitPacks
<1>3. size \in [1 .. n -> Nat] /\ n \in Nat
  OBVIOUS
<1>4. T = c * n
  <2>1. InOrder(n) \in Seq(1 .. n) /\ Len(InOrder(n)) = n /\ c \in Nat
    BY InOrderIs
  <2>2. T = c * Len(InOrder(n))
    BY <1>3, <2>1, SumOfEquals
  <2> QED
    BY <2>1, <2>2
<1>5. Alike(n, size, T)
  BY <1>4 DEF Alike
<1> HIDE DEF next, k, T
<1>6. /\ H \in 1 .. n /\ next \in Seq(Seq(1 .. n)) /\ Placed(next, n)
      /\ WithinBudget(next, size, T, k)
  BY <1>2, GroupsAreRuns DEF Packs
<1>7. T \in Nat
  BY <1>3, <1>4
<1>8. ASSUME NEW i \in 1 .. H PROVE Len(next[i]) \in Nat \ {0} /\ (Len(next[i]) = 1 \/ Len(next[i]) * k <= n)
  <2>1. n \in 0 .. n /\ k \in Nat
    BY <1>1, <1>3
  <2>2. Len(next[i]) \in Nat \ {0}
    BY <1>3, <1>6, <2>1, GroupIsSome
  <2>3. Len(next[i]) = 1 \/ Len(next[i]) * k <= n
    BY <1>3, <1>5, <1>6, <1>7, <2>1, SmallGroups
  <2> QED
    BY <2>2, <2>3
<1>9. CASE k <= n
  <2> DEFINE L == Len(next[H])
  <2>1. H \in 1 .. H /\ H \in Nat
    BY <1>6
  <2>2. L \in Nat \ {0} /\ (L = 1 \/ L * k <= n)
    BY <1>8, <2>1
  <2>3. (n - L) * k <= (H - 1) * n
    <3>1. n > 0
      OBVIOUS
    <3> QED
      BY <1>2, <1>5, <1>9, <3>1 DEF Packs, Spread
  <2> HIDE DEF L, H
  <2>4. L * k <= n
    <3>1. 1 * k = k
      BY <1>1
    <3> QED
      BY <1>9, <2>2, <3>1
  <2>5. (n - L) * k + L * k = n * k /\ (H - 1) * n + n = n * H /\ n * k \in Nat /\ n * H \in Nat
    BY <1>1, <2>1, <2>2
  <2>6. n * k <= n * H
    <3> DEFINE a == (n - L) * k
               b == L * k
               d == (H - 1) * n
    <3>1. a \in Int /\ b \in Int /\ d \in Int
      BY <1>1, <2>1, <2>2
    <3> HIDE DEF a, b, d
    <3> QED
      BY <2>3, <2>4, <2>5, <3>1 DEF a, b, d
  <2>7. k <= H
    BY <1>1, <2>1, <2>6, Cancels
  <2> QED
    BY <1>1, <2>1, <2>7 DEF next, H
<1>10. CASE ~ (k <= n)
  <2> SUFFICES ASSUME NEW i \in 1 .. H PROVE merged[next[i]] <= limit
    BY DEF Fits, next
  <2> DEFINE L == Len(next[i])
  <2>1. L \in Nat \ {0} /\ (L = 1 \/ L * k <= n)
    BY <1>8
  <2>2. L = 1
    <3> HIDE DEF L
    <3>1. k <= L * k
      BY <1>1, <2>1
    <3> QED
      BY <1>1, <1>10, <2>1, <3>1
  <2>3. \E p \in 1 .. n : next[i] = <<p>>
    BY <1>2, <2>2, GroupsAreRuns
  <2> QED
    BY <2>3
<1> QED
  BY <1>9, <1>10

IsRounds(f, n, size, merged, limit) ==
    f = [r \in 0 .. n |->
           IF r = 0 THEN <<InOrder(n)>>
           ELSE IF Splits(InOrder(n), f[r - 1], merged, limit)
                  THEN SplitAgain(InOrder(n), f[r - 1], size, merged, limit)
                  ELSE f[r - 1]]

LEMMA RoundsExist ==
    ASSUME NEW n \in Nat \ {0}, NEW limit \in Nat \ {0}, NEW size \in [1 .. n -> Nat \ {0}],
           NEW merged \in [Runs(n) -> Nat]
    PROVE  \E f : /\ IsRounds(f, n, size, merged, limit)
                  /\ Rounds(InOrder(n), size, merged, limit, n) = f[n]
<1> DEFINE S == Placements(n)
           Next1(y) == IF Splits(InOrder(n), y, merged, limit)
                         THEN SplitAgain(InOrder(n), y, size, merged, limit) ELSE y
           step == [r \in 1 .. n |-> [y \in S |-> Next1(y)]]
<1>1. n \in Nat /\ <<InOrder(n)>> \in S
  BY OneIsPlaced
<1>2. \A r \in 1 .. n, y \in S : step[r][y] = Next1(y)
  OBVIOUS
<1>3. \A y \in S : Next1(y) \in S
  BY SplitPacks
<1> HIDE DEF step, S, Next1
<1>4. StaysIn(S, step, n)
  BY <1>2, <1>3 DEF StaysIn
<1>5. PICK g : Iterates(g, S, <<InOrder(n)>>, step, n)
  BY <1>1, <1>4, IterationExists
<1>6. \A r \in 1 .. n : g[r] = Next1(g[r - 1])
  <2> TAKE r \in 1 .. n
  <2>1. r - 1 \in 0 .. n
    BY <1>1
  <2>2. g[r - 1] \in S
    BY <1>5, <2>1 DEF Iterates
  <2> QED
    BY <1>2, <1>5, <2>2 DEF Iterates
<1>7. IsRounds(g, n, size, merged, limit)
  <2>1. \A r \in 0 .. n : g[r] = IF r = 0 THEN <<InOrder(n)>> ELSE Next1(g[r - 1])
    <3> TAKE r \in 0 .. n
    <3>1. CASE r = 0
      BY <1>5, <3>1 DEF Iterates
    <3>2. CASE r # 0
      <4>1. r \in 1 .. n
        BY <3>2
      <4> QED
        BY <1>6, <3>2, <4>1
    <3> QED
      BY <3>1, <3>2
  <2>2. g \in [0 .. n -> S]
    BY <1>5 DEF Iterates
  <2>3. g = [r \in 0 .. n |-> IF r = 0 THEN <<InOrder(n)>> ELSE Next1(g[r - 1])]
    BY <2>1, <2>2
  <2> QED
    BY <2>3 DEF IsRounds, Next1
<1> DEFINE f == CHOOSE h : IsRounds(h, n, size, merged, limit)
<1>8. IsRounds(f, n, size, merged, limit)
  BY <1>7
<1>9. Rounds(InOrder(n), size, merged, limit, n) = f[n]
  BY DEF Rounds, IsRounds
<1> QED
  BY <1>8, <1>9

\* After r rounds the places fit, or there are more than r, and none was split yet if
\* sizes add up.
LEMMA RoundsGoOn ==
    ASSUME NEW n \in Nat \ {0}, NEW limit \in Nat \ {0}, NEW size \in [1 .. n -> Nat \ {0}],
           NEW merged \in [Runs(n) -> Nat], Mergeable(n, size, merged, limit),
           NEW f, IsRounds(f, n, size, merged, limit)
    PROVE  f[n] \in Placements(n) /\ Fits(f[n], merged, limit)
<1> DEFINE first == <<InOrder(n)>>
           Equal == \E c \in Nat \ {0} : \A p \in 1 .. n : size[p] = c
           Good(r) == /\ f[r] \in Placements(n)
                      /\ \/ Fits(f[r], merged, limit)
                         \/ Len(f[r]) > r /\ (f[r] = first \/ Equal)
<1>1. /\ f[0] = first
      /\ \A r \in 1 .. n : f[r] = IF Splits(InOrder(n), f[r - 1], merged, limit)
                                    THEN SplitAgain(InOrder(n), f[r - 1], size, merged, limit)
                                    ELSE f[r - 1]
  <2>1. f[0] = first
    BY DEF IsRounds
  <2>2. ASSUME NEW r \in 1 .. n
        PROVE  f[r] = IF Splits(InOrder(n), f[r - 1], merged, limit)
                        THEN SplitAgain(InOrder(n), f[r - 1], size, merged, limit)
                        ELSE f[r - 1]
    <3>1. r \in 0 .. n /\ r # 0
      OBVIOUS
    <3> QED
      BY <3>1 DEF IsRounds
  <2> QED
    BY <2>1, <2>2
<1>2. first \in Placements(n) /\ Len(first) = 1 /\ Len(InOrder(n)) = n
  BY OneIsPlaced, InOrderIs
<1>3. \A p \in 1 .. n : merged[<<p>>] <= limit
  BY DEF Mergeable
<1>4. ASSUME NEW r \in 1 .. n, Good(r - 1), ~ Fits(f[r - 1], merged, limit)
      PROVE  Good(r)
  <2> DEFINE groups == f[r - 1]
             next == SplitAgain(InOrder(n), groups, size, merged, limit)
  <2>1. groups \in Placements(n) /\ Len(groups) > r - 1 /\ (groups = first \/ Equal)
    BY <1>4
  <2>2. Len(groups) \in 1 .. n /\ ~ (Largest(groups, merged) <= limit)
          /\ Largest(groups, merged) \in Nat
    BY <1>4, <2>1, GroupsAreRuns, NextCountIs
  <2>3. Len(groups) # n
    <3> SUFFICES ASSUME Len(groups) = n PROVE FALSE
      OBVIOUS
    <3>1. \A i \in 1 .. Len(groups) : \E p \in 1 .. n : groups[i] = <<p>>
      BY <2>1, GroupsAreRuns, SMTT(30)
    <3>2. Fits(groups, merged, limit)
      BY <1>3, <3>1 DEF Fits
    <3> QED
      BY <1>4, <3>2
  <2>4. f[r] = next
    <3>1. Splits(InOrder(n), groups, merged, limit)
      BY <1>2, <2>2, <2>3 DEF Splits
    <3> QED
      BY <1>1, <3>1
  <2>5. next \in Placements(n)
    BY <2>1, SplitPacks
  <2>6. Fits(next, merged, limit) \/ (Len(next) > Len(groups) /\ Equal)
    <3>1. CASE Equal
      BY <1>3, <2>1, <3>1, SplitGoesOn
    <3>2. CASE groups = first /\ \A group \in Runs(n) : merged[group] = SumOver(size, group)
      BY <1>3, <3>2, FirstSplitFits
    <3> QED
      BY <2>1, <3>1, <3>2 DEF Mergeable
  <2>7. Len(next) \in Nat
    BY <2>5, GroupsAreRuns
  <2> HIDE DEF next, groups, Equal
  <2>8. Fits(next, merged, limit) \/ (Len(next) > r /\ Equal)
    BY <2>1, <2>2, <2>6, <2>7
  <2> QED
    BY <2>4, <2>5, <2>8
<1>5. ASSUME NEW r \in 1 .. n, Good(r - 1), Fits(f[r - 1], merged, limit) PROVE Good(r)
  <2>1. Largest(f[r - 1], merged) <= limit /\ Largest(f[r - 1], merged) \in Nat
    BY <1>5, NextCountIs
  <2>2. ~ Splits(InOrder(n), f[r - 1], merged, limit)
    BY <2>1 DEF Splits
  <2> QED
    BY <1>1, <1>5, <2>2
<1>6. Good(0)
  BY <1>1, <1>2
<1> HIDE DEF Good, Equal, first
<1> DEFINE Bad == {r \in 0 .. n : ~Good(r)}
<1>7. Bad = {}
  <2> SUFFICES ASSUME Bad # {} PROVE FALSE
    OBVIOUS
  <2>1. PICK r \in Bad : \A k \in Bad : r <= k
    BY LeastNumber, Bad \in SUBSET Nat
  <2>2. r \in 1 .. n /\ r - 1 \in 0 .. n /\ ~ (r <= r - 1)
    BY <1>6, <2>1
  <2>3. Good(r - 1)
    BY <2>1, <2>2
  <2> QED
    BY <1>4, <1>5, <2>1, <2>2, <2>3
<1>8. Good(n)
  BY <1>7
<1>9. f[n] \in Placements(n) /\ (Fits(f[n], merged, limit) \/ Len(f[n]) > n)
  BY <1>8 DEF Good
<1>10. Len(f[n]) \in 1 .. n
  BY <1>9, GroupsAreRuns
<1> QED
  BY <1>9, <1>10

\* A bundle of groups gives back each of their packages once.
LEMMA ManifestAccepted ==
    ASSUME NEW n \in Nat \ {0}, NEW groups \in Placements(n)
    PROVE  AcceptsManifest(Manifest(groups, InOrder(n), {}), [i \in DOMAIN groups |-> i])
<1> DEFINE G == Len(groups)
           manifest == Manifest(groups, InOrder(n), {})
           files == [i \in DOMAIN groups |-> i]
<1>1. /\ G \in 1 .. n /\ DOMAIN groups = 1 .. G /\ AllInTurn(groups, n)
      /\ \A i \in 1 .. G : Len(groups[i]) \in Nat \ {0} /\ DOMAIN groups[i] = 1 .. Len(groups[i])
  <2>1. groups \in Seq(Seq(1 .. n)) /\ Placed(groups, n) /\ n \in 0 .. n /\ n \in Nat
    BY DEF Placements
  <2>2. G \in 1 .. n /\ DOMAIN groups = 1 .. G
    BY GroupsAreRuns
  <2>3. ASSUME NEW i \in 1 .. G
        PROVE  Len(groups[i]) \in Nat \ {0} /\ DOMAIN groups[i] = 1 .. Len(groups[i])
    <3>1. Len(groups[i]) \in Nat \ {0}
      BY <2>1, GroupIsSome
    <3>2. groups[i] \in Seq(1 .. n)
      BY <2>1, <2>2
    <3> QED
      BY <3>1, <3>2
  <2> QED
    BY <2>1, <2>2, <2>3 DEF Placed
<1> HIDE DEF G
<1>2. \A x \in 1 .. n : InOrder(n)[x] = x
  BY InOrderIs
<1>3. DOMAIN manifest = 1 .. G
  BY <1>1 DEF Manifest
<1>4. ASSUME NEW i \in 1 .. G
      PROVE  /\ manifest[i].file = i
             /\ DOMAIN manifest[i].packages = DOMAIN groups[i]
             /\ \A j \in DOMAIN groups[i] :
                  /\ manifest[i].packages[j].name = groups[i][j]
                  /\ manifest[i].packages[j].slug = groups[i][j]
  <2>1. \A j \in DOMAIN groups[i] : groups[i][j] \in 1 .. n
    BY <1>1 DEF AllInTurn
  <2> QED
    BY <1>1, <1>2, <2>1 DEF Manifest
<1> HIDE DEF manifest
<1>5. Len(manifest) = G /\ Len(files) = G /\ DOMAIN files = 1 .. G /\ \A i \in 1 .. G : files[i] = i
  <2>1. G \in Nat
    BY <1>1
  <2> QED
    BY <1>1, <1>3, <2>1
<1> HIDE DEF files
<1>6. \A i \in DOMAIN manifest : /\ \E k \in DOMAIN files : files[k] = manifest[i].file
                                 /\ manifest[i].packages # <<>>
  <2> TAKE i \in DOMAIN manifest
  <2>1. i \in 1 .. G /\ manifest[i].file = i /\ files[i] = i /\ i \in DOMAIN files
    BY <1>3, <1>4, <1>5
  <2>2. 1 \in DOMAIN manifest[i].packages
    BY <1>1, <1>4, <2>1
  <2>3. manifest[i].packages # <<>>
    <3>1. DOMAIN <<>> = {}
      OBVIOUS
    <3> QED
      BY <2>2, <3>1
  <2> QED
    BY <2>1, <2>3
<1>7. \A i, k \in DOMAIN manifest : manifest[i].file = manifest[k].file => i = k
  BY <1>3, <1>4
<1>8. ASSUME NEW p \in Listed(manifest)
      PROVE  /\ p = <<p[1], p[2]>> /\ p[1] \in 1 .. G /\ p[2] \in DOMAIN groups[p[1]]
             /\ p[2] \in Nat
             /\ manifest[p[1]].packages[p[2]].name = groups[p[1]][p[2]]
             /\ manifest[p[1]].packages[p[2]].slug = groups[p[1]][p[2]]
  <2>1. PICK i \in DOMAIN manifest : p \in {i} \X DOMAIN manifest[i].packages
    BY DEF Listed
  <2>2. i \in 1 .. G /\ p = <<p[1], p[2]>> /\ p[1] = i /\ p[2] \in DOMAIN groups[i]
    BY <1>3, <1>4, <2>1
  <2> QED
    BY <1>1, <1>4, <2>2
<1>9. ASSUME NEW p \in Listed(manifest), NEW q \in Listed(manifest),
             groups[p[1]][p[2]] = groups[q[1]][q[2]]
      PROVE  p = q
  <2> DEFINE a == p[1]
             b == p[2]
             d == q[1]
             e == q[2]
  <2>1. /\ p = <<a, b>> /\ q = <<d, e>> /\ a \in 1 .. G /\ d \in 1 .. G
        /\ b \in DOMAIN groups[a] /\ e \in DOMAIN groups[d] /\ b \in Nat /\ e \in Nat
    BY <1>8
  <2>2. groups[a][b] = groups[d][e]
    BY <1>9
  <2> HIDE DEF a, b, d, e
  <2>3. groups[a][b] \in 1 .. n /\ groups[d][e] \in 1 .. n
    BY <1>1, <2>1 DEF AllInTurn
  <2>4. /\ a < d \/ (a = d /\ b < e) => groups[a][b] < groups[d][e]
        /\ d < a \/ (d = a /\ e < b) => groups[d][e] < groups[a][b]
    BY <1>1, <2>1 DEF AllInTurn
  <2>5. ~ (groups[a][b] < groups[d][e]) /\ ~ (groups[d][e] < groups[a][b])
    BY <2>2, <2>3
  <2>6. a = d /\ b = e
    BY <2>1, <2>4, <2>5, SMTT(30)
  <2> QED
    BY <2>1, <2>6
<1>10. \A p, q \in Listed(manifest) :
         LET x == manifest[p[1]].packages[p[2]]
             y == manifest[q[1]].packages[q[2]]
         IN x.name = y.name \/ x.slug = y.slug => p = q
  BY <1>8, <1>9
<1>11. AcceptsManifest(manifest, files)
  BY <1>5, <1>6, <1>7, <1>10 DEF AcceptsManifest
<1> QED
  BY <1>11 DEF manifest, files

\* generateCombinedProjectAsync, for any number of packages and any limit: if each
\* package fits into a place alone, and they merge into places as large as they are
\* together, or are equally large and merge into anything, then after at most as many
\* rounds as there are packages every place fits, each package is in one of them, in
\* their order, and the bundle of the places is accepted when it is read back.
THEOREM PlacesAreFound ==
    ASSUME NEW n \in Nat \ {0}, NEW limit \in Nat \ {0}, NEW size \in [1 .. n -> Nat \ {0}],
           NEW merged \in [Runs(n) -> Nat], Mergeable(n, size, merged, limit)
    PROVE  PlacesFit(n, size, merged, limit)
<1>1. PICK f : /\ IsRounds(f, n, size, merged, limit)
               /\ Rounds(InOrder(n), size, merged, limit, n) = f[n]
  BY RoundsExist
<1> DEFINE groups == Rounds(InOrder(n), size, merged, limit, n)
<1>2. groups \in Placements(n) /\ Fits(groups, merged, limit)
  BY <1>1, RoundsGoOn
<1> HIDE DEF groups
<1>3. \A i \in DOMAIN groups : merged[groups[i]] <= limit
  BY <1>2, GroupsAreRuns DEF Fits
<1>4. AllInTurn(groups, n)
  BY <1>2 DEF Placements, Placed
<1>5. AcceptsManifest(Manifest(groups, InOrder(n), {}), [i \in DOMAIN groups |-> i])
  BY <1>2, ManifestAccepted
<1> QED
  BY <1>3, <1>4, <1>5 DEF PlacesFit, groups

LEMMA SplitsAlwaysFit == SplitsFit
<1> SUFFICES ASSUME NEW n \in 1 .. 4, NEW limit \in 2 .. 4
             PROVE  /\ \A size \in [1 .. n -> 1 .. limit] :
                         PlacesFit(n, size, [group \in Runs(n) |-> SumOver(size, group)], limit)
                    /\ \A merged \in [Runs(n) -> {limit, limit + 1, 3 * limit}] :
                         (\A p \in 1 .. n : merged[<<p>>] <= limit) =>
                           PlacesFit(n, [p \in 1 .. n |-> 1], merged, limit)
  BY DEF SplitsFit
<1>1. n \in Nat \ {0} /\ limit \in Nat \ {0}
  OBVIOUS
<1>2. ASSUME NEW p \in 1 .. n PROVE <<p>> \in Runs(n)
  <2>1. p <= p /\ n \in Nat
    OBVIOUS
  <2> QED
    BY <2>1, RunIs, FromIs, ZenonT(40)
<1>3. ASSUME NEW size \in [1 .. n -> 1 .. limit]
      PROVE  PlacesFit(n, size, [group \in Runs(n) |-> SumOver(size, group)], limit)
  <2> DEFINE merged == [group \in Runs(n) |-> SumOver(size, group)]
  <2>1. size \in [1 .. n -> Nat \ {0}] /\ size \in [1 .. n -> Nat] /\ n \in Nat
    BY <1>1
  <2>2. ASSUME NEW group \in Runs(n) PROVE SumOver(size, group) \in Nat
    <3>1. PICK r \in (1 .. n) \X (1 .. n) : r[1] <= r[2] /\ group = From(r[1], r[2])
      BY DEF Runs
    <3>2. r[1] \in 1 .. n /\ r[2] \in 1 .. n
      BY <3>1
    <3>3. group \in Seq(1 .. n)
      BY <2>1, <3>1, <3>2, FromIs
    <3> QED
      BY <2>1, <3>3, SumExists
  <2>3. merged \in [Runs(n) -> Nat]
    BY <2>2
  <2>4. \A p \in 1 .. n : merged[<<p>>] <= limit
    <3> TAKE p \in 1 .. n
    <3>1. merged[<<p>>] = size[p] /\ size[p] \in 1 .. limit
      BY <1>2, <2>1, SumsUp
    <3> QED
      BY <1>1, <3>1
  <2>5. Mergeable(n, size, merged, limit)
    BY <2>4 DEF Mergeable
  <2> QED
    BY <1>1, <2>1, <2>3, <2>5, PlacesAreFound
<1>4. ASSUME NEW merged \in [Runs(n) -> {limit, limit + 1, 3 * limit}],
             \A p \in 1 .. n : merged[<<p>>] <= limit
      PROVE  PlacesFit(n, [p \in 1 .. n |-> 1], merged, limit)
  <2> DEFINE size == [p \in 1 .. n |-> 1]
  <2>1. size \in [1 .. n -> Nat \ {0}] /\ merged \in [Runs(n) -> Nat]
    <3>1. {limit, limit + 1, 3 * limit} \subseteq Nat
      BY <1>1
    <3> QED
      BY <3>1
  <2>2. Mergeable(n, size, merged, limit)
    <3>1. 1 \in Nat \ {0} /\ \A p \in 1 .. n : size[p] = 1
      OBVIOUS
    <3> QED
      BY <1>4, <3>1 DEF Mergeable
  <2> QED
    BY <1>1, <2>1, <2>2, PlacesAreFound
<1> QED
  BY <1>3, <1>4

\* SplitsFit: the loop of generateCombinedProjectAsync ends with places that fit.
THEOREM PlacesHold == BatchSpec => []SplitsFit
  BY SplitsAlwaysFit, PTL
=============================================================================
