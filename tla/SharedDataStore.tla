----------------------------- MODULE SharedDataStore -----------------------------
(***************************************************************************)
(* Several servers keep one datastore key in step without a session lock,  *)
(* as GameDataStoreService and PrivateServerDataStoreService use a         *)
(* DataStore: the game stages data at any time, and Sync (the autosave     *)
(* loop) or Save take it to the datastore.                                 *)
(*                                                                         *)
(* UpdateAsync runs its transform on the value it has read and writes the  *)
(* result only if the key still holds that value; otherwise it runs the    *)
(* transform again.  It may be refused at any point before that.  A        *)
(* request whose promise was rejected, because a newer one took its place  *)
(* in _saveMaid, is still on its way: if its transform has run it may yet  *)
(* be written, and it is given up when the transform runs again.           *)
(*                                                                         *)
(* A server has at most one read, one write and one superseded write on    *)
(* their way: Sync and Save wait when they would exceed that.  Saving      *)
(* callbacks, and the end of a server, are left out.                       *)
(***************************************************************************)
EXTENDS DataStoreStage, Naturals

CONSTANTS
    Servers,
    Wiping,        \* the stages a game wipes or overwrites
    KeyExists,     \* the key was written before
    MaxActs,       \* bound: what the games of all servers do
    MaxFaults      \* bound: refused requests

ASSUME SharedAssumption ==
    /\ Wiping \subseteq Stages
    /\ KeyExists \in BOOLEAN
    /\ MaxActs \in Nat
    /\ MaxFaults \in Nat

VARIABLES
    cloud,     \* the profile the datastore holds
    status,    \* of each server's first load: _firstLoadPromise, _loadedOk
    base,      \* _baseDataSnapshot of its stages
    staged,    \* _saveDataSnapshot of its stages
    read,      \* its GetAsync on the way
    write,     \* its UpdateAsync or RemoveAsync, kept in _saveMaid
    orphan,    \* a superseded one that may still be written
    due,       \* history: what the game stored and no profile has held yet
    lost,      \* history: keys marked as saved by a write that never wrote them
    acts, faults

vars == <<cloud, status, base, staged, read, write, orphan, due, lost, acts, faults>>
snapshots == <<base, staged>>
requests == <<read, write, orphan>>

\* `seen` is the profile a read answers with.
Reads == [asked : BOOLEAN, seen : Profile]
NoRead == [asked |-> FALSE, seen |-> Missing]

\* `data` and `base` are the writer's; `merge` is doMergeNewData; `seen` is
\* the profile the transform ran on.
Writes == [phase : {"idle", "sent", "ran"}, merge : BOOLEAN, data : StagedData,
           base : Table, seen : Profile]
NoWrite == [phase |-> "idle", merge |-> FALSE, data |-> NothingStaged,
            base |-> EmptyTable, seen |-> Missing]

NothingDue == [key \in Keys |-> Unstaged]

TypeOK ==
    /\ cloud \in Profile
    /\ status \in [Servers -> {"unloaded", "loading", "loaded", "failed"}]
    /\ base \in [Servers -> Table]
    /\ staged \in [Servers -> StagedData]
    /\ read \in [Servers -> Reads]
    /\ write \in [Servers -> Writes]
    /\ orphan \in [Servers -> Writes]
    /\ due \in [Servers -> [Keys -> Values \cup {Deleted, Unstaged}]]
    /\ lost \in [Servers -> SUBSET Keys]
    /\ acts \in 0 .. MaxActs
    /\ faults \in 0 .. MaxFaults

Init ==
    /\ cloud = [Missing EXCEPT !.exists = KeyExists]
    /\ status = [s \in Servers |-> "unloaded"]
    /\ base = [s \in Servers |-> EmptyTable]
    /\ staged = [s \in Servers |-> NothingStaged]
    /\ read = [s \in Servers |-> NoRead]
    /\ write = [s \in Servers |-> NoWrite]
    /\ orphan = [s \in Servers |-> NoWrite]
    /\ due = [s \in Servers |-> NothingDue]
    /\ lost = [s \in Servers |-> {}]
    /\ acts = 0
    /\ faults = 0

Fault == /\ faults < MaxFaults
         /\ faults' = faults + 1

-----------------------------------------------------------------------------
(* The game.                                                               *)

GameActs ==
    /\ acts < MaxActs
    /\ acts' = acts + 1

\* The first of them calls PromiseViewUpToDate before it stages anything.
GameStages(s) ==
    /\ GameActs
    /\ status[s] # "unloaded"
    /\ UNCHANGED <<cloud, status, base, requests, faults>>

\* Store or Delete, on the stage that keeps the key
Store(s, key, value) ==
    /\ GameStages(s)
    /\ staged' = [staged EXCEPT ![s] = StoreAtKey(@, key, value)]
    /\ due' = [due EXCEPT ![s][key] = value]
    /\ lost' = [lost EXCEPT ![s] = @ \ {key}]

\* What the game replaces as a whole, it no longer asks for key by key.
Replaces(s, target) ==
    /\ due' = [due EXCEPT ![s] = [key \in Keys |->
                  IF StageOf(key) \in Subtree(target)
                  THEN staged'[s].at[key] ELSE @[key]]]
    /\ lost' = [lost EXCEPT ![s] = {key \in @ : StageOf(key) \notin Subtree(target)}]

Wipe(s, target) ==
    /\ GameStages(s)
    /\ target \in Wiping
    /\ staged' = [staged EXCEPT ![s] = Wiped(@, target)]
    /\ Replaces(s, target)

Overwrite(s, target, table) ==
    /\ GameStages(s)
    /\ target \in Wiping
    /\ staged' = [staged EXCEPT ![s] = Overwritten(@, target, table)]
    /\ Replaces(s, target)

-----------------------------------------------------------------------------
(* Reading: the first load, and a Sync that has nothing to write.          *)

\* The answer is what the datastore holds when it is asked, and may be old
\* by the time it arrives.
Ask(s, profile) ==
    /\ ~read[s].asked
    /\ read' = [read EXCEPT ![s] = [asked |-> TRUE, seen |-> profile]]

\* PromiseViewUpToDate, called by a first Load or Store
Load(s) ==
    /\ status[s] = "unloaded"
    /\ status' = [status EXCEPT ![s] = "loading"]
    /\ Ask(s, cloud)
    /\ UNCHANGED <<cloud, snapshots, write, orphan, due, lost, acts, faults>>

\* The data read is compared with what has been seen by then.
ReadReturns(s) ==
    /\ read[s].asked
    /\ base' = [base EXCEPT ![s] =
          MergeDiffSnapshot(@, ComputeDiffSnapshot(staged[s], @, read[s].seen))]
    /\ status' = [status EXCEPT ![s] = "loaded"]
    /\ read' = [read EXCEPT ![s] = NoRead]
    /\ UNCHANGED <<cloud, staged, write, orphan, due, lost, acts, faults>>

ReadFails(s) ==
    /\ Fault
    /\ read[s].asked
    /\ status' = [status EXCEPT ![s] = IF @ = "loading" THEN "failed" ELSE @]
    /\ read' = [read EXCEPT ![s] = NoRead]
    /\ UNCHANGED <<cloud, snapshots, write, orphan, due, lost, acts>>

\* Sync with nothing staged
SyncReads(s) ==
    /\ status[s] = "loaded"
    /\ ~HasWritableData(staged[s])
    /\ Ask(s, cloud)
    /\ UNCHANGED <<cloud, status, snapshots, write, orphan, due, lost, acts, faults>>

-----------------------------------------------------------------------------
(* Writing.                                                                *)

\* a superseded request that may still change the datastore
MayLand(request) == \/ request.phase = "ran"
                    \/ request.phase = "sent" /\ IsCompleteWipe(request.data)

\* A request whose transform has not run is superseded without a trace.
Sends(s, merge) ==
    /\ status[s] = "loaded"
    /\ HasWritableData(staged[s])
    /\ IF MayLand(write[s])
       THEN /\ orphan[s].phase = "idle"
            /\ orphan' = [orphan EXCEPT ![s] = write[s]]
       ELSE UNCHANGED orphan
    /\ write' = [write EXCEPT ![s] =
          [NoWrite EXCEPT !.phase = "sent", !.merge = merge,
                          !.data = staged[s], !.base = base[s]]]
    /\ UNCHANGED <<cloud, status, snapshots, read, due, lost, faults>>

\* Sync with data staged
SyncWrites(s) == Sends(s, TRUE) /\ UNCHANGED acts

\* A Save the game asks for; with nothing staged it does nothing.
Save(s) == Sends(s, FALSE) /\ GameActs

\* The transform: a write that merges marks its data as saved, and merges
\* what it has found, before anything is written.
Transform(s) ==
    LET request == write[s]
        diff == ComputeDiffSnapshot(request.data, request.base, cloud)
    IN  /\ \/ request.phase = "sent"
           \/ request.phase = "ran" /\ cloud # request.seen
        /\ ~IsCompleteWipe(request.data)
        /\ write' = [write EXCEPT ![s].phase = "ran", ![s].seen = cloud]
        /\ IF request.merge
           THEN /\ base' = [base EXCEPT ![s] =
                      MergeDiffSnapshot(MarkedBase(@, staged[s], request.data), diff)]
                /\ staged' = [staged EXCEPT ![s] = MarkedStaged(@, request.data)]
           ELSE UNCHANGED snapshots
        /\ UNCHANGED <<cloud, status, read, orphan, due, lost, acts, faults>>

Carries(request, key, value) ==
    request.phase = "ran" /\ request.data.at[key] = value

\* what the datastore holds, or has held, is no longer due
Landed(s, request) ==
    due' = [due EXCEPT ![s] = [key \in Keys |->
               IF Carries(request, key, @[key]) THEN Unstaged ELSE @[key]]]

\* what was marked as saved and will not be written
GivenUp(s, request) ==
    lost' = [lost EXCEPT ![s] = @ \cup
               {key \in Keys : request.merge /\ Carries(request, key, due[s][key])}]

WriteLands(s) ==
    /\ write[s].phase = "ran"
    /\ cloud = write[s].seen
    /\ cloud' = WriteMerge(write[s].data, write[s].seen)
    /\ write' = [write EXCEPT ![s] = NoWrite]
    /\ Landed(s, write[s])
    /\ UNCHANGED <<status, snapshots, read, orphan, lost, acts, faults>>

\* RemoveAsync; a merging write then marks its data, what was staged in the
\* sub-store since the wipe included, and reads.
RemoveLands(s) ==
    /\ write[s].phase = "sent"
    /\ IsCompleteWipe(write[s].data)
    /\ cloud' = Missing
    /\ write' = [write EXCEPT ![s] = NoWrite]
    /\ IF write[s].merge
       THEN /\ Ask(s, Missing)
            /\ base' = [base EXCEPT ![s] = MarkedBase(@, staged[s], write[s].data)]
            /\ staged' = [staged EXCEPT ![s] = MarkedStaged(@, write[s].data)]
            /\ lost' = [lost EXCEPT ![s] = @ \cup
                  {key \in SavedKeys(staged[s], write[s].data) :
                      due[s][key] = write[s].data.at[key]}]
       ELSE UNCHANGED <<read, snapshots, lost>>
    /\ UNCHANGED <<status, orphan, due, acts, faults>>

WriteFails(s) ==
    /\ Fault
    /\ write[s].phase # "idle"
    /\ write' = [write EXCEPT ![s] = NoWrite]
    /\ GivenUp(s, write[s])
    /\ UNCHANGED <<cloud, status, snapshots, read, orphan, due, acts>>

OrphanLands(s) ==
    /\ orphan[s].phase # "idle"
    /\ IF IsCompleteWipe(orphan[s].data)
       THEN cloud' = Missing
       ELSE /\ cloud = orphan[s].seen
            /\ cloud' = WriteMerge(orphan[s].data, orphan[s].seen)
    /\ orphan' = [orphan EXCEPT ![s] = NoWrite]
    /\ Landed(s, orphan[s])
    /\ UNCHANGED <<status, snapshots, read, write, lost, acts, faults>>

\* The transform runs again and returns nil: `promise:IsRejected()`.
OrphanCancelled(s) ==
    /\ orphan[s].phase = "ran"
    /\ cloud # orphan[s].seen
    /\ orphan' = [orphan EXCEPT ![s] = NoWrite]
    /\ GivenUp(s, orphan[s])
    /\ UNCHANGED <<cloud, status, snapshots, read, write, due, acts, faults>>

OrphanFails(s) ==
    /\ Fault
    /\ orphan[s].phase # "idle"
    /\ orphan' = [orphan EXCEPT ![s] = NoWrite]
    /\ GivenUp(s, orphan[s])
    /\ UNCHANGED <<cloud, status, snapshots, read, write, due, acts>>

-----------------------------------------------------------------------------

Game(s) ==
    \/ \E key \in Keys, value \in Values \cup {Deleted} : Store(s, key, value)
    \/ \E target \in Stages : Wipe(s, target)
    \/ \E target \in Stages, table \in Table :
          /\ \E key \in Keys : StageOf(key) \in Subtree(target) /\ table[key] # Absent
          /\ Overwrite(s, target, table)

Datastore(s) ==
    \/ ReadReturns(s)
    \/ Transform(s) \/ WriteLands(s) \/ RemoveLands(s)
    \/ OrphanLands(s) \/ OrphanCancelled(s)

Fails(s) == ReadFails(s) \/ WriteFails(s) \/ OrphanFails(s)

Next ==
    \E s \in Servers :
        \/ Game(s) \/ Datastore(s) \/ Fails(s)
        \/ Load(s) \/ SyncReads(s)
        \/ SyncWrites(s) \/ Save(s)

Spec == Init /\ [][Next]_vars

\* Every request is answered, and the autosave loop goes on calling Sync.
FairSpec ==
    /\ Spec
    /\ \A s \in Servers :
          /\ WF_vars(ReadReturns(s))
          /\ WF_vars(Transform(s) \/ WriteLands(s) \/ RemoveLands(s))
          /\ WF_vars(OrphanLands(s) \/ OrphanCancelled(s))
          /\ WF_vars(SyncReads(s))
          /\ WF_vars(SyncWrites(s))

-----------------------------------------------------------------------------
(* Properties.                                                             *)

\* "Same as saving the data": a change of the datastore touches only what a
\* request of some server had staged, and keeps every other key as it was
\* (WriteMerge on the value UpdateAsync read, lines 227-317 of the writer).
WritesItsOwn ==
    [][\A key \in Keys : cloud'.at[key] # cloud.at[key] =>
          \E s \in Servers : \E request \in {write[s], orphan[s]} :
              /\ request.phase # "idle"
              /\ \/ request.data.mode[StageOf(key)] = "wipe"
                 \/ IsCompleteWipe(request.data)
                 \/ cloud'.at[key] = Written(request.data.at[key])]_vars

\* Whatever a server has seen before and has staged, a read of a key that
\* exists leaves it with what the datastore held (_promiseGetAsyncNoCache).
ReadsRefresh ==
    [][\A s \in Servers :
          ReadReturns(s) /\ read[s].seen.exists => base'[s] = read[s].seen.at]_vars

Held(s, key) ==
    \/ staged[s].at[key] = due[s][key]
    \/ Carries(write[s], key, due[s][key])
    \/ Carries(orphan[s], key, due[s][key])

\* What the game stored stays staged, or in a request on its way, until a
\* profile holds it, whatever it stores and syncs meanwhile
\* (MarkDataAsSaved); but for what a write marked and never wrote.
StoredIsHeld ==
    \A s \in Servers, key \in Keys :
        due[s][key] # Unstaged => Held(s, key) \/ key \in lost[s]

\* Once the games are quiet, every server that has loaded shows what the
\* datastore holds, unless a root was wiped: Sync "also loads fresh data from
\* the datastore".
AllAgree ==
    [](\A s \in Servers : staged[s].mode["root"] # "wipe") =>
        <>[](\A s \in Servers :
                status[s] = "loaded" => View(base[s], staged[s]) = cloud.at)

=============================================================================
