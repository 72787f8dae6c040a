------------------------- MODULE PlayerDataStoreManager -------------------------
(***************************************************************************)
(* PlayerDataStoreManager, for one user id on one server: it opens the     *)
(* player's DataStore, hands it to callers (plain, or through a counted    *)
(* PlayerDataStoreHandle), removes it from many directions, and waits for  *)
(* every removal when the server closes.                                   *)
(*                                                                         *)
(* A removal runs the removing callbacks, then SaveAndCloseSession, and    *)
(* then, whatever came of them, destroys the store.  Until then the next   *)
(* store of the player may not be created, and callers wait.               *)
(*                                                                         *)
(* A store is named after the caller whose call created it.  What a        *)
(* DataStore does inside is the subject of DataStoreSession: here a load   *)
(* is one step, and of its requests there are at most one save and one     *)
(* close in flight.  Calls made from inside a removing callback are left   *)
(* out.                                                                    *)
(***************************************************************************)
EXTENDS Naturals, FiniteSets

CONSTANTS
    Callers,         \* calls of PromiseDataStore and PromiseDataStoreHandle
    Handles,         \* the calls of PromiseDataStoreHandle
    NoStore,         \* _datastores[userId] == nil
    Other,           \* any session of another server
    CallbacksThrow,  \* a removing callback may raise an error
    MaxSaves,        \* bound: saves started by the timer or the game
    MaxFaults        \* bound: failures, and locks taken by other servers

ASSUME ManagerAssumption ==
    /\ Handles \subseteq Callers
    /\ IsFiniteSet(Handles)
    /\ {NoStore, Other} \cap Callers = {} /\ NoStore # Other
    /\ CallbacksThrow \in BOOLEAN
    /\ MaxSaves \in Nat
    /\ MaxFaults \in Nat

VARIABLES
    present,       \* the player is in this server
    datastore,     \* _datastores[userId]
    removing,      \* _removing[userId]
    phase,         \* how far each store has come
    load,          \* the first load of each store
    save,          \* its save in flight
    cancelled,     \* the promise of a save still in flight is rejected
    close,         \* the request of SaveAndCloseSession
    holder,        \* the session that holds the lock of the stored profile
    handleCount,   \* _handleCounts[userId]
    call,          \* what has become of each call
    pendingSaves,  \* stores with a save promise in _pendingSaves
    shutdown,      \* the promise of PromiseAllSaves
    awaited,       \* the promises it still waits for
    before,        \* history: the stores that were open when it was called
    saves, faults  \* how much of the two bounds is used

vars == <<present, datastore, removing, phase, load, save, cancelled, close,
          holder, handleCount, call, pendingSaves, shutdown, awaited, before,
          saves, faults>>

-----------------------------------------------------------------------------

\* removalPromise is pending, and in _removingPromises
BeingRemoved == {"callbacks", "closing"}

\* created and not destroyed; "latched" is a store whose removing callback
\* raised: it stays in _datastores and _removing for good
Alive == {"open", "latched"} \cup BeingRemoved

LiveStores == {n \in Callers : phase[n] \in Alive}

TypeOK ==
    /\ present \in BOOLEAN
    /\ datastore \in Callers \cup {NoStore}
    /\ removing \in BOOLEAN
    /\ phase \in [Callers -> {"none", "settled"} \cup Alive]
    /\ load \in [Callers -> {"none", "loaded", "failed"}]
    /\ save \in [Callers -> {"idle", "issued", "transformed"}]
    /\ cancelled \in [Callers -> BOOLEAN]
    /\ close \in [Callers -> {"idle", "issued", "transformed"}]
    /\ holder \in Callers \cup {NoStore, Other}
    /\ handleCount \in Nat
    /\ call \in [Callers -> {"idle", "waiting", "polling", "granted",
                             "released", "rejected"}]
    /\ pendingSaves \subseteq Callers
    /\ shutdown \in {"none", "closing", "done", "raised"}
    /\ awaited \subseteq {"removal", "save"} \X Callers
    /\ before \subseteq Callers
    /\ saves \in 0 .. MaxSaves
    /\ faults \in 0 .. MaxFaults

Init ==
    /\ present = FALSE
    /\ datastore = NoStore
    /\ removing = FALSE
    /\ phase = [n \in Callers |-> "none"]
    /\ load = [n \in Callers |-> "none"]
    /\ save = [n \in Callers |-> "idle"]
    /\ cancelled = [n \in Callers |-> FALSE]
    /\ close = [n \in Callers |-> "idle"]
    /\ holder = NoStore
    /\ handleCount = 0
    /\ call = [c \in Callers |-> "idle"]
    /\ pendingSaves = {}
    /\ shutdown = "none"
    /\ awaited = {}
    /\ before = {}
    /\ saves = 0
    /\ faults = 0

Fault == faults < MaxFaults /\ faults' = faults + 1

-----------------------------------------------------------------------------
(* Removal                                                                 *)

\* _removePlayerDataStore, up to the promises of the removing callbacks.
RemovePlayerDataStoreNow ==
    IF datastore = NoStore \/ removing
    THEN UNCHANGED <<datastore, removing, phase>>
    ELSE /\ removing' = TRUE
         /\ \/ /\ phase' = [phase EXCEPT ![datastore] = "callbacks"]
               /\ datastore' = NoStore
            \/ /\ CallbacksThrow
               /\ phase' = [phase EXCEPT ![datastore] = "latched"]
               /\ UNCHANGED datastore

Waiting == {c \in Callers : call[c] = "waiting"}

\* The removal settles: the store is destroyed, which rejects the promises it
\* still has, and the waiting callers go on at once.  The first of them
\* creates the next store.
Settle(n) ==
    /\ removing' = FALSE
    /\ IF Waiting = {}
       THEN /\ phase' = [phase EXCEPT ![n] = "settled"]
            /\ UNCHANGED datastore
       ELSE \E c \in Waiting :
               /\ datastore' = c
               /\ phase' = [phase EXCEPT ![n] = "settled", ![c] = "open"]
    /\ call' = [c \in Callers |-> IF c \in Waiting THEN "granted" ELSE call[c]]
    /\ cancelled' = [cancelled EXCEPT ![n] = TRUE]
    /\ pendingSaves' = pendingSaves \ {n}
    /\ awaited' = awaited \ {<<"removal", n>>, <<"save", n>>}

\* A removing callback rejected: SaveAndCloseSession is never called.
CallbacksReject(n) ==
    /\ phase[n] = "callbacks"
    /\ Fault
    /\ Settle(n)
    /\ UNCHANGED <<present, load, save, close, holder, handleCount, shutdown,
                   before, saves>>

\* Mutant: SaveAndCloseSession waits for a load that has already failed.
CallbacksResolveAnyway(n) ==
    /\ phase[n] = "callbacks"
    /\ phase' = [phase EXCEPT ![n] = "closing"]
    /\ UNCHANGED <<present, datastore, removing, load, save, cancelled, close,
                   holder, handleCount, call, pendingSaves, shutdown, awaited,
                   before, saves, faults>>

\* SaveAndCloseSession is called; it rejects when the load has failed.
CallbacksResolve(n) ==
    /\ phase[n] = "callbacks"
    /\ IF load[n] = "failed"
       THEN Settle(n)
       ELSE /\ phase' = [phase EXCEPT ![n] = "closing"]
            /\ UNCHANGED <<datastore, removing, call, cancelled, pendingSaves, awaited>>
    /\ UNCHANGED <<present, load, save, close, holder, handleCount, shutdown,
                   before, saves, faults>>

\* The store is loaded and its saving callbacks have resolved: the close is
\* issued, and replaces a save in flight.
IssueClose(n) ==
    /\ phase[n] = "closing"
    /\ load[n] = "loaded"
    /\ close[n] = "idle"
    /\ close' = [close EXCEPT ![n] = "issued"]
    /\ cancelled' = [cancelled EXCEPT ![n] = TRUE]
    /\ pendingSaves' = pendingSaves \ {n}
    /\ awaited' = awaited \ {<<"save", n>>}
    /\ UNCHANGED <<present, datastore, removing, phase, load, save, holder,
                   handleCount, call, shutdown, before, saves, faults>>

\* PlayerRemoving
PlayerRemoving ==
    /\ present
    /\ present' = FALSE
    /\ RemovePlayerDataStoreNow
    /\ UNCHANGED <<load, save, cancelled, close, holder, handleCount, call,
                   pendingSaves, shutdown, awaited, before, saves, faults>>

PlayerAdded ==
    /\ ~present
    /\ present' = TRUE
    /\ UNCHANGED <<datastore, removing, phase, load, save, cancelled, close,
                   holder, handleCount, call, pendingSaves, shutdown, awaited,
                   before, saves, faults>>

\* RemovePlayerDataStore, and SessionCloseRequested from another server
RemovePlayerDataStore ==
    /\ datastore # NoStore /\ ~removing
    /\ RemovePlayerDataStoreNow
    /\ UNCHANGED <<present, load, save, cancelled, close, holder, handleCount,
                   call, pendingSaves, shutdown, awaited, before, saves, faults>>

-----------------------------------------------------------------------------
(* Callers                                                                 *)

\* Mutant: a player's next store does not wait for the last one.
MayOpenAtOnce == TRUE

\* GetDataStore: nil while the player is removing.
MayOpen == ~removing

\* _promiseDataStoreByUserId, for call c
Open(c) ==
    IF MayOpen
    THEN /\ call' = [call EXCEPT ![c] = "granted"]
         /\ IF datastore = NoStore
            THEN /\ datastore' = c
                 /\ phase' = [phase EXCEPT ![c] = "open"]
            ELSE UNCHANGED <<datastore, phase>>
    ELSE /\ call' = [call EXCEPT ![c] =
              IF \E n \in Callers : phase[n] \in BeingRemoved
              THEN "waiting" ELSE "polling"]
         /\ UNCHANGED <<datastore, phase>>

\* For a player in this server: a caller that acts on an absent one is told
\* to use a handle.
PromiseDataStore(c) ==
    /\ c \notin Handles
    /\ call[c] = "idle"
    /\ present
    /\ Open(c)
    /\ UNCHANGED <<present, removing, load, save, cancelled, close, holder,
                   handleCount, pendingSaves, shutdown, awaited, before, saves,
                   faults>>

\* Counted before the open rather than after.
PromiseDataStoreHandle(c) ==
    /\ c \in Handles
    /\ call[c] = "idle"
    /\ handleCount' = handleCount + 1
    /\ Open(c)
    /\ UNCHANGED <<present, removing, load, save, cancelled, close, holder,
                   pendingSaves, shutdown, awaited, before, saves, faults>>

ReleaseDataStoreHandle ==
    /\ handleCount' = handleCount - 1
    /\ IF handleCount > 1 \/ present
       THEN UNCHANGED <<datastore, removing, phase>>
       ELSE RemovePlayerDataStoreNow

\* PlayerDataStoreHandle.Destroy; a second time it does nothing.
DestroyHandle(c) ==
    /\ c \in Handles
    /\ call[c] = "granted"
    /\ call' = [call EXCEPT ![c] = "released"]
    /\ ReleaseDataStoreHandle
    /\ UNCHANGED <<present, load, save, cancelled, close, holder, pendingSaves,
                   shutdown, awaited, before, saves, faults>>

\* Fifteen seconds without an end of the removal: the open fails, and a handle
\* gives its count back.
PollTimesOut(c) ==
    /\ call[c] = "polling"
    /\ call' = [call EXCEPT ![c] = "rejected"]
    /\ IF c \in Handles
       THEN ReleaseDataStoreHandle
       ELSE UNCHANGED <<handleCount, datastore, removing, phase>>
    /\ UNCHANGED <<present, load, save, cancelled, close, holder, pendingSaves,
                   shutdown, awaited, before, saves, faults>>

-----------------------------------------------------------------------------
(* The store and its requests                                              *)

\* A write landed: transforms that ran on the old profile run again.
Rerun(requests) ==
    [n \in Callers |-> IF requests[n] = "transformed" THEN "issued" ELSE requests[n]]

LoadSucceeds(n) ==
    /\ phase[n] \in Alive
    /\ load[n] = "none"
    /\ load' = [load EXCEPT ![n] = "loaded"]
    /\ holder' = n
    /\ save' = Rerun(save)
    /\ close' = Rerun(close)
    /\ UNCHANGED <<present, datastore, removing, phase, cancelled, handleCount,
                   call, pendingSaves, shutdown, awaited, before, saves, faults>>

\* An open store is removed (PromiseSessionLockingFailed); SaveAndCloseSession
\* rejects.
LoadFails(n) ==
    /\ phase[n] \in Alive
    /\ load[n] = "none"
    /\ Fault
    /\ load' = [load EXCEPT ![n] = "failed"]
    /\ \/ /\ phase[n] = "open"
          /\ RemovePlayerDataStoreNow
          /\ UNCHANGED <<call, cancelled, pendingSaves, awaited>>
       \/ /\ phase[n] = "closing"
          /\ Settle(n)
       \/ /\ phase[n] \in {"callbacks", "latched"}
          /\ UNCHANGED <<datastore, removing, phase, call, cancelled, pendingSaves, awaited>>
    /\ UNCHANGED <<present, save, close, holder, handleCount, shutdown, before, saves>>

\* The autosave timer or the game saves.  _saveMaid holds this save from now
\* on: the promise of a close in flight is rejected, and the removal ends.
\* Only an open store still tells _pendingSaves.
Save(n) ==
    /\ phase[n] \in Alive
    /\ load[n] = "loaded"
    /\ save[n] = "idle"
    /\ saves < MaxSaves
    /\ saves' = saves + 1
    /\ save' = [save EXCEPT ![n] = "issued"]
    /\ IF close[n] = "idle"
       THEN /\ cancelled' = [cancelled EXCEPT ![n] = FALSE]
            /\ pendingSaves' = pendingSaves \cup (IF phase[n] = "open" THEN {n} ELSE {})
            /\ UNCHANGED <<datastore, removing, phase, call, awaited>>
       ELSE Settle(n)
    /\ UNCHANGED <<present, load, close, holder, handleCount, shutdown, before, faults>>

\* The promise of the save settles.
SaveEnds(n) ==
    /\ save' = [save EXCEPT ![n] = "idle"]
    /\ pendingSaves' = pendingSaves \ {n}
    /\ awaited' = awaited \ {<<"save", n>>}

Free(n) == holder \in {n, NoStore}

\* The transform of a save.  A destroyed store has no transform any more.
TransformSave(n) ==
    /\ phase[n] \in Alive
    /\ save[n] = "issued"
    /\ Free(n) /\ ~cancelled[n]
    /\ save' = [save EXCEPT ![n] = "transformed"]
    /\ UNCHANGED <<present, datastore, removing, phase, load, cancelled, close,
                   holder, handleCount, call, pendingSaves, shutdown, awaited,
                   before, saves, faults>>

\* Replaced by the close: nothing is written.
SaveSuperseded(n) ==
    /\ phase[n] \in Alive
    /\ save[n] = "issued"
    /\ Free(n) /\ cancelled[n]
    /\ save' = [save EXCEPT ![n] = "idle"]
    /\ UNCHANGED <<present, datastore, removing, phase, load, cancelled, close,
                   holder, handleCount, call, pendingSaves, shutdown, awaited,
                   before, saves, faults>>

\* Another session holds the lock: SessionStolen removes an open store.
SaveStolen(n) ==
    /\ phase[n] \in Alive
    /\ save[n] = "issued"
    /\ ~Free(n)
    /\ SaveEnds(n)
    /\ IF phase[n] = "open"
       THEN RemovePlayerDataStoreNow
       ELSE UNCHANGED <<datastore, removing, phase>>
    /\ UNCHANGED <<present, load, cancelled, close, holder, handleCount, call,
                   shutdown, before, saves, faults>>

CommitSave(n) ==
    /\ save[n] = "transformed"
    /\ holder' = n
    /\ save' = [Rerun(save) EXCEPT ![n] = "idle"]
    /\ close' = Rerun(close)
    /\ pendingSaves' = pendingSaves \ {n}
    /\ awaited' = awaited \ {<<"save", n>>}
    /\ UNCHANGED <<present, datastore, removing, phase, load, cancelled,
                   handleCount, call, shutdown, before, saves, faults>>

SaveFails(n) ==
    /\ save[n] # "idle"
    /\ IF phase[n] \in Alive THEN Fault ELSE UNCHANGED faults
    /\ SaveEnds(n)
    /\ UNCHANGED <<present, datastore, removing, phase, load, cancelled, close,
                   holder, handleCount, call, shutdown, before, saves>>

TransformClose(n) ==
    /\ phase[n] \in Alive
    /\ close[n] = "issued"
    /\ Free(n)
    /\ close' = [close EXCEPT ![n] = "transformed"]
    /\ UNCHANGED <<present, datastore, removing, phase, load, save, cancelled,
                   holder, handleCount, call, pendingSaves, shutdown, awaited,
                   before, saves, faults>>

\* Another session holds the lock: the close resolves, nothing is written.
CloseStolen(n) ==
    /\ phase[n] \in Alive
    /\ close[n] = "issued"
    /\ ~Free(n)
    /\ close' = [close EXCEPT ![n] = "idle"]
    /\ Settle(n)
    /\ UNCHANGED <<present, load, save, holder, handleCount, shutdown, before,
                   saves, faults>>

\* The write of a close may still land when its store is already destroyed.
CommitClose(n) ==
    /\ close[n] = "transformed"
    /\ holder' = NoStore
    /\ close' = [Rerun(close) EXCEPT ![n] = "idle"]
    /\ save' = Rerun(save)
    /\ IF phase[n] \in Alive
       THEN Settle(n)
       ELSE UNCHANGED <<datastore, removing, phase, call, cancelled, pendingSaves, awaited>>
    /\ UNCHANGED <<present, load, handleCount, shutdown, before, saves, faults>>

CloseFails(n) ==
    /\ close[n] # "idle"
    /\ close' = [close EXCEPT ![n] = "idle"]
    /\ IF phase[n] \in Alive
       THEN Fault /\ Settle(n)
       ELSE UNCHANGED <<faults, datastore, removing, phase, call, cancelled,
                        pendingSaves, awaited>>
    /\ UNCHANGED <<present, load, save, holder, handleCount, shutdown, before, saves>>

\* Another server takes the lock, or gives it back.
OtherServer(session) ==
    /\ holder # session
    /\ IF session = Other THEN Fault ELSE holder = Other /\ UNCHANGED faults
    /\ holder' = session
    /\ save' = Rerun(save)
    /\ close' = Rerun(close)
    /\ UNCHANGED <<present, datastore, removing, phase, load, cancelled,
                   handleCount, call, pendingSaves, shutdown, awaited, before, saves>>

-----------------------------------------------------------------------------
(* Closing the server                                                      *)

\* Mutant: only the saves that have already begun are waited for.
AwaitSavesOnly(phases) == {"save"} \X pendingSaves

PromisesToAwait(phases) ==
    {<<"removal", n>> : n \in {m \in Callers : phases[m] \in BeingRemoved}}
        \cup ({"save"} \X pendingSaves)

\* A removing callback that raises ends PromiseAllSaves with its error.
PromiseAllSaves ==
    /\ shutdown = "none"
    /\ before' = LiveStores
    /\ RemovePlayerDataStoreNow
    /\ IF datastore # NoStore /\ ~removing /\ datastore' = datastore
       THEN /\ shutdown' = "raised"
            /\ UNCHANGED awaited
       ELSE /\ shutdown' = "closing"
            /\ awaited' = PromisesToAwait(phase')
    /\ UNCHANGED <<present, load, save, cancelled, close, holder, handleCount,
                   call, pendingSaves, saves, faults>>

AllSaved ==
    /\ shutdown = "closing"
    /\ awaited = {}
    /\ shutdown' = "done"
    /\ UNCHANGED <<present, datastore, removing, phase, load, save, cancelled,
                   close, holder, handleCount, call, pendingSaves, awaited,
                   before, saves, faults>>

-----------------------------------------------------------------------------

CallStep(c) ==
    \/ PromiseDataStore(c)
    \/ PromiseDataStoreHandle(c)
    \/ DestroyHandle(c)
    \/ PollTimesOut(c)

StoreStep(n) ==
    \/ CallbacksReject(n)
    \/ CallbacksResolve(n)
    \/ IssueClose(n)
    \/ LoadSucceeds(n)
    \/ LoadFails(n)
    \/ Save(n)
    \/ TransformSave(n)
    \/ SaveSuperseded(n)
    \/ SaveStolen(n)
    \/ CommitSave(n)
    \/ SaveFails(n)
    \/ TransformClose(n)
    \/ CloseStolen(n)
    \/ CommitClose(n)
    \/ CloseFails(n)

Next ==
    \/ \E c \in Callers : CallStep(c) \/ StoreStep(c)
    \/ PlayerAdded
    \/ PlayerRemoving
    \/ RemovePlayerDataStore
    \/ \E session \in {Other, NoStore} : OtherServer(session)
    \/ PromiseAllSaves
    \/ AllSaved

Spec == Init /\ [][Next]_vars

\* The removing callbacks settle, a load ends (see DataStoreSession) and
\* UpdateAsync answers.
FairSpec ==
    /\ Spec
    /\ \A n \in Callers :
         /\ WF_vars(CallbacksResolve(n))
         /\ WF_vars(IssueClose(n))
         /\ WF_vars(LoadSucceeds(n))
         /\ WF_vars(TransformClose(n) \/ CloseStolen(n))
         /\ WF_vars(CommitClose(n))
         /\ WF_vars(TransformSave(n) \/ SaveSuperseded(n) \/ SaveStolen(n))
         /\ WF_vars(CommitSave(n))
    /\ WF_vars(AllSaved)

-----------------------------------------------------------------------------
(* What holds                                                              *)

\* A player never has two live stores on a server: the next one is created
\* only when the removal of the last has settled, whatever started it and
\* however it ends.
OneLiveStore == \A m, n \in LiveStores : m = n

\* The calls for a handle that _handleCounts must count.
Holding == {c \in Handles : call[c] \in {"granted", "waiting", "polling"}}

\* A handle closes a session only if the player is absent and no other handle
\* holds the store or waits for it.
HandlesKeepStore ==
    [][\A c \in Handles :
         /\ call[c] = "granted" /\ call'[c] = "released"
         /\ phase' # phase
         => ~present /\ Holding = {c}]_vars

\* A store that a handle opened does not stay open when the player is gone
\* and every handle is destroyed.
HandlesLeaveNoStore ==
    ~present /\ ~removing /\ datastore \in Handles => Holding # {}

\* When PromiseAllSaves has resolved, every store that was open when it was
\* called is destroyed, however long its removal was already on its way; a
\* store whose removing callback raised stays as it is.
NoSaveLeftBehind ==
    shutdown = "done" =>
        \A n \in before : phase[n] \in {"settled", "latched"}

\* A closing server stops waiting.
CloseEnds == shutdown = "closing" ~> shutdown = "done"

===============================================================================
