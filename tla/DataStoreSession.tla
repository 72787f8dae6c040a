--------------------------- MODULE DataStoreSession ---------------------------
(***************************************************************************)
(* DataStore with session locking: several sessions (one DataStore object  *)
(* each, on different servers) load, save, sync, wipe and close one key of *)
(* a Roblox datastore.                                                     *)
(*                                                                         *)
(* UpdateAsync is the only way a lock is read or written.  Its transform   *)
(* runs on the value it read; the write lands later, and only if the key   *)
(* has not changed since, else the transform runs again on the new value;  *)
(* it may also fail with nothing written.  A request is therefore          *)
(*                                                                         *)
(*    issued --transform--> transformed --commit--> idle                   *)
(*                                                                         *)
(* and falls back to issued when another write lands first.  What the      *)
(* transform does to the session is done as soon as it runs: a load        *)
(* resolves, a close resolves the closed promise, a sync unstages its data.*)
(***************************************************************************)
EXTENDS DataStoreLock, Naturals

CONSTANTS
    Slots,        \* places for save requests of one session in flight
    Wipe,         \* DataStoreDeleteToken staged at the root
    Stageable,    \* what the game stages: values, or Wipe
    Kinds,        \* which of Save, Sync and SaveAndCloseSession are called
    Messaging,    \* SetSessionMessagingEnabled
    MaxAttempts,  \* SetLoadRetryOptions: attempts before the lock is stolen
    MaxCalls,     \* bound: calls of Save, Sync and SaveAndCloseSession
    MaxFaults     \* bound: failed requests, lost messages, stopped servers

ASSUME SessionAssumption ==
    /\ Wipe \notin Values \cup {Nothing}
    /\ Stageable \subseteq Values \cup {Wipe}
    /\ Kinds \subseteq {"save", "sync", "close"}
    /\ Messaging \in BOOLEAN
    /\ MaxAttempts \in Nat \ {0}
    /\ MaxCalls \in Nat
    /\ MaxFaults \in Nat

VARIABLES
    stored,         \* the profile under the key
    alive,          \* the DataStore is not destroyed and its server runs
    first,          \* _firstLoadPromise
    load,           \* the load ladder in progress
    lockingFailed,  \* _promiseSessionLockingFailed is resolved
    base,           \* _baseDataSnapshot
    staged,         \* _saveDataSnapshot
    save,           \* save requests in flight
    closed,         \* _sessionClosedPromise is fulfilled
    stolen,         \* SessionStolen has fired
    waiting,        \* sessions to tell when the closed promise resolves
    mail,           \* session messages in flight
    calls, faults   \* how much of the two bounds is used

vars == <<stored, alive, first, load, lockingFailed, base, staged, save,
          closed, stolen, waiting, mail, calls, faults>>

-----------------------------------------------------------------------------

Data == Values \cup {Nothing}

Ladder == [phase : {"idle", "issued", "transformed", "asking", "delay", "backoff"},
           attempt : 1 .. MaxAttempts + 1,
           asks : BOOLEAN,      \* this attempt may still message the holder
           settled : BOOLEAN,   \* the load promise is already resolved
           blocker : Sessions \cup {NoSession}]

NoLoad == [phase |-> "idle", attempt |-> 1, asks |-> FALSE,
           settled |-> FALSE, blocker |-> NoSession]

Request == [st : {"idle", "issued", "transformed"},
            kind : {"save", "sync", "close"},
            data : Data \cup {Wipe},   \* the writer's save snapshot
            seen : Data,               \* the writer's base snapshot
            cancelled : BOOLEAN,       \* its promise is rejected
            outdated : BOOLEAN]        \* history: a newer save has landed

NoRequest == [st |-> "idle", kind |-> "save", data |-> Nothing, seen |-> Nothing,
              cancelled |-> FALSE, outdated |-> FALSE]

Message == [type : {"close-session", "close-session-complete"},
            from : Sessions, to : Sessions]

CloseSession(s, t) == [type |-> "close-session", from |-> s, to |-> t]
CloseSessionComplete(s, t) == [type |-> "close-session-complete", from |-> s, to |-> t]

TypeOK ==
    /\ stored \in Profile
    /\ alive \in [Sessions -> BOOLEAN]
    /\ first \in [Sessions -> {"none", "pending", "fulfilled", "rejected"}]
    /\ load \in [Sessions -> Ladder]
    /\ lockingFailed \in [Sessions -> BOOLEAN]
    /\ base \in [Sessions -> Data]
    /\ staged \in [Sessions -> Data \cup {Wipe}]
    /\ save \in [Sessions -> [Slots -> Request]]
    /\ closed \in [Sessions -> BOOLEAN]
    /\ stolen \in [Sessions -> BOOLEAN]
    /\ waiting \in [Sessions -> SUBSET Sessions]
    /\ mail \in SUBSET Message
    /\ calls \in 0 .. MaxCalls
    /\ faults \in 0 .. MaxFaults

Init ==
    /\ stored = Absent
    /\ alive = [s \in Sessions |-> TRUE]
    /\ first = [s \in Sessions |-> "none"]
    /\ load = [s \in Sessions |-> NoLoad]
    /\ lockingFailed = [s \in Sessions |-> FALSE]
    /\ base = [s \in Sessions |-> Nothing]
    /\ staged = [s \in Sessions |-> Nothing]
    /\ save = [s \in Sessions |-> [k \in Slots |-> NoRequest]]
    /\ closed = [s \in Sessions |-> FALSE]
    /\ stolen = [s \in Sessions |-> FALSE]
    /\ waiting = [s \in Sessions |-> {}]
    /\ mail = {}
    /\ calls = 0
    /\ faults = 0

-----------------------------------------------------------------------------
(* A write landed: every transform that ran on the old value runs again.   *)

Rerun(request) ==
    IF request.st = "transformed" THEN [request EXCEPT !.st = "issued"] ELSE request

RerunLoad(ladder) ==
    IF ladder.phase = "transformed" THEN [ladder EXCEPT !.phase = "issued"] ELSE ladder

-----------------------------------------------------------------------------
(* The load ladder                                                         *)

NewLoad == [NoLoad EXCEPT !.phase = "issued", !.asks = Messaging]

\* canStealLock: TRUE only in the load that follows the last attempt.
CanSteal(s) == load[s].attempt > MaxAttempts

\* The attempt's promise is rejected: wait and retry, steal after the last
\* attempt, or nobody listens any more.
AttemptFailed(ladder) ==
    IF ladder.settled \/ ladder.attempt > MaxAttempts THEN NoLoad
    ELSE IF ladder.attempt < MaxAttempts THEN [ladder EXCEPT !.phase = "backoff"]
    ELSE [ladder EXCEPT !.phase = "issued", !.attempt = @ + 1, !.asks = FALSE]

PromiseViewUpToDate(s) ==
    /\ alive[s]
    /\ first[s] = "none"
    /\ first' = [first EXCEPT ![s] = "pending"]
    /\ load' = [load EXCEPT ![s] = NewLoad]
    /\ UNCHANGED <<stored, alive, lockingFailed, base, staged, save, closed,
                   stolen, waiting, mail, calls, faults>>

\* The transform finds a lock it may take: the load resolves with the data
\* it read, before the write that takes the lock has landed.
AcquireLock(s) ==
    /\ alive[s]
    /\ load[s].phase = "issued"
    /\ Acquirable(stored, s, CanSteal(s))
    /\ load' = [load EXCEPT ![s] = [@ EXCEPT !.phase = "transformed", !.settled = TRUE]]
    /\ IF load[s].settled
       THEN UNCHANGED <<first, base>>
       ELSE /\ first' = [first EXCEPT ![s] = "fulfilled"]
            /\ base' = [base EXCEPT ![s] = stored.value]
    /\ closed' = [closed EXCEPT ![s] = FALSE]
    /\ UNCHANGED <<stored, alive, lockingFailed, staged, save, stolen, waiting,
                   mail, calls, faults>>

\* The transform finds another session's lock: it writes nothing, and asks
\* the holder to close when this attempt still may.
LoadBlocked(s) ==
    /\ alive[s]
    /\ load[s].phase = "issued"
    /\ ~Acquirable(stored, s, CanSteal(s))
    /\ IF load[s].asks
       THEN /\ load' = [load EXCEPT ![s] =
                          [@ EXCEPT !.phase = "asking", !.blocker = stored.holder]]
            /\ mail' = mail \cup {CloseSession(s, stored.holder)}
       ELSE /\ load' = [load EXCEPT ![s] = AttemptFailed(@)]
            /\ mail' = mail
    /\ closed' = [closed EXCEPT ![s] = FALSE]
    /\ UNCHANGED <<stored, alive, first, lockingFailed, base, staged, save,
                   stolen, waiting, calls, faults>>

\* Mutant: the load writes back the data of its first transform.
TakenWithOldData(s) == [WithLock(stored, s) EXCEPT !.value = base[s]]

\* The locked profile that the transform of a load returns.
Taken(s) == WithLock(stored, s)

CommitLoad(s) ==
    /\ load[s].phase = "transformed"
    /\ stored' = Taken(s)
    /\ load' = [t \in Sessions |-> IF t = s THEN NoLoad ELSE RerunLoad(load[t])]
    /\ save' = [t \in Sessions |-> [k \in Slots |-> Rerun(save[t][k])]]
    /\ UNCHANGED <<alive, first, lockingFailed, base, staged, closed, stolen,
                   waiting, mail, calls, faults>>

\* The load that follows a graceful close: its error reaches the ladder as
\* the text of another error.
AfterClose(ladder) ==
    Messaging /\ ~ladder.asks /\ ladder.attempt <= MaxAttempts

\* The request fails, which is not lock contention: the load fails at once,
\* unless the error has lost its class on the way.
LoadFailed(s) ==
    /\ load[s].phase \in {"issued", "transformed"}
    /\ IF load[s].settled \/ ~alive[s]
       THEN /\ load' = [load EXCEPT ![s] = NoLoad]
            /\ UNCHANGED <<first, lockingFailed>>
       ELSE IF AfterClose(load[s])
       THEN /\ load' = [load EXCEPT ![s] = AttemptFailed(@)]
            /\ UNCHANGED <<first, lockingFailed>>
       ELSE /\ load' = [load EXCEPT ![s] = NoLoad]
            /\ first' = [first EXCEPT ![s] = IF @ = "pending" THEN "rejected" ELSE @]
            /\ lockingFailed' = [lockingFailed EXCEPT ![s] = TRUE]
    /\ IF alive[s] THEN faults < MaxFaults /\ faults' = faults + 1
                   ELSE UNCHANGED faults
    /\ UNCHANGED <<stored, alive, base, staged, save, closed, stolen, waiting,
                   mail, calls>>

\* Mutant: a request to close has no timeout.
GracefulCloseWaits(s) == FALSE /\ UNCHANGED vars

\* Five seconds without an answer, or the message could not be published.
GracefulCloseFailed(s) ==
    /\ load[s].phase = "asking"
    /\ load' = [load EXCEPT ![s] = AttemptFailed(@)]
    /\ UNCHANGED <<stored, alive, first, lockingFailed, base, staged, save,
                   closed, stolen, waiting, mail, calls, faults>>

\* The pause in which Roblox replicates the release is over: load again, and
\* this time do not ask.
CloseDelayOver(s) ==
    /\ load[s].phase = "delay"
    /\ load' = [load EXCEPT ![s] = [@ EXCEPT !.phase = "issued", !.asks = FALSE]]
    /\ UNCHANGED <<stored, alive, first, lockingFailed, base, staged, save,
                   closed, stolen, waiting, mail, calls, faults>>

RetryLoad(s) ==
    /\ load[s].phase = "backoff"
    /\ load' = [load EXCEPT ![s] =
                  [@ EXCEPT !.phase = "issued", !.attempt = load[s].attempt + 1,
                            !.asks = Messaging]]
    /\ UNCHANGED <<stored, alive, first, lockingFailed, base, staged, save,
                   closed, stolen, waiting, mail, calls, faults>>

-----------------------------------------------------------------------------
(* Session messages                                                        *)

\* close-session: SessionCloseRequested fires, and the requester is answered
\* when the closed promise resolves (at once if it has).
HandleCloseSession(s, m) ==
    /\ alive[s]
    /\ m \in mail /\ m.type = "close-session" /\ m.to = s
    /\ IF closed[s]
       THEN /\ mail' = (mail \ {m}) \cup {CloseSessionComplete(s, m.from)}
            /\ waiting' = waiting
       ELSE /\ mail' = mail \ {m}
            /\ waiting' = [waiting EXCEPT ![s] = @ \cup {m.from}]
    /\ UNCHANGED <<stored, alive, first, load, lockingFailed, base, staged, save,
                   closed, stolen, calls, faults>>

\* close-session-complete: only the pending notification of that sender.
HandleCloseSessionComplete(s, m) ==
    /\ alive[s]
    /\ m \in mail /\ m.type = "close-session-complete" /\ m.to = s
    /\ mail' = mail \ {m}
    /\ load' = IF load[s].phase = "asking" /\ load[s].blocker = m.from
               THEN [load EXCEPT ![s] = [@ EXCEPT !.phase = "delay"]] ELSE load
    /\ UNCHANGED <<stored, alive, first, lockingFailed, base, staged, save,
                   closed, stolen, waiting, calls, faults>>

LoseMessage(m) ==
    /\ m \in mail
    /\ faults < MaxFaults
    /\ faults' = faults + 1
    /\ mail' = mail \ {m}
    /\ UNCHANGED <<stored, alive, first, load, lockingFailed, base, staged, save,
                   closed, stolen, waiting, calls>>

-----------------------------------------------------------------------------
(* Saving                                                                  *)

\* Store, Delete and Overwrite stage a value, and start the first load; Wipe
\* stages the delete token.
Store(s, v) ==
    /\ alive[s]
    /\ staged' = [staged EXCEPT ![s] = v]
    /\ IF first[s] = "none"
       THEN /\ first' = [first EXCEPT ![s] = "pending"]
            /\ load' = [load EXCEPT ![s] = NewLoad]
       ELSE UNCHANGED <<first, load>>
    /\ UNCHANGED <<stored, alive, lockingFailed, base, save, closed, stolen,
                   waiting, mail, calls, faults>>

\* The part of _syncData that runs when the first load and the saving
\* callbacks have resolved, and there is something to write.  _saveMaid now
\* holds this request: the promise of the one before is rejected.
SyncData(s, k, kind) ==
    /\ alive[s]
    /\ first[s] = "fulfilled"
    /\ staged[s] # Nothing \/ kind = "close"
    /\ save[s][k].st = "idle"
    /\ calls < MaxCalls
    /\ calls' = calls + 1
    /\ save' = [save EXCEPT ![s] =
         [j \in Slots |->
            IF j = k THEN [NoRequest EXCEPT !.st = "issued", !.kind = kind,
                                            !.data = staged[s], !.seen = base[s]]
            ELSE IF save[s][j].st = "idle" THEN save[s][j]
            ELSE [save[s][j] EXCEPT !.cancelled = TRUE]]]
    /\ UNCHANGED <<stored, alive, first, load, lockingFailed, base, staged,
                   closed, stolen, waiting, mail, faults>>

\* Sync with nothing staged reads the key again, through the whole ladder.
\* Bound: one ladder of a session at a time.
Resync(s) ==
    /\ "sync" \in Kinds
    /\ alive[s]
    /\ first[s] = "fulfilled"
    /\ staged[s] = Nothing
    /\ load[s].phase = "idle"
    /\ calls < MaxCalls
    /\ calls' = calls + 1
    /\ load' = [load EXCEPT ![s] = NewLoad]
    /\ UNCHANGED <<stored, alive, first, lockingFailed, base, staged, save,
                   closed, stolen, waiting, mail, faults>>

\* Not writer:IsCompleteWipe(): the save is an UpdateAsync.
IsUpdate(request) == request.data # Wipe

Dropped(s, k) == [save EXCEPT ![s][k] = NoRequest]

\* The transform finds another session's lock: nothing is written.
SaveStolen(s, k) ==
    /\ alive[s]
    /\ save[s][k].st = "issued" /\ IsUpdate(save[s][k])
    /\ ~Writable(stored, s)
    /\ save' = Dropped(s, k)
    /\ stolen' = [stolen EXCEPT ![s] = TRUE]
    /\ UNCHANGED <<stored, alive, first, load, lockingFailed, base, staged,
                   closed, waiting, mail, calls, faults>>

\* The transform finds its promise rejected: another save replaced it.
SaveSuperseded(s, k) ==
    /\ alive[s]
    /\ save[s][k].st = "issued" /\ IsUpdate(save[s][k])
    /\ Writable(stored, s)
    /\ save[s][k].cancelled
    /\ save' = Dropped(s, k)
    /\ UNCHANGED <<stored, alive, first, load, lockingFailed, base, staged,
                   closed, stolen, waiting, mail, calls, faults>>

\* Mutant: the transform does not look at its promise.
MayWriteSuperseded(s, request) == Writable(stored, s)

\* The two checks with which the transform of a save begins.
MayWrite(s, request) == Writable(stored, s) /\ ~request.cancelled

\* MarkDataAsSaved and MergeDiffSnapshot, for a profile of one key.
MarkedAsSaved(s, request) ==
    request.kind = "sync" /\ staged[s] = request.data

MergedBase(s, request) ==
    IF stored.value # request.seen THEN stored.value
    ELSE IF MarkedAsSaved(s, request) THEN request.data
    ELSE base[s]

\* The transform computes what to write.  A sync takes its data as saved and
\* a close resolves the closed promise here, before the write has landed.
TransformSave(s, k) ==
    LET request == save[s][k] IN
    /\ alive[s]
    /\ request.st = "issued" /\ IsUpdate(request)
    /\ MayWrite(s, request)
    /\ save' = [save EXCEPT ![s][k] = [@ EXCEPT !.st = "transformed"]]
    /\ IF request.kind = "sync"
       THEN base' = [base EXCEPT ![s] = MergedBase(s, request)]
       ELSE base' = base
    /\ staged' = IF MarkedAsSaved(s, request)
                 THEN [staged EXCEPT ![s] = Nothing] ELSE staged
    /\ IF request.kind = "close"
       THEN /\ closed' = [closed EXCEPT ![s] = TRUE]
            /\ waiting' = [waiting EXCEPT ![s] = {}]
            /\ mail' = mail \cup {CloseSessionComplete(s, t) : t \in waiting[s]}
       ELSE UNCHANGED <<closed, waiting, mail>>
    /\ UNCHANGED <<stored, alive, first, load, lockingFailed, stolen, calls,
                   faults>>

\* What WriteMerge and ToLockedProfile make of the stored profile.
Written(s, request) ==
    ToLockedProfile(
        [stored EXCEPT !.value = IF request.data = Nothing THEN @ ELSE request.data],
        s, request.kind = "close")

\* All requests after a save of s from slot k has landed.
Landed(s, k) ==
    [t \in Sessions |-> [j \in Slots |->
        IF t = s /\ j = k THEN NoRequest
        ELSE IF t = s /\ save[t][j].cancelled /\ ~save[s][k].cancelled
        THEN [Rerun(save[t][j]) EXCEPT !.outdated = TRUE]
        ELSE Rerun(save[t][j])]]

CommitSave(s, k) ==
    /\ save[s][k].st = "transformed"
    /\ stored' = Written(s, save[s][k])
    /\ save' = Landed(s, k)
    /\ load' = [t \in Sessions |-> RerunLoad(load[t])]
    /\ UNCHANGED <<alive, first, lockingFailed, base, staged, closed, stolen,
                   waiting, mail, calls, faults>>

\* A complete wipe is a RemoveAsync: it has no transform, so it looks neither
\* at the lock nor at its own promise.  A sync unstages it and reads again.
CommitRemove(s, k) ==
    LET request == save[s][k]
        syncs == request.kind = "sync" /\ ~request.cancelled /\ alive[s]
        marks == syncs /\ staged[s] = Wipe
    IN
    /\ request.st = "issued" /\ ~IsUpdate(request)
    /\ syncs => load[s].phase = "idle"
    /\ stored' = Absent
    /\ save' = Landed(s, k)
    /\ load' = [t \in Sessions |->
                  IF t = s /\ syncs THEN NewLoad ELSE RerunLoad(load[t])]
    /\ staged' = IF marks THEN [staged EXCEPT ![s] = Nothing] ELSE staged
    /\ base' = IF marks THEN [base EXCEPT ![s] = Nothing] ELSE base
    /\ UNCHANGED <<alive, first, lockingFailed, closed, stolen, waiting, mail,
                   calls, faults>>

SaveFailed(s, k) ==
    /\ save[s][k].st # "idle"
    /\ save' = Dropped(s, k)
    /\ IF alive[s] THEN faults < MaxFaults /\ faults' = faults + 1
                   ELSE UNCHANGED faults
    /\ UNCHANGED <<stored, alive, first, load, lockingFailed, base, staged,
                   closed, stolen, waiting, mail, calls>>

-----------------------------------------------------------------------------
(* The environment                                                         *)

\* More than 2.1 autosave periods pass without a write to the lock.
LockGoesStale ==
    /\ stored.holder # NoSession
    /\ ~stored.stale
    /\ stored' = [stored EXCEPT !.stale = TRUE]
    /\ UNCHANGED <<alive, first, load, lockingFailed, base, staged, save, closed,
                   stolen, waiting, mail, calls, faults>>

\* The DataStore is destroyed or its server stops.  Its promises are rejected
\* and no transform of its requests runs any more (a transform that finds the
\* lock helper destroyed raises, and the request fails), but a write on its
\* way may still land.
Destroy(s) ==
    /\ alive[s]
    /\ faults < MaxFaults
    /\ faults' = faults + 1
    /\ alive' = [alive EXCEPT ![s] = FALSE]
    /\ first' = [first EXCEPT ![s] = IF @ = "pending" THEN "rejected" ELSE @]
    /\ load' = IF load[s].phase \in {"asking", "delay", "backoff"}
               THEN [load EXCEPT ![s] = NoLoad] ELSE load
    /\ save' = [save EXCEPT ![s] = [k \in Slots |->
                  IF save[s][k].st = "idle" THEN save[s][k]
                  ELSE [save[s][k] EXCEPT !.cancelled = TRUE]]]
    /\ waiting' = [waiting EXCEPT ![s] = {}]
    /\ UNCHANGED <<stored, lockingFailed, base, staged, closed, stolen, mail,
                   calls>>

-----------------------------------------------------------------------------

LoadStep(s) ==
    \/ PromiseViewUpToDate(s)
    \/ AcquireLock(s)
    \/ LoadBlocked(s)
    \/ CommitLoad(s)
    \/ LoadFailed(s)
    \/ GracefulCloseFailed(s)
    \/ CloseDelayOver(s)
    \/ RetryLoad(s)

SaveStep(s) ==
    \/ \E v \in Stageable : Store(s, v)
    \/ \E k \in Slots, kind \in Kinds : SyncData(s, k, kind)
    \/ Resync(s)
    \/ \E k \in Slots :
          \/ SaveStolen(s, k)
          \/ SaveSuperseded(s, k)
          \/ TransformSave(s, k)
          \/ CommitSave(s, k)
          \/ CommitRemove(s, k)
          \/ SaveFailed(s, k)

Next ==
    \/ \E s \in Sessions : LoadStep(s) \/ SaveStep(s) \/ Destroy(s)
    \/ \E s \in Sessions, m \in mail :
          HandleCloseSession(s, m) \/ HandleCloseSessionComplete(s, m)
    \/ \E m \in mail : LoseMessage(m)
    \/ LockGoesStale

Spec == Init /\ [][Next]_vars

\* UpdateAsync answers, and the timers of the ladder go off.
FairSpec ==
    /\ Spec
    /\ \A s \in Sessions :
         /\ WF_vars(AcquireLock(s) \/ LoadBlocked(s))
         /\ WF_vars(GracefulCloseFailed(s))
         /\ WF_vars(CloseDelayOver(s))
         /\ WF_vars(RetryLoad(s))

-----------------------------------------------------------------------------
(* What holds                                                              *)

\* An update of s never lands on a profile locked by another session: the
\* lock check of _doDataSync survives everything that happens between its
\* transform and its write.
OwnLockOnly ==
    [][\A s \in Sessions, k \in Slots :
         /\ save[s][k].st = "transformed"
         /\ save'[s][k].st = "idle"
         /\ stored' # stored
         => stored.holder \in {s, NoSession}]_vars

\* A lock leaves its holder only when the holder closes its session, when a
\* load takes a stale lock or one it failed to get MaxAttempts times, or when
\* somebody wipes the key.
LockChangesHands ==
    [][\A s \in Sessions :
         stored.holder = s /\ stored'.holder # s =>
           \/ \E k \in Slots : /\ save[s][k].st = "transformed"
                               /\ save[s][k].kind = "close"
                               /\ stored'.holder = NoSession
           \/ \E t \in Sessions \ {s} :
                  /\ load[t].phase = "transformed"
                  /\ stored' = WithLock(stored, t)
                  /\ stored.stale \/ Studio \/ load[t].attempt > MaxAttempts
           \/ stored' = Absent /\ \E t \in Sessions, k \in Slots :
                                    /\ save[t][k].st = "issued"
                                    /\ save[t][k].data = Wipe]_vars

\* The store may carry out what is left of a request without asking the
\* session again: the write of an update whose transform has run, or a
\* complete wipe from the moment it is issued.
CanLand(request) ==
    \/ request.st = "transformed"
    \/ request.st = "issued" /\ ~IsUpdate(request)

\* Once the newest save of a session has landed, of the saves it replaced only
\* a complete wipe can still land: no update of them writes over the newest
\* data.  A wipe can and erases it, because RemoveAsync has no transform that
\* looks at the rejected promise.
NoOutdatedWrite ==
    \A s \in Sessions, k \in Slots :
        save[s][k].outdated /\ CanLand(save[s][k]) => save[s][k].data = Wipe

\* A session whose closed promise has resolved has told everyone who asked:
\* a request that arrives around the close is neither lost nor left waiting.
NoForgottenRequester == \A s \in Sessions : closed[s] => waiting[s] = {}

\* The first load of a session ends, with data or with an error, whatever
\* the other sessions do with the lock.
LoadSettles ==
    \A s \in Sessions : first[s] = "pending" ~> first[s] # "pending"

Lock == INSTANCE SessionLock WITH owner <- stored.holder, value <- stored.value

\* Requests that fail, run again, overtake each other or outlive their server
\* amount to a lock that is taken, kept and released together with the data:
\* every change of the stored profile is one step of SessionLock.
ImplementsSessionLock == Lock!Spec

===============================================================================
