------------------------ MODULE DataStoreSessionProofs ------------------------
(* Theorems about DataStoreSession, for every value of its constants. *)
EXTENDS DataStoreSession, TLAPS

-----------------------------------------------------------------------------
(* The inductive invariant                                                 *)

\* A write on its way was allowed by the profile it will replace.
LoadSound ==
    \A s \in Sessions :
        load[s].phase = "transformed" => Acquirable(stored, s, CanSteal(s))

SaveSound ==
    \A s \in Sessions, k \in Slots :
        save[s][k].st = "transformed" =>
            IsUpdate(save[s][k]) /\ Writable(stored, s)

\* A load that backs off has an attempt left.
BackoffSound ==
    \A s \in Sessions : load[s].phase = "backoff" => load[s].attempt < MaxAttempts

\* Only a save that was replaced is overtaken by a newer one.
OutdatedSound ==
    \A s \in Sessions, k \in Slots :
        save[s][k].outdated => save[s][k].cancelled

\* An overtaken save does not have its transform behind it.
OutdatedWaits ==
    \A s \in Sessions, k \in Slots :
        save[s][k].outdated => save[s][k].st # "transformed"

IInv ==
    /\ TypeOK
    /\ LoadSound
    /\ SaveSound
    /\ BackoffSound

-----------------------------------------------------------------------------
(* Lemmas about the operators                                              *)

\* Adding a lock to a profile, or leaving it off, gives a profile (withLock,
\* ToLockedProfile).
LEMMA LockTypes ==
    ASSUME NEW p \in Profile, NEW s \in Sessions
    PROVE  /\ WithLock(p, s) \in Profile
           /\ \A close \in BOOLEAN : ToLockedProfile(p, s, close) \in Profile
  BY DEF Profile, WithLock, ToLockedProfile

\* The ladders a load starts with, and what a failed attempt or a transform
\* that runs again makes of one, are ladders.
LEMMA LadderTypes ==
    /\ NoLoad \in Ladder
    /\ NewLoad \in Ladder
    /\ \A l \in Ladder : AttemptFailed(l) \in Ladder /\ RerunLoad(l) \in Ladder
  <1>1. MaxAttempts \in Nat /\ MaxAttempts > 0 /\ Messaging \in BOOLEAN
    BY SessionAssumption
  <1>2. NoLoad \in Ladder
    BY <1>1 DEF NoLoad, Ladder
  <1>3. NewLoad \in Ladder
    BY <1>1, <1>2 DEF NewLoad, NoLoad, Ladder
  <1>4. ASSUME NEW l \in Ladder PROVE AttemptFailed(l) \in Ladder
    <2>1. CASE l.settled \/ l.attempt > MaxAttempts
      BY <1>2, <2>1 DEF AttemptFailed
    <2>2. CASE ~(l.settled \/ l.attempt > MaxAttempts) /\ l.attempt < MaxAttempts
      <3>1. AttemptFailed(l) = [l EXCEPT !.phase = "backoff"]
        BY <2>2 DEF AttemptFailed
      <3>. QED BY <3>1 DEF Ladder
    <2>3. CASE ~(l.settled \/ l.attempt > MaxAttempts) /\ ~(l.attempt < MaxAttempts)
      <3>1. AttemptFailed(l) = [l EXCEPT !.phase = "issued", !.attempt = @ + 1,
                                         !.asks = FALSE]
        BY <2>3 DEF AttemptFailed
      <3>2. l.attempt + 1 \in 1 .. MaxAttempts + 1
        BY <1>1, <2>3 DEF Ladder
      <3>. QED BY <3>1, <3>2 DEF Ladder
    <2>. QED BY <2>1, <2>2, <2>3
  <1>5. ASSUME NEW l \in Ladder PROVE RerunLoad(l) \in Ladder
    BY DEF RerunLoad, Ladder
  <1>. QED BY <1>2, <1>3, <1>4, <1>5

\* So are the ladders the other steps of a load leave.
LEMMA LadderUpdates ==
    ASSUME NEW l \in Ladder
    PROVE  /\ [l EXCEPT !.phase = "transformed", !.settled = TRUE] \in Ladder
           /\ [l EXCEPT !.phase = "issued", !.asks = FALSE] \in Ladder
           /\ [l EXCEPT !.phase = "delay"] \in Ladder
           /\ \A t \in Sessions :
                [l EXCEPT !.phase = "asking", !.blocker = t] \in Ladder
           /\ l.attempt < MaxAttempts =>
                [l EXCEPT !.phase = "issued", !.attempt = l.attempt + 1,
                          !.asks = Messaging] \in Ladder
  <1>1. MaxAttempts \in Nat /\ Messaging \in BOOLEAN
    BY SessionAssumption
  <1>2. /\ [l EXCEPT !.phase = "transformed", !.settled = TRUE] \in Ladder
        /\ [l EXCEPT !.phase = "issued", !.asks = FALSE] \in Ladder
        /\ [l EXCEPT !.phase = "delay"] \in Ladder
    BY DEF Ladder
  <1>3. ASSUME NEW t \in Sessions
        PROVE  [l EXCEPT !.phase = "asking", !.blocker = t] \in Ladder
    BY DEF Ladder
  <1>4. ASSUME l.attempt < MaxAttempts
        PROVE  [l EXCEPT !.phase = "issued", !.attempt = l.attempt + 1,
                         !.asks = Messaging] \in Ladder
    <2>1. l.attempt + 1 \in 1 .. MaxAttempts + 1
      BY <1>1, <1>4 DEF Ladder
    <2>. QED BY <1>1, <2>1 DEF Ladder
  <1>. QED BY <1>2, <1>3, <1>4

\* What the steps of a save make of a request is a request.
LEMMA RequestTypes ==
    /\ NoRequest \in Request
    /\ \A r \in Request :
         /\ Rerun(r) \in Request
         /\ [r EXCEPT !.st = "transformed"] \in Request
         /\ [r EXCEPT !.cancelled = TRUE] \in Request
         /\ [Rerun(r) EXCEPT !.outdated = TRUE] \in Request
  <1>1. NoRequest \in Request
    BY DEF NoRequest, Request, Data
  <1>2. ASSUME NEW r \in Request
        PROVE  /\ Rerun(r) \in Request
               /\ [r EXCEPT !.st = "transformed"] \in Request
               /\ [r EXCEPT !.cancelled = TRUE] \in Request
    BY DEF Request, Rerun
  <1>3. ASSUME NEW r \in Request PROVE [r EXCEPT !.outdated = TRUE] \in Request
    BY DEF Request
  <1>. QED BY <1>1, <1>2, <1>3

\* So is what a landed write makes of the saves of its session.
LEMMA LandedType ==
    ASSUME TypeOK, NEW s \in Sessions, NEW k \in Slots
    PROVE  Landed(s, k) \in [Sessions -> [Slots -> Request]]
  <1>1. \A t \in Sessions, j \in Slots :
           /\ Rerun(save[t][j]) \in Request
           /\ [Rerun(save[t][j]) EXCEPT !.outdated = TRUE] \in Request
    BY RequestTypes DEF TypeOK
  <1>. QED BY <1>1, RequestTypes DEF Landed

-----------------------------------------------------------------------------
(* The invariant holds initially and every step keeps it                   *)

\* The invariant holds before anything is loaded.
LEMMA InitInv == Init => IInv
  <1>. SUFFICES ASSUME Init PROVE IInv
    OBVIOUS
  <1>1. TypeOK
    <2>1. Absent \in Profile /\ Nothing \in Data
      BY DEF Absent, Profile, Data
    <2>2. 0 \in 0 .. MaxCalls /\ 0 \in 0 .. MaxFaults
      BY SessionAssumption
    <2>. QED BY <2>1, <2>2, LadderTypes, RequestTypes DEF Init, TypeOK
  <1>2. LoadSound /\ BackoffSound
    BY DEF Init, LoadSound, BackoffSound, NoLoad
  <1>3. SaveSound
    BY DEF Init, SaveSound, NoRequest
  <1>. QED BY <1>1, <1>2, <1>3 DEF IInv

\* No step of a session, of the datastore or of a message leaves its type.
LEMMA TypeStep == IInv /\ [Next]_vars => TypeOK'
  <1>. SUFFICES ASSUME IInv, [Next]_vars PROVE TypeOK'
    OBVIOUS
  <1>0. TypeOK
    BY DEF IInv
  <1>1. ASSUME NEW s \in Sessions, PromiseViewUpToDate(s) PROVE TypeOK'
    BY <1>0, <1>1, LadderTypes DEF PromiseViewUpToDate, TypeOK
  <1>2. ASSUME NEW s \in Sessions, AcquireLock(s) PROVE TypeOK'
    <2>1. [load[s] EXCEPT !.phase = "transformed", !.settled = TRUE] \in Ladder
      BY <1>0, LadderUpdates DEF TypeOK
    <2>2. stored.value \in Data
      BY <1>0 DEF TypeOK, Profile, Data
    <2>3. /\ first' \in [Sessions -> {"none", "pending", "fulfilled", "rejected"}]
          /\ base' \in [Sessions -> Data]
      BY <1>0, <1>2, <2>2 DEF AcquireLock, TypeOK
    <2>. QED BY <1>0, <1>2, <2>1, <2>3 DEF AcquireLock, TypeOK
  <1>3. ASSUME NEW s \in Sessions, LoadBlocked(s) PROVE TypeOK'
    <2>1. stored.holder \in Sessions
      BY <1>0, <1>3 DEF LoadBlocked, TypeOK, Acquirable, Profile
    <2>2. CloseSession(s, stored.holder) \in Message
      BY <2>1 DEF CloseSession, Message
    <2>3. load' \in [Sessions -> Ladder]
      <3>1. CASE load[s].asks
        <4>1. [load[s] EXCEPT !.phase = "asking", !.blocker = stored.holder] \in Ladder
          BY <1>0, <2>1, LadderUpdates DEF TypeOK
        <4>. QED BY <1>0, <1>3, <3>1, <4>1 DEF LoadBlocked, TypeOK
      <3>2. CASE ~load[s].asks
        <4>1. AttemptFailed(load[s]) \in Ladder
          BY <1>0, LadderTypes DEF TypeOK
        <4>. QED BY <1>0, <1>3, <3>2, <4>1 DEF LoadBlocked, TypeOK
      <3>. QED BY <3>1, <3>2
    <2>4. mail' \in SUBSET Message
      BY <1>0, <1>3, <2>2 DEF LoadBlocked, TypeOK
    <2>. QED BY <1>0, <1>3, <2>3, <2>4 DEF LoadBlocked, TypeOK
  <1>4. ASSUME NEW s \in Sessions, CommitLoad(s) PROVE TypeOK'
    <2>1. stored' \in Profile
      BY <1>0, <1>4, LockTypes DEF CommitLoad, Taken, TypeOK
    <2>2. load' \in [Sessions -> Ladder]
      BY <1>0, <1>4, LadderTypes DEF CommitLoad, TypeOK
    <2>3. save' \in [Sessions -> [Slots -> Request]]
      <3>1. \A t \in Sessions, k \in Slots : Rerun(save[t][k]) \in Request
        BY <1>0, RequestTypes DEF TypeOK
      <3>. QED BY <1>4, <3>1 DEF CommitLoad
    <2>. QED BY <1>0, <1>4, <2>1, <2>2, <2>3 DEF CommitLoad, TypeOK
  <1>5. ASSUME NEW s \in Sessions, LoadFailed(s) PROVE TypeOK'
    <2>1. load' \in [Sessions -> Ladder]
      <3>1. AttemptFailed(load[s]) \in Ladder /\ NoLoad \in Ladder
        BY <1>0, LadderTypes DEF TypeOK
      <3>. QED BY <1>0, <1>5, <3>1 DEF LoadFailed, TypeOK
    <2>2. /\ first' \in [Sessions -> {"none", "pending", "fulfilled", "rejected"}]
          /\ lockingFailed' \in [Sessions -> BOOLEAN]
      BY <1>0, <1>5 DEF LoadFailed, TypeOK
    <2>3. faults' \in 0 .. MaxFaults
      BY <1>0, <1>5, SessionAssumption DEF LoadFailed, TypeOK
    <2>. QED BY <1>0, <1>5, <2>1, <2>2, <2>3 DEF LoadFailed, TypeOK
  <1>6. ASSUME NEW s \in Sessions, GracefulCloseFailed(s) PROVE TypeOK'
    BY <1>0, <1>6, LadderTypes DEF GracefulCloseFailed, TypeOK
  <1>7. ASSUME NEW s \in Sessions, CloseDelayOver(s) PROVE TypeOK'
    <2>1. [load[s] EXCEPT !.phase = "issued", !.asks = FALSE] \in Ladder
      BY <1>0, LadderUpdates DEF TypeOK
    <2>. QED BY <1>0, <1>7, <2>1 DEF CloseDelayOver, TypeOK
  <1>8. ASSUME NEW s \in Sessions, RetryLoad(s) PROVE TypeOK'
    <2>1. load[s].attempt < MaxAttempts
      BY <1>8 DEF RetryLoad, IInv, BackoffSound
    <2>2. [load[s] EXCEPT !.phase = "issued", !.attempt = load[s].attempt + 1,
                          !.asks = Messaging] \in Ladder
      BY <1>0, <2>1, LadderUpdates DEF TypeOK
    <2>3. load' \in [Sessions -> Ladder]
      <3>. DEFINE new == [load[s] EXCEPT !.phase = "issued", !.attempt = load[s].attempt + 1,
                                         !.asks = Messaging]
      <3>1. load' = [load EXCEPT ![s] = new]
        BY <1>8 DEF RetryLoad
      <3>. HIDE DEF new
      <3>. QED BY <1>0, <2>2, <3>1 DEF TypeOK, new
    <2>. QED BY <1>0, <1>8, <2>3 DEF RetryLoad, TypeOK
  <1>9. ASSUME NEW s \in Sessions, NEW m \in mail, HandleCloseSession(s, m)
        PROVE TypeOK'
    <2>1. m.from \in Sessions /\ CloseSessionComplete(s, m.from) \in Message
      BY <1>0 DEF TypeOK, Message, CloseSessionComplete
    <2>2. CASE closed[s]
      BY <1>0, <1>9, <2>1, <2>2 DEF HandleCloseSession, TypeOK
    <2>3. CASE ~closed[s]
      BY <1>0, <1>9, <2>1, <2>3 DEF HandleCloseSession, TypeOK
    <2>. QED BY <2>2, <2>3
  <1>10. ASSUME NEW s \in Sessions, NEW m \in mail, HandleCloseSessionComplete(s, m)
         PROVE TypeOK'
    <2>1. [load[s] EXCEPT !.phase = "delay"] \in Ladder
      BY <1>0, LadderUpdates DEF TypeOK
    <2>2. load' \in [Sessions -> Ladder]
      BY <1>0, <1>10, <2>1 DEF HandleCloseSessionComplete, TypeOK
    <2>. QED BY <1>0, <1>10, <2>2 DEF HandleCloseSessionComplete, TypeOK
  <1>11. ASSUME NEW m \in mail, LoseMessage(m) PROVE TypeOK'
    BY <1>0, <1>11, SessionAssumption DEF LoseMessage, TypeOK
  <1>12. ASSUME NEW s \in Sessions, NEW v \in Stageable, Store(s, v) PROVE TypeOK'
    <2>1. v \in Data \cup {Wipe}
      BY SessionAssumption DEF Data
    <2>2. staged' \in [Sessions -> Data \cup {Wipe}]
      BY <1>0, <1>12, <2>1 DEF Store, TypeOK
    <2>3. /\ first' \in [Sessions -> {"none", "pending", "fulfilled", "rejected"}]
          /\ load' \in [Sessions -> Ladder]
      <3>1. CASE first[s] = "none"
        BY <1>0, <1>12, <3>1, LadderTypes DEF Store, TypeOK
      <3>2. CASE first[s] # "none"
        BY <1>0, <1>12, <3>2 DEF Store, TypeOK
      <3>. QED BY <3>1, <3>2
    <2>. QED BY <1>0, <1>12, <2>2, <2>3 DEF Store, TypeOK
  <1>13. ASSUME NEW s \in Sessions, NEW k \in Slots, NEW kind \in Kinds,
                SyncData(s, k, kind)
         PROVE TypeOK'
    <2>1. [NoRequest EXCEPT !.st = "issued", !.kind = kind,
                            !.data = staged[s], !.seen = base[s]] \in Request
      <3>1. /\ kind \in {"save", "sync", "close"}
            /\ staged[s] \in Data \cup {Wipe} /\ base[s] \in Data
        BY <1>0, SessionAssumption DEF TypeOK
      <3>. QED BY <3>1 DEF NoRequest, Request
    <2>2. \A j \in Slots : [save[s][j] EXCEPT !.cancelled = TRUE] \in Request
      BY <1>0, RequestTypes DEF TypeOK
    <2>3. save' \in [Sessions -> [Slots -> Request]]
      BY <1>0, <1>13, <2>1, <2>2 DEF SyncData, TypeOK
    <2>4. calls' \in 0 .. MaxCalls
      BY <1>0, <1>13, SessionAssumption DEF SyncData, TypeOK
    <2>. QED BY <1>0, <1>13, <2>3, <2>4 DEF SyncData, TypeOK
  <1>14. ASSUME NEW s \in Sessions, Resync(s) PROVE TypeOK'
    <2>1. load' \in [Sessions -> Ladder]
      BY <1>0, <1>14, LadderTypes DEF Resync, TypeOK
    <2>2. calls' \in 0 .. MaxCalls
      BY <1>0, <1>14, SessionAssumption DEF Resync, TypeOK
    <2>. QED BY <1>0, <1>14, <2>1, <2>2 DEF Resync, TypeOK
  <1>15. ASSUME NEW s \in Sessions, NEW k \in Slots, SaveStolen(s, k) PROVE TypeOK'
    BY <1>0, <1>15, RequestTypes DEF SaveStolen, Dropped, TypeOK
  <1>16. ASSUME NEW s \in Sessions, NEW k \in Slots, SaveSuperseded(s, k)
         PROVE TypeOK'
    BY <1>0, <1>16, RequestTypes DEF SaveSuperseded, Dropped, TypeOK
  <1>17. ASSUME NEW s \in Sessions, NEW k \in Slots, TransformSave(s, k)
         PROVE TypeOK'
    <2>1. save' \in [Sessions -> [Slots -> Request]]
      <3>1. [save[s][k] EXCEPT !.st = "transformed"] \in Request
        BY <1>0, RequestTypes DEF TypeOK
      <3>. QED BY <1>0, <1>17, <3>1 DEF TransformSave, TypeOK
    <2>2. save[s][k].data \in Data /\ stored.value \in Data /\ base[s] \in Data
      BY <1>0, <1>17 DEF TransformSave, TypeOK, IsUpdate, Request, Profile, Data
    <2>3. MergedBase(s, save[s][k]) \in Data
      BY <2>2 DEF MergedBase
    <2>4. base' \in [Sessions -> Data] /\ staged' \in [Sessions -> Data \cup {Wipe}]
      BY <1>0, <1>17, <2>3 DEF TransformSave, TypeOK, Data
    <2>5. \A t \in Sessions : CloseSessionComplete(s, t) \in Message
      BY DEF Message, CloseSessionComplete
    <2>6. /\ closed' \in [Sessions -> BOOLEAN]
          /\ waiting' \in [Sessions -> SUBSET Sessions]
          /\ mail' \in SUBSET Message
      <3>1. CASE save[s][k].kind = "close"
        <4>1. {CloseSessionComplete(s, t) : t \in waiting[s]} \subseteq Message
          BY <1>0, <2>5 DEF TypeOK
        <4>2. waiting' = [waiting EXCEPT ![s] = {}]
          BY <1>17, <3>1 DEF TransformSave
        <4>3. /\ closed' = [closed EXCEPT ![s] = TRUE]
              /\ mail' = mail \cup {CloseSessionComplete(s, t) : t \in waiting[s]}
          BY <1>17, <3>1 DEF TransformSave
        <4>. QED BY <1>0, <4>1, <4>2, <4>3 DEF TypeOK
      <3>2. CASE save[s][k].kind # "close"
        BY <1>0, <1>17, <3>2 DEF TransformSave, TypeOK
      <3>. QED BY <3>1, <3>2
    <2>. QED BY <1>0, <1>17, <2>1, <2>4, <2>6 DEF TransformSave, TypeOK
  <1>18. ASSUME NEW s \in Sessions, NEW k \in Slots, CommitSave(s, k) PROVE TypeOK'
    <2>1. save[s][k].data \in Data
      BY <1>0, <1>18 DEF CommitSave, IInv, SaveSound, IsUpdate, TypeOK, Request
    <2>2. stored' \in Profile
      BY <1>0, <1>18, <2>1, LockTypes
         DEF CommitSave, Written, TypeOK, Profile, Data, ToLockedProfile, WithLock
    <2>3. save' \in [Sessions -> [Slots -> Request]]
      <3>1. Landed(s, k) \in [Sessions -> [Slots -> Request]]
        BY <1>0, LandedType
      <3>. QED BY <1>18, <3>1 DEF CommitSave
    <2>4. load' \in [Sessions -> Ladder]
      BY <1>0, <1>18, LadderTypes DEF CommitSave, TypeOK
    <2>. QED BY <1>0, <1>18, <2>2, <2>3, <2>4 DEF CommitSave, TypeOK
  <1>19. ASSUME NEW s \in Sessions, NEW k \in Slots, CommitRemove(s, k) PROVE TypeOK'
    <2>1. stored' \in Profile
      BY <1>19 DEF CommitRemove, Absent, Profile
    <2>2. save' \in [Sessions -> [Slots -> Request]]
      <3>1. Landed(s, k) \in [Sessions -> [Slots -> Request]]
        BY <1>0, LandedType
      <3>. QED BY <1>19, <3>1 DEF CommitRemove
    <2>3. load' \in [Sessions -> Ladder]
      BY <1>0, <1>19, LadderTypes DEF CommitRemove, TypeOK
    <2>4. base' \in [Sessions -> Data] /\ staged' \in [Sessions -> Data \cup {Wipe}]
      BY <1>0, <1>19 DEF CommitRemove, TypeOK, Data
    <2>. QED BY <1>0, <1>19, <2>1, <2>2, <2>3, <2>4 DEF CommitRemove, TypeOK
  <1>20. ASSUME NEW s \in Sessions, NEW k \in Slots, SaveFailed(s, k) PROVE TypeOK'
    BY <1>0, <1>20, SessionAssumption, RequestTypes DEF SaveFailed, Dropped, TypeOK
  <1>21. ASSUME LockGoesStale PROVE TypeOK'
    BY <1>0, <1>21 DEF LockGoesStale, TypeOK, Profile
  <1>22. ASSUME NEW s \in Sessions, Destroy(s) PROVE TypeOK'
    <2>1. save' \in [Sessions -> [Slots -> Request]]
      <3>1. \A k \in Slots : [save[s][k] EXCEPT !.cancelled = TRUE] \in Request
        BY <1>0, RequestTypes DEF TypeOK
      <3>. QED BY <1>0, <1>22, <3>1 DEF Destroy, TypeOK
    <2>2. load' \in [Sessions -> Ladder]
      BY <1>0, <1>22, LadderTypes DEF Destroy, TypeOK
    <2>. QED BY <1>0, <1>22, SessionAssumption, <2>1, <2>2 DEF Destroy, TypeOK
  <1>23. CASE UNCHANGED vars
    BY <1>0, <1>23 DEF vars, TypeOK
  <1>. QED
    BY <1>1, <1>2, <1>3, <1>4, <1>5, <1>6, <1>7, <1>8, <1>9, <1>10, <1>11, <1>12,
       <1>13, <1>14, <1>15, <1>16, <1>17, <1>18, <1>19, <1>20, <1>21, <1>22, <1>23
       DEF Next, LoadStep, SaveStep

-----------------------------------------------------------------------------
(* Writes on their way stay allowed                                        *)

\* A step that touches neither the profile nor a ladder keeps the loads sound.
LEMMA LoadFrame ==
    ASSUME LoadSound, BackoffSound, stored' = stored, load' = load
    PROVE  LoadSound' /\ BackoffSound'
  BY DEF LoadSound, BackoffSound, Acquirable, CanSteal

\* A step that touches neither the profile nor a request keeps the saves sound.
LEMMA SaveFrame ==
    ASSUME SaveSound, stored' = stored, save' = save
    PROVE  SaveSound'
  BY DEF SaveSound, IsUpdate, Writable

\* A ladder moves to a phase in which no write is on its way.
LEMMA LoadMoves ==
    ASSUME TypeOK, LoadSound, BackoffSound, stored' = stored,
           NEW s \in Sessions, NEW l, load' = [load EXCEPT ![s] = l],
           l.phase # "transformed",
           l.phase = "backoff" => l.attempt < MaxAttempts
    PROVE  LoadSound' /\ BackoffSound'
  BY DEF TypeOK, LoadSound, BackoffSound, Acquirable, CanSteal

\* A request is dropped.
LEMMA SaveDropped ==
    ASSUME TypeOK, SaveSound, stored' = stored,
           NEW s \in Sessions, NEW k \in Slots, save' = Dropped(s, k)
    PROVE  SaveSound'
  BY DEF TypeOK, SaveSound, IsUpdate, Writable, Dropped, NoRequest

\* A failed attempt has no write on its way, and backs off only while attempts
\* are left (PromiseRetryUtils.retry).
LEMMA AttemptFailedMoves ==
    ASSUME NEW l \in Ladder
    PROVE  /\ AttemptFailed(l).phase # "transformed"
           /\ AttemptFailed(l).phase = "backoff" =>
                AttemptFailed(l).attempt < MaxAttempts
  <1>1. CASE l.settled \/ l.attempt > MaxAttempts
    BY <1>1 DEF AttemptFailed, NoLoad
  <1>2. CASE ~(l.settled \/ l.attempt > MaxAttempts) /\ l.attempt < MaxAttempts
    BY <1>2 DEF AttemptFailed, Ladder
  <1>3. CASE ~(l.settled \/ l.attempt > MaxAttempts) /\ ~(l.attempt < MaxAttempts)
    <2>1. AttemptFailed(l) = [l EXCEPT !.phase = "issued", !.attempt = @ + 1,
                                       !.asks = FALSE]
      BY <1>3 DEF AttemptFailed
    <2>. QED BY <2>1 DEF Ladder
  <1>. QED BY <1>1, <1>2, <1>3

\* After a write has landed nothing that was transformed before is left.
LEMMA RerunMoves ==
    /\ \A l \in Ladder : /\ RerunLoad(l).phase # "transformed"
                         /\ RerunLoad(l).attempt = l.attempt
                         /\ RerunLoad(l).phase = "backoff" => l.phase = "backoff"
    /\ \A r \in Request : Rerun(r).st # "transformed"
  BY DEF RerunLoad, Rerun, Ladder, Request

\* When a write lands, every request whose transform had run must run it again.
LEMMA LandedMoves ==
    ASSUME TypeOK, NEW s \in Sessions, NEW k \in Slots
    PROVE  \A t \in Sessions, j \in Slots : Landed(s, k)[t][j].st # "transformed"
  <1>. SUFFICES ASSUME NEW t \in Sessions, NEW j \in Slots
                PROVE  Landed(s, k)[t][j].st # "transformed"
    OBVIOUS
  <1>1. save[t][j] \in Request
    BY DEF TypeOK
  <1>2. /\ Rerun(save[t][j]).st # "transformed"
        /\ Rerun(save[t][j]) \in Request
        /\ NoRequest.st # "transformed"
    BY <1>1, RerunMoves, RequestTypes DEF NoRequest
  <1>3. [Rerun(save[t][j]) EXCEPT !.outdated = TRUE].st # "transformed"
    BY <1>2 DEF Request
  <1>. QED BY <1>2, <1>3 DEF Landed

\* Every step keeps the writes on their way allowed: when the profile changes,
\* UpdateAsync runs the transforms again.
LEMMA SoundStep == IInv /\ [Next]_vars => LoadSound' /\ SaveSound' /\ BackoffSound'
  <1>. SUFFICES ASSUME IInv, [Next]_vars
                PROVE  LoadSound' /\ SaveSound' /\ BackoffSound'
    OBVIOUS
  <1>0. TypeOK /\ LoadSound /\ SaveSound /\ BackoffSound
    BY DEF IInv
  <1>. DEFINE Goal == LoadSound' /\ SaveSound' /\ BackoffSound'
  <1>1. ASSUME NEW s \in Sessions, PromiseViewUpToDate(s) PROVE Goal
    <2>1. NewLoad.phase = "issued"
      BY DEF NewLoad, NoLoad
    <2>. QED BY <1>0, <1>1, <2>1, LoadMoves, SaveFrame DEF PromiseViewUpToDate
  <1>2. ASSUME NEW s \in Sessions, AcquireLock(s) PROVE Goal
    <2>. DEFINE new == [load[s] EXCEPT !.phase = "transformed", !.settled = TRUE]
    <2>1. load' = [load EXCEPT ![s] = new] /\ stored' = stored /\ save' = save
      BY <1>2 DEF AcquireLock
    <2>2. new.phase = "transformed" /\ new.attempt = load[s].attempt
      BY <1>0 DEF TypeOK, Ladder
    <2>3. Acquirable(stored, s, CanSteal(s))
      BY <1>2 DEF AcquireLock
    <2>. HIDE DEF new
    <2>4. LoadSound' /\ BackoffSound'
      BY <1>0, <2>1, <2>2, <2>3
         DEF TypeOK, LoadSound, BackoffSound, Acquirable, CanSteal
    <2>. QED BY <1>0, <2>1, <2>4, SaveFrame
  <1>3. ASSUME NEW s \in Sessions, LoadBlocked(s) PROVE Goal
    <2>1. stored' = stored /\ save' = save
      BY <1>3 DEF LoadBlocked
    <2>2. CASE load[s].asks
      <3>. DEFINE new == [load[s] EXCEPT !.phase = "asking", !.blocker = stored.holder]
      <3>1. load' = [load EXCEPT ![s] = new]
        BY <1>3, <2>2 DEF LoadBlocked
      <3>2. new.phase = "asking"
        BY <1>0 DEF TypeOK, Ladder
      <3>. HIDE DEF new
      <3>. QED BY <1>0, <2>1, <3>1, <3>2, LoadMoves, SaveFrame
    <2>3. CASE ~load[s].asks
      <3>1. load' = [load EXCEPT ![s] = AttemptFailed(load[s])]
        BY <1>3, <2>3 DEF LoadBlocked
      <3>2. load[s] \in Ladder
        BY <1>0 DEF TypeOK
      <3>. QED BY <1>0, <2>1, <3>1, <3>2, AttemptFailedMoves, LoadMoves, SaveFrame
    <2>. QED BY <2>2, <2>3
  <1>4. ASSUME NEW s \in Sessions, CommitLoad(s) PROVE Goal
    <2>1. \A t \in Sessions : load[t] \in Ladder /\ \A k \in Slots : save[t][k] \in Request
      BY <1>0 DEF TypeOK
    <2>2. LoadSound' /\ BackoffSound'
      BY <1>0, <1>4, <2>1, RerunMoves DEF CommitLoad, LoadSound, BackoffSound, NoLoad
    <2>3. SaveSound'
      BY <1>4, <2>1, RerunMoves DEF CommitLoad, SaveSound
    <2>. QED BY <2>2, <2>3
  <1>5. ASSUME NEW s \in Sessions, LoadFailed(s) PROVE Goal
    <2>1. load[s] \in Ladder
      BY <1>0 DEF TypeOK
    <2>2. PICK l \in {NoLoad, AttemptFailed(load[s])} : load' = [load EXCEPT ![s] = l]
      BY <1>5 DEF LoadFailed
    <2>3. /\ l.phase # "transformed"
          /\ l.phase = "backoff" => l.attempt < MaxAttempts
      BY <2>1, <2>2, AttemptFailedMoves DEF NoLoad
    <2>4. stored' = stored /\ save' = save
      BY <1>5 DEF LoadFailed
    <2>. QED BY <1>0, <2>2, <2>3, <2>4, LoadMoves, SaveFrame
  <1>6. ASSUME NEW s \in Sessions, GracefulCloseFailed(s) PROVE Goal
    <2>1. load[s] \in Ladder
      BY <1>0 DEF TypeOK
    <2>. QED BY <1>0, <1>6, <2>1, AttemptFailedMoves, LoadMoves, SaveFrame
             DEF GracefulCloseFailed
  <1>7. ASSUME NEW s \in Sessions, CloseDelayOver(s) PROVE Goal
    <2>. DEFINE new == [load[s] EXCEPT !.phase = "issued", !.asks = FALSE]
    <2>1. load' = [load EXCEPT ![s] = new] /\ stored' = stored /\ save' = save
      BY <1>7 DEF CloseDelayOver
    <2>2. new.phase = "issued"
      BY <1>0 DEF TypeOK, Ladder
    <2>. HIDE DEF new
    <2>. QED BY <1>0, <2>1, <2>2, LoadMoves, SaveFrame
  <1>8. ASSUME NEW s \in Sessions, RetryLoad(s) PROVE Goal
    <2>. DEFINE new == [load[s] EXCEPT !.phase = "issued", !.attempt = load[s].attempt + 1,
                                       !.asks = Messaging]
    <2>1. load' = [load EXCEPT ![s] = new] /\ stored' = stored /\ save' = save
      BY <1>8 DEF RetryLoad
    <2>2. new.phase = "issued"
      BY <1>0 DEF TypeOK, Ladder
    <2>. HIDE DEF new
    <2>. QED BY <1>0, <2>1, <2>2, LoadMoves, SaveFrame
  <1>9. ASSUME NEW s \in Sessions, NEW m \in mail, HandleCloseSession(s, m) PROVE Goal
    BY <1>0, <1>9, LoadFrame, SaveFrame DEF HandleCloseSession
  <1>10. ASSUME NEW s \in Sessions, NEW m \in mail, HandleCloseSessionComplete(s, m)
         PROVE Goal
    <2>1. stored' = stored /\ save' = save
      BY <1>10 DEF HandleCloseSessionComplete
    <2>2. CASE load' = load
      BY <1>0, <2>1, <2>2, LoadFrame, SaveFrame
    <2>3. CASE load' # load
      <3>. DEFINE new == [load[s] EXCEPT !.phase = "delay"]
      <3>1. load' = [load EXCEPT ![s] = new]
        BY <1>10, <2>3 DEF HandleCloseSessionComplete
      <3>2. new.phase = "delay"
        BY <1>0 DEF TypeOK, Ladder
      <3>. HIDE DEF new
      <3>. QED BY <1>0, <2>1, <3>1, <3>2, LoadMoves, SaveFrame
    <2>. QED BY <2>2, <2>3
  <1>11. ASSUME NEW m \in mail, LoseMessage(m) PROVE Goal
    BY <1>0, <1>11, LoadFrame, SaveFrame DEF LoseMessage
  <1>12. ASSUME NEW s \in Sessions, NEW v \in Stageable, Store(s, v) PROVE Goal
    <2>1. stored' = stored /\ save' = save
      BY <1>12 DEF Store
    <2>2. load' = load \/ load' = [load EXCEPT ![s] = NewLoad]
      BY <1>12 DEF Store
    <2>3. NewLoad.phase = "issued"
      BY DEF NewLoad, NoLoad
    <2>4. LoadSound' /\ BackoffSound'
      <3>1. CASE load' = load
        BY <1>0, <2>1, <3>1, LoadFrame
      <3>2. CASE load' = [load EXCEPT ![s] = NewLoad]
        BY <1>0, <2>1, <2>3, <3>2, LoadMoves
      <3>. QED BY <2>2, <3>1, <3>2
    <2>. QED BY <1>0, <2>1, <2>4, SaveFrame
  <1>13. ASSUME NEW s \in Sessions, NEW k \in Slots, NEW kind \in Kinds,
                SyncData(s, k, kind)
         PROVE Goal
    <2>1. stored' = stored /\ load' = load
      BY <1>13 DEF SyncData
    <2>2. \A t \in Sessions, j \in Slots :
             /\ save[t][j] \in Request
             /\ save'[t][j].st = "transformed" =>
                  save[t][j].st = "transformed" /\ save'[t][j].data = save[t][j].data
      BY <1>0, <1>13 DEF SyncData, TypeOK, NoRequest, Request
    <2>3. SaveSound'
      BY <1>0, <2>1, <2>2 DEF SaveSound, IsUpdate, Writable
    <2>. QED BY <1>0, <2>1, <2>3, LoadFrame
  <1>14. ASSUME NEW s \in Sessions, Resync(s) PROVE Goal
    <2>1. NewLoad.phase = "issued"
      BY DEF NewLoad, NoLoad
    <2>. QED BY <1>0, <1>14, <2>1, LoadMoves, SaveFrame DEF Resync
  <1>15. ASSUME NEW s \in Sessions, NEW k \in Slots,
                SaveStolen(s, k) \/ SaveSuperseded(s, k) \/ SaveFailed(s, k)
         PROVE Goal
    <2>1. stored' = stored /\ load' = load /\ save' = Dropped(s, k)
      BY <1>15 DEF SaveStolen, SaveSuperseded, SaveFailed
    <2>. QED BY <1>0, <2>1, SaveDropped, LoadFrame
  <1>16. ASSUME NEW s \in Sessions, NEW k \in Slots, TransformSave(s, k) PROVE Goal
    <2>1. stored' = stored /\ load' = load
      BY <1>16 DEF TransformSave
    <2>2. IsUpdate(save[s][k]) /\ Writable(stored, s)
      BY <1>16 DEF TransformSave, MayWrite
    <2>3. \A t \in Sessions, j \in Slots :
             /\ save'[t][j].data = save[t][j].data
             /\ ~(t = s /\ j = k) => save'[t][j].st = save[t][j].st
      BY <1>0, <1>16 DEF TransformSave, TypeOK, Request
    <2>4. SaveSound'
      BY <1>0, <2>1, <2>2, <2>3 DEF SaveSound, IsUpdate, Writable
    <2>. QED BY <1>0, <2>1, <2>4, LoadFrame
  <1>17. ASSUME NEW s \in Sessions, NEW k \in Slots, CommitSave(s, k) PROVE Goal
    <2>1. \A t \in Sessions : load[t] \in Ladder
      BY <1>0 DEF TypeOK
    <2>2. LoadSound' /\ BackoffSound'
      BY <1>0, <1>17, <2>1, RerunMoves DEF CommitSave, LoadSound, BackoffSound
    <2>3. SaveSound'
      BY <1>0, <1>17, LandedMoves DEF CommitSave, SaveSound
    <2>. QED BY <2>2, <2>3
  <1>18. ASSUME NEW s \in Sessions, NEW k \in Slots, CommitRemove(s, k) PROVE Goal
    <2>1. /\ \A t \in Sessions : load[t] \in Ladder
          /\ NewLoad.phase = "issued"
      BY <1>0 DEF TypeOK, NewLoad, NoLoad
    <2>2. LoadSound' /\ BackoffSound'
      BY <1>0, <1>18, <2>1, RerunMoves DEF CommitRemove, LoadSound, BackoffSound
    <2>3. SaveSound'
      BY <1>0, <1>18, LandedMoves DEF CommitRemove, SaveSound
    <2>. QED BY <2>2, <2>3
  <1>19. ASSUME LockGoesStale PROVE Goal
    <2>1. /\ load' = load /\ save' = save
          /\ stored' = [stored EXCEPT !.stale = TRUE] /\ stored \in Profile
      BY <1>0, <1>19 DEF LockGoesStale, TypeOK
    <2>2. stored'.holder = stored.holder /\ stored'.stale
      BY <2>1 DEF Profile
    <2>3. LoadSound' /\ BackoffSound'
      BY <1>0, <2>1, <2>2 DEF LoadSound, BackoffSound, Acquirable, CanSteal
    <2>4. SaveSound'
      BY <1>0, <2>1, <2>2 DEF SaveSound, IsUpdate, Writable
    <2>. QED BY <2>3, <2>4
  <1>20. ASSUME NEW s \in Sessions, Destroy(s) PROVE Goal
    <2>1. stored' = stored
      BY <1>20 DEF Destroy
    <2>2. LoadSound' /\ BackoffSound'
      <3>1. CASE load[s].phase \in {"asking", "delay", "backoff"}
        <4>1. load' = [load EXCEPT ![s] = NoLoad]
          BY <1>20, <3>1 DEF Destroy
        <4>2. NoLoad.phase = "idle"
          BY DEF NoLoad
        <4>. QED BY <1>0, <2>1, <4>1, <4>2, LoadMoves
      <3>2. CASE load[s].phase \notin {"asking", "delay", "backoff"}
        <4>1. load' = load
          BY <1>20, <3>2 DEF Destroy
        <4>. QED BY <1>0, <2>1, <4>1, LoadFrame
      <3>. QED BY <3>1, <3>2
    <2>3. \A t \in Sessions, j \in Slots :
             save'[t][j].st = save[t][j].st /\ save'[t][j].data = save[t][j].data
      BY <1>0, <1>20 DEF Destroy, TypeOK, Request
    <2>4. SaveSound'
      BY <1>0, <2>1, <2>3 DEF SaveSound, IsUpdate, Writable
    <2>. QED BY <2>2, <2>4
  <1>21. CASE UNCHANGED vars
    BY <1>0, <1>21, LoadFrame, SaveFrame DEF vars
  <1>. QED
    BY <1>1, <1>2, <1>3, <1>4, <1>5, <1>6, <1>7, <1>8, <1>9, <1>10, <1>11, <1>12,
       <1>13, <1>14, <1>15, <1>16, <1>17, <1>18, <1>19, <1>20, <1>21
       DEF Next, LoadStep, SaveStep

\* The inductive invariant holds in every reachable state.
LEMMA Invariance == Spec => []IInv
  <1>1. IInv /\ [Next]_vars => IInv'
    BY TypeStep, SoundStep DEF IInv
  <1>. QED BY InitInv, <1>1, PTL DEF Spec

\* Every variable keeps its type in every reachable state: no attempt is
\* counted past the stealing one, and no transform runs on a wipe.
THEOREM TypeCorrect == Spec => []TypeOK
  BY Invariance, PTL DEF IInv

-----------------------------------------------------------------------------
(* What a step does to the stored profile                                  *)

\* Only four actions touch it, and a write leaves the request list idle.
LEMMA StoredMoves ==
    ASSUME IInv, Next, stored' # stored
    PROVE  \/ \E s \in Sessions : CommitLoad(s)
           \/ \E s \in Sessions, k \in Slots : CommitSave(s, k) \/ CommitRemove(s, k)
           \/ LockGoesStale
  <1>1. ASSUME NEW s \in Sessions, LoadStep(s) PROVE CommitLoad(s) \/ stored' = stored
    BY <1>1 DEF LoadStep, PromiseViewUpToDate, AcquireLock, LoadBlocked, LoadFailed,
                GracefulCloseFailed, CloseDelayOver, RetryLoad
  <1>2. ASSUME NEW s \in Sessions, SaveStep(s)
        PROVE  \/ \E k \in Slots : CommitSave(s, k) \/ CommitRemove(s, k)
               \/ stored' = stored
    BY <1>2 DEF SaveStep, Store, SyncData, Resync, SaveStolen, SaveSuperseded,
                TransformSave, SaveFailed
  <1>3. ASSUME NEW s \in Sessions, Destroy(s) PROVE stored' = stored
    BY <1>3 DEF Destroy
  <1>4. ASSUME NEW s \in Sessions, NEW m \in mail,
               HandleCloseSession(s, m) \/ HandleCloseSessionComplete(s, m)
        PROVE  stored' = stored
    BY <1>4 DEF HandleCloseSession, HandleCloseSessionComplete
  <1>5. ASSUME NEW m \in mail, LoseMessage(m) PROVE stored' = stored
    BY <1>5 DEF LoseMessage
  <1>. QED BY <1>1, <1>2, <1>3, <1>4, <1>5 DEF Next

\* Who holds the profile a save writes, and the data in it (ToLockedProfile,
\* WriteMerge).
LEMMA WrittenFields ==
    ASSUME TypeOK, NEW s \in Sessions, NEW r \in Request
    PROVE  /\ Written(s, r).holder = IF r.kind = "close" THEN NoSession ELSE s
           /\ Written(s, r).value =
                IF r.data = Nothing THEN stored.value ELSE r.data
  BY DEF Written, ToLockedProfile, WithLock, TypeOK, Profile

\* A load takes the lock and leaves the data as it is.
LEMMA TakenFields ==
    ASSUME TypeOK, NEW s \in Sessions
    PROVE  Taken(s).holder = s /\ Taken(s).value = stored.value
  BY DEF Taken, WithLock, TypeOK, Profile

\* An update of a session lands only on a profile that no other session has
\* locked, whatever was saved, stolen, wiped or closed since its transform
\* ran (_doDataSync's lock check, for any number of sessions and requests).
THEOREM UpdatesOwnLockOnly == Spec => OwnLockOnly
  <1>1. ASSUME IInv, [Next]_vars
        PROVE  [\A s \in Sessions, k \in Slots :
                   /\ save[s][k].st = "transformed"
                   /\ save'[s][k].st = "idle"
                   /\ stored' # stored
                   => stored.holder \in {s, NoSession}]_vars
    BY <1>1 DEF IInv, SaveSound, Writable
  <1>. QED BY <1>1, Invariance, PTL DEF Spec, OwnLockOnly

\* A session loses its lock only by closing, by a wipe, or to a load that
\* found it stale or had failed MaxAttempts times (AcquireLock, _doDataSync).
THEOREM LockIsHeld == Spec => LockChangesHands
  <1>. DEFINE Allowed ==
         \A s \in Sessions :
           stored.holder = s /\ stored'.holder # s =>
           \/ \E k \in Slots : /\ save[s][k].st = "transformed"
                               /\ save[s][k].kind = "close"
                               /\ stored'.holder = NoSession
           \/ \E t \in Sessions \ {s} :
                  /\ load[t].phase = "transformed"
                  /\ stored' = WithLock(stored, t)
                  /\ stored.stale \/ Studio \/ load[t].attempt > MaxAttempts
           \/ stored' = Absent /\ \E t \in Sessions, k \in Slots :
                                    /\ save[t][k].st = "issued"
                                    /\ save[t][k].data = Wipe
  <1>1. ASSUME IInv, Next, stored' # stored PROVE Allowed
    <2>0. TypeOK /\ LoadSound /\ SaveSound /\ NoSession \notin Sessions
      BY <1>1, LockAssumption DEF IInv
    <2>. SUFFICES ASSUME NEW s \in Sessions, stored.holder = s, stored'.holder # s
                  PROVE  \/ \E k \in Slots : /\ save[s][k].st = "transformed"
                                             /\ save[s][k].kind = "close"
                                             /\ stored'.holder = NoSession
                         \/ \E t \in Sessions \ {s} :
                               /\ load[t].phase = "transformed"
                               /\ stored' = WithLock(stored, t)
                               /\ stored.stale \/ Studio \/ load[t].attempt > MaxAttempts
                         \/ stored' = Absent /\ \E t \in Sessions, k \in Slots :
                                                  /\ save[t][k].st = "issued"
                                                  /\ save[t][k].data = Wipe
      OBVIOUS
    <2>1. CASE \E t \in Sessions : CommitLoad(t)
      <3>1. PICK t \in Sessions : CommitLoad(t)
        BY <2>1
      <3>2. /\ load[t].phase = "transformed"
            /\ stored' = WithLock(stored, t)
            /\ stored'.holder = t
        BY <2>0, <3>1, TakenFields DEF CommitLoad, Taken
      <3>3. stored.stale \/ Studio \/ load[t].attempt > MaxAttempts
        BY <2>0, <3>2 DEF LoadSound, Acquirable, CanSteal
      <3>. QED BY <3>2, <3>3
    <2>2. CASE \E t \in Sessions, k \in Slots : CommitSave(t, k)
      <3>1. PICK t \in Sessions, k \in Slots : CommitSave(t, k)
        BY <2>2
      <3>2. save[t][k].st = "transformed" /\ save[t][k] \in Request
        BY <2>0, <3>1 DEF CommitSave, TypeOK
      <3>3. t = s
        BY <2>0, <3>2 DEF SaveSound, Writable
      <3>4. stored'.holder = IF save[t][k].kind = "close" THEN NoSession ELSE t
        BY <2>0, <3>1, <3>2, WrittenFields DEF CommitSave
      <3>. QED BY <3>2, <3>3, <3>4
    <2>3. CASE \E t \in Sessions, k \in Slots : CommitRemove(t, k)
      BY <2>3 DEF CommitRemove, IsUpdate
    <2>4. CASE LockGoesStale
      BY <2>0, <2>4 DEF LockGoesStale, TypeOK, Profile
    <2>. QED BY <1>1, <2>1, <2>2, <2>3, <2>4, StoredMoves
  <1>2. ASSUME IInv, [Next]_vars PROVE [Allowed]_vars
    <2>1. CASE UNCHANGED vars
      BY <2>1
    <2>2. CASE Next /\ stored' = stored
      BY <2>2
    <2>3. CASE Next /\ stored' # stored
      BY <1>1, <1>2, <2>3
    <2>. QED BY <1>2, <2>1, <2>2, <2>3
  <1>. QED BY <1>2, Invariance, PTL DEF Spec, LockChangesHands

\* The lock kept in the datastore is the lock SessionLock describes, for any
\* number of servers, requests in flight, faults and messages.
THEOREM Refinement == Spec => ImplementsSessionLock
  <1>1. Init => Lock!Init
    BY DEF Init, Absent, Lock!Init
  <1>2. ASSUME IInv, [Next]_vars
        PROVE  [Lock!Next]_<<stored.holder, stored.value>>
    <2>0. TypeOK /\ SaveSound
      BY <1>2 DEF IInv
    <2>1. CASE stored' = stored
      BY <2>1
    <2>2. CASE \E s \in Sessions : CommitLoad(s)
      <3>1. PICK s \in Sessions : CommitLoad(s)
        BY <2>2
      <3>2. Lock!Take(s)
        BY <2>0, <3>1, TakenFields DEF CommitLoad, Lock!Take
      <3>. QED BY <3>2 DEF Lock!Next
    <2>3. CASE \E s \in Sessions, k \in Slots : CommitSave(s, k)
      <3>1. PICK s \in Sessions, k \in Slots : CommitSave(s, k)
        BY <2>3
      <3>. DEFINE r == save[s][k]
      <3>2. /\ r \in Request /\ r.data \in Data
            /\ stored.value \in Data
            /\ stored.holder \in {s, NoSession}
        BY <2>0, <3>1 DEF CommitSave, TypeOK, SaveSound, IsUpdate, Writable,
                          Request, Profile, Data
      <3>3. /\ stored'.holder = IF r.kind = "close" THEN NoSession ELSE s
            /\ stored'.value = IF r.data = Nothing THEN stored.value ELSE r.data
        BY <2>0, <3>1, <3>2, WrittenFields DEF CommitSave
      <3>4. /\ stored'.value \in Values \cup {Nothing}
            /\ Lock!MayWrite(s)
        BY <3>2, <3>3 DEF Data, Lock!MayWrite
      <3>5. \/ Lock!Write(s, stored'.value)
            \/ Lock!Release(s, stored'.value)
        BY <3>3, <3>4 DEF Lock!Write, Lock!Release
      <3>. QED BY <3>4, <3>5 DEF Lock!Next
    <2>4. CASE \E s \in Sessions, k \in Slots : CommitRemove(s, k)
      BY <2>4 DEF CommitRemove, Absent, Lock!Next, Lock!Remove
    <2>5. CASE LockGoesStale
      BY <2>0, <2>5 DEF LockGoesStale, TypeOK, Profile
    <2>6. CASE UNCHANGED vars
      BY <2>6 DEF vars
    <2>. QED BY <1>2, <2>1, <2>2, <2>3, <2>4, <2>5, <2>6, StoredMoves
  <1>. QED BY <1>1, <1>2, Invariance, PTL DEF Spec, ImplementsSessionLock, Lock!Spec

-----------------------------------------------------------------------------
(* Saves that overlap, and requests to close                               *)

\* All saves of a session keep or raise cancelled, and an overtaken one is
\* only ever moved backwards.
LEMMA OverlapStep ==
    ASSUME TypeOK, OutdatedSound, OutdatedWaits, [Next]_vars
    PROVE  OutdatedSound' /\ OutdatedWaits'
  <1>. DEFINE Fine(r) == r.outdated => r.cancelled /\ r.st # "transformed"
  <1>0. \A s \in Sessions, k \in Slots : save[s][k] \in Request /\ Fine(save[s][k])
    BY DEF TypeOK, OutdatedSound, OutdatedWaits
  <1>. SUFFICES \A s \in Sessions, k \in Slots : Fine(save'[s][k])
    BY DEF OutdatedSound, OutdatedWaits
  <1>1. \A r \in Request :
          Fine(r) => /\ Fine(Rerun(r))
                     /\ Fine([r EXCEPT !.cancelled = TRUE])
                     /\ r.cancelled => Fine([Rerun(r) EXCEPT !.outdated = TRUE])
                     /\ ~r.cancelled => Fine([r EXCEPT !.st = "transformed"])
    BY DEF Request, Rerun
  <1>2. Fine(NoRequest)
    BY DEF NoRequest
  <1>. HIDE DEF Fine
  <1>3. CASE save' = save
    BY <1>0, <1>3
  <1>4. ASSUME NEW s \in Sessions, CommitLoad(s)
        PROVE  \A t \in Sessions, k \in Slots : Fine(save'[t][k])
    BY <1>0, <1>1, <1>4 DEF CommitLoad
  <1>5. ASSUME NEW s \in Sessions, NEW k \in Slots, save' = Dropped(s, k)
        PROVE  \A t \in Sessions, j \in Slots : Fine(save'[t][j])
    BY <1>0, <1>2, <1>5 DEF Dropped, TypeOK
  <1>6. ASSUME NEW s \in Sessions, NEW k \in Slots, save' = Landed(s, k)
        PROVE  \A t \in Sessions, j \in Slots : Fine(save'[t][j])
    BY <1>0, <1>1, <1>2, <1>6 DEF Landed
  <1>7. ASSUME NEW s \in Sessions, NEW k \in Slots, TransformSave(s, k)
        PROVE  \A t \in Sessions, j \in Slots : Fine(save'[t][j])
    <2>. DEFINE new == [save[s][k] EXCEPT !.st = "transformed"]
    <2>1. Fine(new)
      BY <1>0, <1>1, <1>7 DEF TransformSave, MayWrite
    <2>2. save' = [save EXCEPT ![s][k] = new]
      BY <1>7 DEF TransformSave
    <2>. HIDE DEF new
    <2>. QED BY <1>0, <2>1, <2>2 DEF TypeOK
  <1>8. ASSUME NEW s \in Sessions, NEW k \in Slots, NEW kind \in Kinds,
               SyncData(s, k, kind)
        PROVE  \A t \in Sessions, j \in Slots : Fine(save'[t][j])
    <2>. DEFINE new == [NoRequest EXCEPT !.st = "issued", !.kind = kind,
                                         !.data = staged[s], !.seen = base[s]]
                both == [j \in Slots |->
                   IF j = k THEN new
                   ELSE IF save[s][j].st = "idle" THEN save[s][j]
                   ELSE [save[s][j] EXCEPT !.cancelled = TRUE]]
    <2>1. Fine(new)
      BY DEF NoRequest, Fine
    <2>2. save' = [save EXCEPT ![s] = both]
      BY <1>8 DEF SyncData
    <2>3. \A j \in Slots : Fine(both[j])
      BY <1>0, <1>1, <2>1
    <2>. HIDE DEF new, both
    <2>. QED BY <1>0, <2>2, <2>3 DEF TypeOK
  <1>9. ASSUME NEW s \in Sessions, Destroy(s)
        PROVE  \A t \in Sessions, j \in Slots : Fine(save'[t][j])
    <2>. DEFINE all == [k \in Slots |->
                   IF save[s][k].st = "idle" THEN save[s][k]
                   ELSE [save[s][k] EXCEPT !.cancelled = TRUE]]
    <2>1. save' = [save EXCEPT ![s] = all]
      BY <1>9 DEF Destroy
    <2>2. \A j \in Slots : Fine(all[j])
      BY <1>0, <1>1
    <2>. HIDE DEF all
    <2>. QED BY <1>0, <2>1, <2>2 DEF TypeOK
  <1>10. ASSUME NEW s \in Sessions, LoadStep(s)
         PROVE  \/ save' = save
                \/ CommitLoad(s)
    BY <1>10 DEF LoadStep, PromiseViewUpToDate, AcquireLock, LoadBlocked, LoadFailed,
                 GracefulCloseFailed, CloseDelayOver, RetryLoad
  <1>11. ASSUME NEW s \in Sessions, SaveStep(s)
         PROVE  \/ save' = save
                \/ \E k \in Slots : \/ save' = Dropped(s, k)
                                    \/ save' = Landed(s, k)
                                    \/ TransformSave(s, k)
                \/ \E k \in Slots, kind \in Kinds : SyncData(s, k, kind)
    BY <1>11 DEF SaveStep, Store, Resync, SaveStolen, SaveSuperseded, CommitSave,
                 CommitRemove, SaveFailed
  <1>12. ASSUME NEW s \in Sessions, NEW m \in mail,
                HandleCloseSession(s, m) \/ HandleCloseSessionComplete(s, m)
         PROVE  save' = save
    BY <1>12 DEF HandleCloseSession, HandleCloseSessionComplete
  <1>13. (\E m \in mail : LoseMessage(m)) \/ LockGoesStale \/ UNCHANGED vars
         => save' = save
    BY DEF LoseMessage, LockGoesStale, vars
  <1>. QED BY <1>3, <1>4, <1>5, <1>6, <1>7, <1>8, <1>9, <1>10, <1>11, <1>12, <1>13
           DEF Next

\* Of the saves of one session that overlap, no replaced update lands after the
\* newest save, for any number of them (_saveMaid, and the promise the transform
\* of _doDataSync looks at); a replaced complete wipe still may, because
\* RemoveAsync has no transform.
THEOREM NewestSaveStays == Spec => []NoOutdatedWrite
  <1>1. Init => OutdatedSound /\ OutdatedWaits
    BY DEF Init, NoRequest, OutdatedSound, OutdatedWaits
  <1>2. TypeOK /\ OutdatedSound /\ OutdatedWaits /\ [Next]_vars
        => OutdatedSound' /\ OutdatedWaits'
    BY OverlapStep
  <1>3. OutdatedWaits => NoOutdatedWrite
    BY DEF OutdatedWaits, NoOutdatedWrite, CanLand, IsUpdate
  <1>. QED BY <1>1, <1>2, <1>3, TypeCorrect, PTL DEF Spec

\* No step resolves a closed promise and forgets who asked for it.
LEMMA RequesterStep ==
    ASSUME TypeOK, NoForgottenRequester, [Next]_vars
    PROVE  NoForgottenRequester'
  <1>1. ASSUME NEW s \in Sessions, LoadStep(s)
        PROVE  waiting' = waiting /\ \A t \in Sessions : closed'[t] => closed[t]
    BY <1>1 DEF LoadStep, PromiseViewUpToDate, AcquireLock, LoadBlocked, CommitLoad,
                LoadFailed, GracefulCloseFailed, CloseDelayOver, RetryLoad, TypeOK
  <1>2. ASSUME NEW s \in Sessions, NEW k \in Slots, TransformSave(s, k)
        PROVE  NoForgottenRequester'
    BY <1>2 DEF TransformSave, TypeOK, NoForgottenRequester
  <1>3. ASSUME NEW s \in Sessions, SaveStep(s)
        PROVE  \/ waiting' = waiting /\ closed' = closed
               \/ \E k \in Slots : TransformSave(s, k)
    BY <1>3 DEF SaveStep, Store, SyncData, Resync, SaveStolen, SaveSuperseded,
                CommitSave, CommitRemove, SaveFailed
  <1>4. ASSUME NEW s \in Sessions, Destroy(s) PROVE NoForgottenRequester'
    <2>1. waiting' = [waiting EXCEPT ![s] = {}] /\ closed' = closed
      BY <1>4 DEF Destroy
    <2>. QED BY <2>1 DEF TypeOK, NoForgottenRequester
  <1>5. ASSUME NEW s \in Sessions, NEW m \in mail,
               HandleCloseSession(s, m) \/ HandleCloseSessionComplete(s, m)
        PROVE  NoForgottenRequester'
    BY <1>5 DEF HandleCloseSession, HandleCloseSessionComplete, TypeOK,
                NoForgottenRequester
  <1>6. CASE (\E m \in mail : LoseMessage(m)) \/ LockGoesStale \/ UNCHANGED vars
    BY <1>6 DEF LoseMessage, LockGoesStale, vars, NoForgottenRequester
  <1>. QED BY <1>1, <1>2, <1>3, <1>4, <1>5, <1>6 DEF Next, NoForgottenRequester

\* Nobody who asked a session to close is still waiting once its closed
\* promise has resolved (_handleSubscription, PromiseCloseSession), for any
\* number of sessions and however often they load and close again.
THEOREM RequestersAnswered == Spec => []NoForgottenRequester
  <1>1. Init => NoForgottenRequester
    BY DEF Init, NoForgottenRequester
  <1>2. TypeOK /\ NoForgottenRequester /\ [Next]_vars => NoForgottenRequester'
    BY RequesterStep
  <1>. QED BY <1>1, <1>2, TypeCorrect, PTL DEF Spec
=============================================================================
