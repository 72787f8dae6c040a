---------------------------- MODULE DataStoreLock ----------------------------
(***************************************************************************)
(* The session-lock envelope that a DataStore keeps under the `lock` field *)
(* of a stored profile, and the three decisions DataStoreLockHelper takes  *)
(* on it: may this session load, may it save, and what does it write back. *)
(*                                                                         *)
(* A profile is what one datastore key holds.  `value` abstracts the       *)
(* player's data; `holder` is lock.ActiveSession; `stale` says that        *)
(* lock.LastUpdateTime is more than 2.1 autosave periods old.  A key that  *)
(* was never written, or was removed, reads as Absent: an absent profile   *)
(* and an empty unlocked one take the same branch everywhere.              *)
(***************************************************************************)

CONSTANTS
    Sessions,    \* session ids: one per DataStore object on some server
    Values,      \* what a game may keep under the key
    NoSession,   \* lock.ActiveSession == nil
    Nothing,     \* no data
    Studio       \* RunService:IsStudio(): every lock may be stolen

ASSUME LockAssumption ==
    /\ NoSession \notin Sessions
    /\ Nothing \notin Values
    /\ Studio \in BOOLEAN

Profile == [value : Values \cup {Nothing},
            holder : Sessions \cup {NoSession},
            stale : BOOLEAN]

Absent == [value |-> Nothing, holder |-> NoSession, stale |-> FALSE]

\* The lock is rewritten with a fresh LastUpdateTime, or cleared.
WithLock(profile, session) ==
    [profile EXCEPT !.holder = session, !.stale = FALSE]

ToLockedProfile(profile, session, doCloseSession) ==
    WithLock(profile, IF doCloseSession THEN NoSession ELSE session)

\* Mutant: a save does not look at the lock.
WritableByAnyone(profile, session) == TRUE

\* ToUnlockedProfile(...).isValid: an unlocked profile is writable by anybody.
Writable(profile, session) == profile.holder \in {session, NoSession}

\* AcquireLock(...).isValid
Acquirable(profile, session, canSteal) ==
    \/ profile.holder \in {session, NoSession}
    \/ canSteal
    \/ profile.stale
    \/ Studio

=============================================================================
