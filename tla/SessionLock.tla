----------------------------- MODULE SessionLock -----------------------------
(***************************************************************************)
(* What session locking promises of one key, without requests, retries or  *)
(* messages: the key has an owner, only the owner writes (writing to a key *)
(* nobody owns makes one the owner), and ownership is taken, given up or   *)
(* destroyed together with the data.                                       *)
(***************************************************************************)
CONSTANTS Sessions, Values, NoSession, Nothing

VARIABLES owner, value

Init == owner = NoSession /\ value = Nothing

MayWrite(s) == owner \in {s, NoSession}

\* A load takes the lock and leaves the data alone.
Take(s) == owner' = s /\ value' = value

\* A save writes data or writes back what it found, and keeps the lock.
Write(s, v) == MayWrite(s) /\ owner' = s /\ value' = v

\* A save that closes the session gives the lock up in the same write.
Release(s, v) == MayWrite(s) /\ owner' = NoSession /\ value' = v

\* A wipe removes the data and whatever lock was on it.
Remove == owner' = NoSession /\ value' = Nothing

Next ==
    \/ \E s \in Sessions : Take(s)
    \/ \E s \in Sessions, v \in Values \cup {Nothing} : Write(s, v) \/ Release(s, v)
    \/ Remove

Spec == Init /\ [][Next]_<<owner, value>>
=============================================================================
