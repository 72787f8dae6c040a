----------------------------- MODULE MCOpenCloud -----------------------------
(* Properties of OpenCloud and VersionScan, for their run.                 *)
EXTENDS OpenCloud, VersionScan

\* One caller calls anything, the other one runs scripts.
AnyOrTask == [any |-> AllKinds, runs |-> {"task"}]

\* Every call returns, also while the poll of a run that has timed out goes on, for
\* as long as its task runs, and competes for the same slots.
CallsEnd == <>[](\A c \in Callers : call[c].result # "none")

\* What a history resolves to depends on no call: it is stated of one first state.
First == Init /\ \A c \in Callers : call[c] = Called("task")

-----------------------------------------------------------------------------
Entries == [number : 0 .. 3, published : BOOLEAN]
UpToFour == UNION {[1 .. n -> Entries] : n \in 0 .. 4}

NewestFirst(history) ==
    /\ \A i \in DOMAIN history : history[i].number >= 1
    /\ \A i, j \in DOMAIN history : i < j => history[j].number < history[i].number

\* A version that is resolved is the newest of its kind among all that were read, the
\* rest of its page included; a history that is newest-first resolves to the newest of
\* the kind, unless none of the kind is within the pages of a scan.
NewestVersion ==
    First =>
      \A history \in Histories, type \in {"saved", "published"} :
          LET found == ResolveLatest(history, type)
              kind == {i \in DOMAIN history : Matches(history[i], type)}
          IN /\ found # Failed => \A i \in 1 .. ReadLength(history, type) :
                                      Matches(history[i], type) => history[i].number <= found
             /\ NewestFirst(history) =>
                  IF \A i \in kind : i > PageSize * ScanPages THEN found = Failed
                  ELSE /\ found \in {history[i].number : i \in kind}
                       /\ \A i \in kind : history[i].number <= found
=============================================================================
