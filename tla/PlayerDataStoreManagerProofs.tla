--------------------- MODULE PlayerDataStoreManagerProofs ---------------------
(***************************************************************************)
(* Proofs about PlayerDataStoreManager, for any number of calls.           *)
(*                                                                         *)
(* The invariant has four parts: what _datastores and _removing say about  *)
(* the stores (Stores), when a close is in flight (Closes), what           *)
(* _handleCounts says about the calls (Counts), and what a closing server  *)
(* still waits for (Awaits).                                               *)
(***************************************************************************)
EXTENDS PlayerDataStoreManager, FiniteSetTheorems, TLAPS

Stores ==
    /\ \A n \in Callers : phase[n] \in {"open", "latched"} <=> datastore = n
    /\ removing <=> \E n \in Callers : phase[n] \in BeingRemoved \cup {"latched"}
    /\ \A m, n \in Callers : phase[m] \in Alive /\ phase[n] \in Alive => m = n
    /\ \A c \in Callers : call[c] \in {"idle", "waiting", "polling"} => phase[c] = "none"

Closes == \A n \in Callers : close[n] # "idle" => phase[n] \in {"closing", "settled"}

Counts ==
    /\ handleCount = Cardinality(Holding)
    /\ HandlesLeaveNoStore

Awaits ==
    /\ shutdown = "closing" =>
         \A n \in before : \/ phase[n] \in {"settled", "latched"}
                           \/ phase[n] \in BeingRemoved /\ <<"removal", n>> \in awaited
    /\ NoSaveLeftBehind

IInv == TypeOK /\ Stores /\ Closes /\ Counts /\ Awaits

-----------------------------------------------------------------------------
(* Stores                                                                  *)

\* A removal that begins keeps one live store per player.
LEMMA RemoveKeepsStores ==
    ASSUME TypeOK, Stores, RemovePlayerDataStoreNow,
           \A c \in Callers : call'[c] \in {"idle", "waiting", "polling"} =>
                                 call[c] \in {"idle", "waiting", "polling"}
    PROVE  Stores'
<1> USE DEF Alive, BeingRemoved
<1>1. CASE datastore = NoStore \/ removing
  BY <1>1 DEF RemovePlayerDataStoreNow, Stores
<1>2. CASE ~(datastore = NoStore \/ removing)
  <2>1. datastore \in Callers /\ phase[datastore] = "open" /\ datastore # NoStore
    BY <1>2 DEF Stores, TypeOK
  <2>2. /\ removing' = TRUE
        /\ \/ /\ phase' = [phase EXCEPT ![datastore] = "callbacks"]
              /\ datastore' = NoStore
           \/ /\ phase' = [phase EXCEPT ![datastore] = "latched"]
              /\ datastore' = datastore
    BY <1>2 DEF RemovePlayerDataStoreNow
  <2>3. \A n \in Callers \ {datastore} : phase'[n] = phase[n] /\ phase[n] \notin Alive
    BY <2>1, <2>2 DEF Stores, TypeOK
  <2>4. phase'[datastore] \in {"callbacks", "latched"}
    BY <2>1, <2>2 DEF TypeOK
  <2>5. NoStore \notin Callers
    BY ManagerAssumption
  <2>6. (\A n \in Callers : phase[n] \in {"open", "latched"} <=> datastore = n)'
    BY <2>1, <2>2, <2>3, <2>4, <2>5 DEF TypeOK
  <2>7. (removing <=> \E n \in Callers : phase[n] \in BeingRemoved \cup {"latched"})'
    BY <2>1, <2>2, <2>4
  <2>8. (\A m, n \in Callers : phase[m] \in Alive /\ phase[n] \in Alive => m = n)'
    BY <2>3
  <2>9. (\A c \in Callers : call[c] \in {"idle", "waiting", "polling"} => phase[c] = "none")'
    BY <2>1, <2>3 DEF Stores
  <2> QED
    BY <2>6, <2>7, <2>8, <2>9 DEF Stores
<1> QED
  BY <1>1, <1>2

\* A removal that settles leaves no live store, or the one its first waiting
\* caller creates.
LEMMA SettleKeepsStores ==
    ASSUME TypeOK, Stores, NEW n \in Callers, phase[n] \in BeingRemoved, Settle(n)
    PROVE  Stores'
<1> USE DEF Alive, BeingRemoved
<1>1. \A m \in Callers \ {n} : phase[m] \notin Alive
  BY DEF Stores
<1>2. datastore = NoStore
  BY <1>1 DEF Stores, TypeOK
<1>3. removing' = FALSE
  BY DEF Settle
<1>4. NoStore \notin Callers
  BY ManagerAssumption
<1>5. \A c \in Callers : call'[c] \in {"idle", "waiting", "polling"} =>
                           call[c] = call'[c] /\ call[c] # "waiting"
  BY DEF Settle, Waiting
<1>6. CASE Waiting = {}
  <2>1. phase' = [phase EXCEPT ![n] = "settled"] /\ datastore' = NoStore
    BY <1>2, <1>6 DEF Settle
  <2>2. \A m \in Callers : phase'[m] \notin Alive
    BY <1>1, <2>1 DEF TypeOK
  <2>3. (\A c \in Callers : call[c] \in {"idle", "waiting", "polling"} => phase[c] = "none")'
    BY <1>5, <2>1 DEF Stores, TypeOK
  <2> QED
    BY <1>3, <1>4, <2>1, <2>2, <2>3 DEF Stores
<1>7. CASE Waiting # {}
  <2>1. PICK c \in Waiting : /\ datastore' = c
                             /\ phase' = [phase EXCEPT ![n] = "settled", ![c] = "open"]
    BY <1>7 DEF Settle
  <2>2. c \in Callers /\ c # n /\ call[c] = "waiting"
    BY DEF Waiting, Stores
  <2>3. phase'[c] = "open" /\ \A m \in Callers \ {c} : phase'[m] \notin Alive
    BY <1>1, <2>1, <2>2 DEF TypeOK
  <2>4. (\A d \in Callers : call[d] \in {"idle", "waiting", "polling"} => phase[d] = "none")'
    BY <1>5, <2>1, <2>2 DEF Stores, TypeOK
  <2> QED
    BY <1>3, <2>1, <2>2, <2>3, <2>4 DEF Stores
<1> QED
  BY <1>6, <1>7

\* A call that opens a store finds none alive.
LEMMA OpenKeepsStores ==
    ASSUME TypeOK, Stores, NEW c \in Callers, call[c] = "idle", Open(c),
           removing' = removing
    PROVE  Stores'
<1> USE DEF Alive, BeingRemoved
<1>1. CASE ~removing /\ datastore = NoStore
  <2>1. /\ datastore' = c
        /\ phase' = [phase EXCEPT ![c] = "open"]
        /\ call' = [call EXCEPT ![c] = "granted"]
    BY <1>1 DEF Open, MayOpen
  <2>2. \A n \in Callers : phase[n] \notin Alive
    BY <1>1, ManagerAssumption DEF Stores, TypeOK
  <2> QED
    BY <1>1, <2>1, <2>2 DEF Stores, TypeOK
<1>2. CASE ~(~removing /\ datastore = NoStore)
  <2>1. UNCHANGED <<datastore, phase>>
    BY <1>2 DEF Open, MayOpen
  <2>2. \A d \in Callers : call'[d] \in {"idle", "waiting", "polling"} =>
                             call[d] \in {"idle", "waiting", "polling"}
    BY DEF Open, TypeOK
  <2> QED
    BY <2>1, <2>2 DEF Stores
<1> QED
  BY <1>1, <1>2

\* Steps of the store that end, or begin, no removal, and the steps of calls
\* that only end.
LEMMA OthersKeepStores ==
    ASSUME Stores, UNCHANGED <<datastore, removing, phase>>,
           \A c \in Callers : call'[c] \in {"idle", "waiting", "polling"} =>
                                 call[c] \in {"idle", "waiting", "polling"}
    PROVE  Stores'
BY DEF Stores, BeingRemoved

\* No call of the game opens a second store.
LEMMA CallStepKeepsStores ==
    ASSUME TypeOK, Stores, NEW c \in Callers, CallStep(c)
    PROVE  Stores'
<1>1. CASE PromiseDataStore(c) \/ PromiseDataStoreHandle(c)
  BY <1>1, OpenKeepsStores DEF PromiseDataStore, PromiseDataStoreHandle
<1>2. CASE DestroyHandle(c) \/ PollTimesOut(c)
  <2>1. \A d \in Callers : call'[d] \in {"idle", "waiting", "polling"} =>
                             call[d] \in {"idle", "waiting", "polling"}
    BY <1>2 DEF DestroyHandle, PollTimesOut, TypeOK
  <2>2. UNCHANGED <<datastore, removing, phase>> \/ RemovePlayerDataStoreNow
    BY <1>2 DEF DestroyHandle, PollTimesOut, ReleaseDataStoreHandle
  <2> QED
    BY <2>1, <2>2, RemoveKeepsStores, OthersKeepStores
<1> QED
  BY <1>1, <1>2 DEF CallStep

\* Every step of a store settles its removal, begins it, lets
\* SaveAndCloseSession begin, or leaves the bookkeeping alone.
Settles(n) == phase[n] \in BeingRemoved /\ Settle(n)

Begins(n) ==
    /\ RemovePlayerDataStoreNow
    /\ UNCHANGED call
    /\ awaited \ {<<"save", n>>} \subseteq awaited'

StartsClosing(n) ==
    /\ phase[n] = "callbacks"
    /\ phase' = [phase EXCEPT ![n] = "closing"]
    /\ UNCHANGED <<datastore, removing, call, awaited>>

LeavesAlone(n) ==
    /\ UNCHANGED <<datastore, removing, phase, call>>
    /\ awaited \ {<<"save", n>>} \subseteq awaited'

\* What a step of a store does to its life: it settles the removal, begins
\* one, starts the close, or leaves it alone.
LEMMA StoreStepCases ==
    ASSUME TypeOK, Closes, NEW n \in Callers, StoreStep(n)
    PROVE  Settles(n) \/ Begins(n) \/ StartsClosing(n) \/ LeavesAlone(n)
<1> USE DEF Settles, Begins, StartsClosing, LeavesAlone
<1>1. CASE CallbacksReject(n)
  BY <1>1 DEF CallbacksReject, BeingRemoved
<1>2. CASE CallbacksResolve(n)
  BY <1>2 DEF CallbacksResolve, BeingRemoved
<1>3. CASE IssueClose(n)
  BY <1>3 DEF IssueClose
<1>4. CASE LoadSucceeds(n) \/ TransformSave(n) \/ SaveSuperseded(n) \/ TransformClose(n)
  BY <1>4 DEF LoadSucceeds, TransformSave, SaveSuperseded, TransformClose
<1>5. CASE LoadFails(n)
  BY <1>5 DEF LoadFails, BeingRemoved
<1>6. CASE Save(n)
  BY <1>6 DEF Save, BeingRemoved, Closes, Alive
<1>7. CASE SaveStolen(n)
  BY <1>7 DEF SaveStolen, SaveEnds
<1>8. CASE CommitSave(n) \/ SaveFails(n)
  BY <1>8 DEF CommitSave, SaveFails, SaveEnds
<1>9. CASE CloseStolen(n) \/ CommitClose(n) \/ CloseFails(n)
  BY <1>9 DEF CloseStolen, CommitClose, CloseFails, Closes, Alive, BeingRemoved
<1> QED
  BY <1>1, <1>2, <1>3, <1>4, <1>5, <1>6, <1>7, <1>8, <1>9 DEF StoreStep

\* No step of a store leaves two alive.
LEMMA StoreStepKeepsStores ==
    ASSUME TypeOK, Stores, Closes, NEW n \in Callers, StoreStep(n)
    PROVE  Stores'
<1>1. CASE Settles(n)
  BY <1>1, SettleKeepsStores DEF Settles
<1>2. CASE Begins(n)
  BY <1>2, RemoveKeepsStores DEF Begins
<1>3. CASE StartsClosing(n)
  BY <1>3, ManagerAssumption DEF StartsClosing, Stores, TypeOK, Alive, BeingRemoved
<1>4. CASE LeavesAlone(n)
  BY <1>4, OthersKeepStores DEF LeavesAlone
<1> QED
  BY <1>1, <1>2, <1>3, <1>4, StoreStepCases

-----------------------------------------------------------------------------
(* Closes                                                                  *)

\* A close is in flight only during a removal: steps of a store.
LEMMA StoreStepKeepsCloses ==
    ASSUME TypeOK, Stores, Closes, NEW n \in Callers, StoreStep(n)
    PROVE  Closes'
<1>1. ASSUME NEW m \in Callers, phase[m] \in {"closing", "settled"}
      PROVE  phase'[m] \in {"closing", "settled"}
  <2>1. CASE Settles(n)
    BY <1>1, <2>1 DEF Settles, Settle, Waiting, Stores, TypeOK
  <2>2. CASE Begins(n)
    BY <1>1, <2>2 DEF Begins, RemovePlayerDataStoreNow, Stores, TypeOK
  <2>3. CASE StartsClosing(n) \/ LeavesAlone(n)
    BY <1>1, <2>3 DEF StartsClosing, LeavesAlone, TypeOK
  <2> QED
    BY <2>1, <2>2, <2>3, StoreStepCases
<1>2. CASE IssueClose(n)
  BY <1>2 DEF IssueClose, Closes, TypeOK
<1>3. ASSUME ~IssueClose(n), NEW m \in Callers, close'[m] # "idle"
      PROVE  close[m] # "idle"
  <2>1. CASE LoadSucceeds(n) \/ CommitSave(n) \/ CommitClose(n)
    <3>1. close' = Rerun(close) \/ close' = [Rerun(close) EXCEPT ![n] = "idle"]
      BY <2>1 DEF LoadSucceeds, CommitSave, CommitClose
    <3>2. Rerun(close)[m] # "idle" => close[m] # "idle"
      BY DEF Rerun
    <3>3. DOMAIN Rerun(close) = Callers
      BY DEF Rerun
    <3> QED
      BY <1>3, <3>1, <3>2, <3>3
  <2>2. CASE TransformClose(n) \/ CloseStolen(n) \/ CloseFails(n)
    BY <1>3, <2>2 DEF TransformClose, CloseStolen, CloseFails, TypeOK
  <2>3. CASE \/ CallbacksReject(n) \/ CallbacksResolve(n) \/ LoadFails(n) \/ Save(n)
             \/ TransformSave(n) \/ SaveSuperseded(n) \/ SaveStolen(n) \/ SaveFails(n)
    BY <1>3, <2>3 DEF CallbacksReject, CallbacksResolve, LoadFails, Save, TransformSave,
                      SaveSuperseded, SaveStolen, SaveFails
  <2> QED
    BY <1>3, <2>1, <2>2, <2>3 DEF StoreStep
<1> QED
  BY <1>1, <1>2, <1>3 DEF Closes

\* The same of a removal that begins.
LEMMA RemoveKeepsCloses ==
    ASSUME TypeOK, Stores, Closes, RemovePlayerDataStoreNow, UNCHANGED close
    PROVE  Closes'
BY ManagerAssumption DEF RemovePlayerDataStoreNow, Stores, Closes, TypeOK

\* The same of the calls of the game.
LEMMA CallStepKeepsCloses ==
    ASSUME TypeOK, Stores, Closes, NEW c \in Callers, CallStep(c)
    PROVE  Closes'
<1>1. CASE PromiseDataStore(c) \/ PromiseDataStoreHandle(c)
  BY <1>1 DEF PromiseDataStore, PromiseDataStoreHandle, Open, Stores, Closes, TypeOK
<1>2. CASE DestroyHandle(c) \/ PollTimesOut(c)
  BY <1>2, RemoveKeepsCloses DEF DestroyHandle, PollTimesOut, ReleaseDataStoreHandle, Closes
<1> QED
  BY <1>1, <1>2 DEF CallStep

-----------------------------------------------------------------------------
(* Counts                                                                  *)

\* Finitely many callers hold a handle.
LEMMA HoldingFinite == IsFiniteSet(Holding)
BY ManagerAssumption, FS_Subset DEF Holding

\* A handle that is counted has a positive count.
LEMMA HoldingCounted ==
    ASSUME handleCount = Cardinality(Holding), NEW c \in Holding
    PROVE  /\ handleCount \in Nat /\ handleCount - 1 \in Nat
           /\ handleCount - 1 = Cardinality(Holding \ {c})
           /\ handleCount > 1 <=> Holding \ {c} # {}
<1>1. Cardinality(Holding \ {c}) = Cardinality(Holding) - 1 /\ IsFiniteSet(Holding \ {c})
  BY HoldingFinite, FS_RemoveElement
<1>2. Cardinality(Holding) \in Nat /\ Cardinality(Holding \ {c}) \in Nat
  BY <1>1, HoldingFinite, FS_CardinalityType
<1>3. Cardinality(Holding \ {c}) = 0 <=> Holding \ {c} = {}
  BY <1>1, FS_EmptySet
<1> QED
  BY <1>1, <1>2, <1>3

\* A removal that begins leaves no open store.
LEMMA RemoveLeavesNoStore ==
    ASSUME TypeOK, RemovePlayerDataStoreNow
    PROVE  datastore' = NoStore \/ removing'
BY DEF RemovePlayerDataStoreNow, TypeOK

\* _handleCounts counts the handles that are out: steps of a store.
LEMMA StoreStepKeepsCounts ==
    ASSUME TypeOK, Stores, Closes, Counts, NEW n \in Callers, StoreStep(n)
    PROVE  Counts'
<1>1. UNCHANGED <<present, handleCount>>
  BY DEF StoreStep, CallbacksReject, CallbacksResolve, IssueClose, LoadSucceeds,
         LoadFails, Save, TransformSave, SaveSuperseded, SaveStolen, CommitSave,
         SaveFails, TransformClose, CloseStolen, CommitClose, CloseFails
<1>2. Holding' = Holding
  <2>1. CASE Settles(n)
    <3>1. call' = [d \in Callers |-> IF call[d] = "waiting" THEN "granted" ELSE call[d]]
      BY <2>1 DEF Settles, Settle, Waiting
    <3>2. \A d \in Handles : call'[d] \in {"granted", "waiting", "polling"} <=>
                              call[d] \in {"granted", "waiting", "polling"}
      BY <3>1, ManagerAssumption
    <3> QED
      BY <3>2 DEF Holding
  <2>2. CASE Begins(n) \/ StartsClosing(n) \/ LeavesAlone(n)
    BY <2>2 DEF Begins, StartsClosing, LeavesAlone, Holding
  <2> QED
    BY <2>1, <2>2, StoreStepCases
<1>3. HandlesLeaveNoStore'
  <2>1. CASE Settles(n)
    <3>1. datastore = NoStore /\ NoStore \notin Handles
      BY <2>1, ManagerAssumption DEF Settles, Stores, TypeOK, BeingRemoved, Alive
    <3>2. datastore' = NoStore \/ datastore' \in Waiting
      BY <2>1, <3>1 DEF Settles, Settle
    <3>3. datastore' \in Handles => datastore' \in Holding
      BY <3>1, <3>2 DEF Waiting, Holding
    <3> QED
      BY <1>2, <3>3 DEF HandlesLeaveNoStore
  <2>2. CASE Begins(n)
    BY <2>2, RemoveLeavesNoStore, ManagerAssumption DEF Begins, HandlesLeaveNoStore
  <2>3. CASE StartsClosing(n) \/ LeavesAlone(n)
    BY <1>1, <1>2, <2>3 DEF StartsClosing, LeavesAlone, Counts, HandlesLeaveNoStore
  <2> QED
    BY <2>1, <2>2, <2>3, StoreStepCases
<1> QED
  BY <1>1, <1>2, <1>3 DEF Counts

\* The same of a handle that is released (_releaseDataStoreHandle).
LEMMA ReleaseKeepsCounts ==
    ASSUME TypeOK, Counts, NEW c \in Holding, Holding' = Holding \ {c},
           present' = present, ReleaseDataStoreHandle
    PROVE  Counts'
<1>1. /\ handleCount \in Nat
      /\ handleCount - 1 = Cardinality(Holding \ {c})
      /\ handleCount > 1 <=> Holding \ {c} # {}
  BY HoldingCounted DEF Counts
<1>2. handleCount' = Cardinality(Holding)'
  BY <1>1 DEF ReleaseDataStoreHandle
<1>3. HandlesLeaveNoStore'
  <2>1. CASE handleCount > 1 \/ present
    BY <1>1, <2>1 DEF HandlesLeaveNoStore
  <2>2. CASE ~(handleCount > 1 \/ present)
    BY <2>2, RemoveLeavesNoStore, ManagerAssumption
       DEF ReleaseDataStoreHandle, HandlesLeaveNoStore
  <2> QED
    BY <2>1, <2>2
<1> QED
  BY <1>2, <1>3 DEF Counts

\* The same of the calls of the game.
LEMMA CallStepKeepsCounts ==
    ASSUME TypeOK, Stores, Counts, NEW c \in Callers, CallStep(c)
    PROVE  Counts'
<1>1. CASE PromiseDataStore(c)
  <2>1. Holding' = Holding
    <3>1. c \notin Handles /\ \A d \in Callers \ {c} : call'[d] = call[d]
      BY <1>1 DEF PromiseDataStore, Open, TypeOK
    <3> QED
      BY <3>1, ManagerAssumption DEF Holding
  <2> QED
    BY <1>1, <2>1 DEF PromiseDataStore, Counts, HandlesLeaveNoStore
<1>2. CASE PromiseDataStoreHandle(c)
  <2>1. Holding' = Holding \cup {c} /\ c \notin Holding
    <3>1. /\ c \in Handles /\ call[c] = "idle"
          /\ call'[c] \in {"granted", "waiting", "polling"}
          /\ \A d \in Callers \ {c} : call'[d] = call[d]
      BY <1>2 DEF PromiseDataStoreHandle, Open, TypeOK
    <3> QED
      BY <3>1, ManagerAssumption DEF Holding
  <2>2. handleCount' = Cardinality(Holding)'
    BY <1>2, <2>1, HoldingFinite, FS_AddElement DEF PromiseDataStoreHandle, Counts
  <2> QED
    BY <2>1, <2>2 DEF Counts, HandlesLeaveNoStore
<1>3. CASE DestroyHandle(c)
  <2>1. c \in Holding /\ Holding' = Holding \ {c}
    BY <1>3 DEF DestroyHandle, Holding, TypeOK
  <2> QED
    BY <1>3, <2>1, ReleaseKeepsCounts DEF DestroyHandle
<1>4. CASE PollTimesOut(c)
  <2>1. CASE c \in Handles
    <3>1. c \in Holding /\ Holding' = Holding \ {c}
      BY <1>4, <2>1 DEF PollTimesOut, Holding, TypeOK
    <3> QED
      BY <1>4, <2>1, <3>1, ReleaseKeepsCounts DEF PollTimesOut
  <2>2. CASE c \notin Handles
    <3>1. Holding' = Holding
      BY <1>4, <2>2 DEF PollTimesOut, Holding, TypeOK
    <3> QED
      BY <1>4, <2>2, <3>1 DEF PollTimesOut, Counts, HandlesLeaveNoStore
  <2> QED
    BY <2>1, <2>2
<1> QED
  BY <1>1, <1>2, <1>3, <1>4 DEF CallStep

-----------------------------------------------------------------------------
(* Awaits                                                                  *)

\* What a step must keep of the stores a closing server waits for.
LEMMA AwaitsKept ==
    ASSUME Awaits, UNCHANGED <<shutdown, before>>,
           \A m \in before :
              /\ phase[m] \in {"settled", "latched"} => phase'[m] = phase[m]
              /\ phase[m] \in BeingRemoved =>
                   \/ phase'[m] = "settled"
                   \/ /\ phase'[m] \in BeingRemoved
                      /\ <<"removal", m>> \in awaited => <<"removal", m>> \in awaited'
    PROVE  Awaits'
BY DEF Awaits, NoSaveLeftBehind, BeingRemoved

\* A closing server goes on waiting for every store that was open: a removal
\* that begins.
LEMMA RemoveKeepsAwaits ==
    ASSUME TypeOK, Stores, Awaits, RemovePlayerDataStoreNow, UNCHANGED <<shutdown, before>>,
           \A m \in Callers : <<"removal", m>> \in awaited => <<"removal", m>> \in awaited'
    PROVE  Awaits'
<1>1. \A m \in Callers : phase[m] \in {"settled", "latched"} \cup BeingRemoved => phase'[m] = phase[m]
  <2>1. CASE datastore = NoStore \/ removing
    BY <2>1 DEF RemovePlayerDataStoreNow
  <2>2. CASE ~(datastore = NoStore \/ removing)
    <3>1. datastore \in Callers /\ phase[datastore] = "open"
      BY <2>2 DEF Stores, TypeOK, BeingRemoved
    <3> QED
      BY <2>2, <3>1 DEF RemovePlayerDataStoreNow, TypeOK, BeingRemoved
  <2> QED
    BY <2>1, <2>2
<1> QED
  BY <1>1, AwaitsKept DEF TypeOK

\* The same of the steps of a store.
LEMMA StoreStepKeepsAwaits ==
    ASSUME TypeOK, Stores, Closes, Awaits, NEW n \in Callers, StoreStep(n)
    PROVE  Awaits'
<1>1. UNCHANGED <<shutdown, before>>
  BY DEF StoreStep, CallbacksReject, CallbacksResolve, IssueClose, LoadSucceeds,
         LoadFails, Save, TransformSave, SaveSuperseded, SaveStolen, CommitSave,
         SaveFails, TransformClose, CloseStolen, CommitClose, CloseFails
<1>2. CASE Settles(n)
  <2>1. \A m \in Callers \ {n} : <<"removal", m>> \in awaited => <<"removal", m>> \in awaited'
    BY <1>2 DEF Settles, Settle
  <2>2. /\ phase'[n] = "settled"
        /\ \A m \in Callers \ {n} : phase[m] # "none" => phase'[m] = phase[m]
    <3>1. CASE Waiting = {}
      BY <1>2, <3>1 DEF Settles, Settle, TypeOK
    <3>2. CASE Waiting # {}
      <4>1. PICK c \in Waiting : phase' = [phase EXCEPT ![n] = "settled", ![c] = "open"]
        BY <1>2, <3>2 DEF Settles, Settle
      <4>2. c \in Callers /\ phase[c] = "none" /\ c # n
        BY <1>2 DEF Waiting, Stores, Settles, BeingRemoved
      <4> QED
        BY <4>1, <4>2 DEF TypeOK
    <3> QED
      BY <3>1, <3>2
  <2>3. \A m \in before : m \in Callers
    BY DEF TypeOK
  <2>4. phase[n] \in BeingRemoved
    BY <1>2 DEF Settles
  <2> QED
    BY <1>1, <2>1, <2>2, <2>3, <2>4, AwaitsKept DEF BeingRemoved
<1>3. CASE Begins(n)
  BY <1>1, <1>3, RemoveKeepsAwaits DEF Begins
<1>4. CASE StartsClosing(n)
  BY <1>1, <1>4, AwaitsKept DEF StartsClosing, TypeOK, BeingRemoved
<1>5. CASE LeavesAlone(n)
  BY <1>1, <1>5, AwaitsKept DEF LeavesAlone, BeingRemoved
<1> QED
  BY <1>2, <1>3, <1>4, <1>5, StoreStepCases

\* The same of the calls of the game.
LEMMA CallStepKeepsAwaits ==
    ASSUME TypeOK, Stores, Awaits, NEW c \in Callers, CallStep(c)
    PROVE  Awaits'
<1>1. CASE PromiseDataStore(c) \/ PromiseDataStoreHandle(c)
  <2>1. \A m \in Callers : phase[m] # "none" => phase'[m] = phase[m]
    BY <1>1 DEF PromiseDataStore, PromiseDataStoreHandle, Open, Stores, TypeOK
  <2>2. UNCHANGED <<shutdown, before, awaited>>
    BY <1>1 DEF PromiseDataStore, PromiseDataStoreHandle
  <2> QED
    BY <2>1, <2>2, AwaitsKept DEF TypeOK, BeingRemoved
<1>2. CASE DestroyHandle(c) \/ PollTimesOut(c)
  <2>1. UNCHANGED phase \/ RemovePlayerDataStoreNow
    BY <1>2 DEF DestroyHandle, PollTimesOut, ReleaseDataStoreHandle
  <2>2. UNCHANGED <<shutdown, before, awaited>>
    BY <1>2 DEF DestroyHandle, PollTimesOut
  <2> QED
    BY <2>1, <2>2, AwaitsKept, RemoveKeepsAwaits DEF BeingRemoved
<1> QED
  BY <1>1, <1>2 DEF CallStep

\* PromiseAllSaves waits for every store that is open when it is called.
LEMMA PromiseAllSavesAwaits ==
    ASSUME TypeOK, Stores, PromiseAllSaves
    PROVE  Awaits'
<1>1. before' = LiveStores /\ shutdown' # "done" /\ RemovePlayerDataStoreNow
  BY DEF PromiseAllSaves
<1>2. ASSUME shutdown' = "closing", NEW n \in LiveStores
      PROVE  \/ phase'[n] = "latched"
             \/ phase'[n] \in BeingRemoved /\ <<"removal", n>> \in awaited'
  <2>1. /\ ~(datastore # NoStore /\ ~removing /\ datastore' = datastore)
        /\ awaited' = PromisesToAwait(phase')
    BY <1>2 DEF PromiseAllSaves
  <2>2. n \in Callers /\ phase[n] \in Alive
    BY DEF LiveStores
  <2>3. phase'[n] \in BeingRemoved \cup {"latched"}
    <3>1. CASE phase[n] = "open"
      <4>1. datastore = n /\ n # NoStore /\ ~removing
        BY <2>2, <3>1, ManagerAssumption DEF Stores, Alive, BeingRemoved
      <4> QED
        BY <1>1, <2>1, <4>1 DEF RemovePlayerDataStoreNow, TypeOK, BeingRemoved
    <3>2. CASE phase[n] # "open"
      <4>1. removing
        BY <2>2, <3>2 DEF Stores, Alive
      <4> QED
        BY <1>1, <2>2, <3>2, <4>1 DEF RemovePlayerDataStoreNow, Alive
    <3> QED
      BY <3>1, <3>2
  <2> QED
    BY <2>1, <2>2, <2>3 DEF PromisesToAwait
<1> QED
  BY <1>1, <1>2 DEF Awaits, NoSaveLeftBehind

-----------------------------------------------------------------------------
(* Types                                                                   *)

\* The types of what a removal that begins changes.
LEMMA RemoveTypes ==
    ASSUME TypeOK, RemovePlayerDataStoreNow
    PROVE  /\ datastore' \in Callers \cup {NoStore}
           /\ removing' \in BOOLEAN
           /\ phase' \in [Callers -> {"none", "settled"} \cup Alive]
BY DEF RemovePlayerDataStoreNow, TypeOK, Alive, BeingRemoved

\* The types of what a removal that settles changes.
LEMMA SettleTypes ==
    ASSUME TypeOK, NEW n \in Callers, Settle(n)
    PROVE  /\ datastore' \in Callers \cup {NoStore}
           /\ removing' \in BOOLEAN
           /\ phase' \in [Callers -> {"none", "settled"} \cup Alive]
           /\ cancelled' \in [Callers -> BOOLEAN]
           /\ call' \in [Callers -> {"idle", "waiting", "polling", "granted",
                                     "released", "rejected"}]
           /\ pendingSaves' \subseteq Callers
           /\ awaited' \subseteq {"removal", "save"} \X Callers
<1>1. /\ datastore' \in Callers \cup {NoStore}
      /\ phase' \in [Callers -> {"none", "settled"} \cup Alive]
  <2>1. CASE Waiting = {}
    BY <2>1 DEF Settle, TypeOK
  <2>2. CASE Waiting # {}
    BY <2>2 DEF Settle, Waiting, TypeOK, Alive
  <2> QED
    BY <2>1, <2>2
<1>2. call' \in [Callers -> {"idle", "waiting", "polling", "granted",
                            "released", "rejected"}]
  BY DEF Settle, TypeOK
<1>3. /\ removing' \in BOOLEAN
      /\ cancelled' \in [Callers -> BOOLEAN]
      /\ pendingSaves' \subseteq Callers
      /\ awaited' \subseteq {"removal", "save"} \X Callers
  BY DEF Settle, TypeOK
<1> QED
  BY <1>1, <1>2, <1>3

\* The types of requests whose transform runs again.
LEMMA RerunTypes ==
    ASSUME NEW r \in [Callers -> {"idle", "issued", "transformed"}]
    PROVE  Rerun(r) \in [Callers -> {"idle", "issued", "transformed"}]
BY DEF Rerun

\* A failure is counted within its bound.
LEMMA FaultTypes ==
    ASSUME TypeOK, Fault
    PROVE  faults' \in 0 .. MaxFaults
BY ManagerAssumption DEF Fault, TypeOK

\* No step of a store leaves its type.
LEMMA StoreStepTypes ==
    ASSUME TypeOK, NEW n \in Callers, StoreStep(n)
    PROVE  TypeOK'
<1>1. CASE CallbacksReject(n)
  BY <1>1, SettleTypes, FaultTypes DEF CallbacksReject, TypeOK
<1>2. CASE CallbacksResolve(n)
  <2>1. CASE load[n] = "failed"
    BY <1>2, <2>1, SettleTypes DEF CallbacksResolve, TypeOK
  <2>2. CASE load[n] # "failed"
    BY <1>2, <2>2 DEF CallbacksResolve, TypeOK, Alive, BeingRemoved
  <2> QED
    BY <2>1, <2>2
<1>3. CASE IssueClose(n)
  BY <1>3 DEF IssueClose, TypeOK
<1>4. CASE LoadSucceeds(n)
  BY <1>4, RerunTypes DEF LoadSucceeds, TypeOK
<1>5. CASE LoadFails(n)
  <2>1. /\ load' \in [Callers -> {"none", "loaded", "failed"}]
        /\ faults' \in 0 .. MaxFaults
        /\ UNCHANGED <<present, save, close, holder, handleCount, shutdown, before, saves>>
    BY <1>5, FaultTypes DEF LoadFails, TypeOK
  <2>2. CASE RemovePlayerDataStoreNow /\ UNCHANGED <<call, cancelled, pendingSaves, awaited>>
    BY <2>1, <2>2, RemoveTypes DEF TypeOK
  <2>3. CASE Settle(n)
    BY <2>1, <2>3, SettleTypes DEF TypeOK
  <2>4. CASE UNCHANGED <<datastore, removing, phase, call, cancelled, pendingSaves, awaited>>
    BY <2>1, <2>4 DEF TypeOK
  <2> QED
    BY <1>5, <2>2, <2>3, <2>4 DEF LoadFails
<1>6. CASE Save(n)
  <2>1. /\ save' \in [Callers -> {"idle", "issued", "transformed"}]
        /\ saves' \in 0 .. MaxSaves
        /\ UNCHANGED <<present, load, close, holder, handleCount, shutdown, before, faults>>
    BY <1>6, ManagerAssumption DEF Save, TypeOK
  <2>2. CASE close[n] = "idle"
    <3>1. /\ cancelled' = [cancelled EXCEPT ![n] = FALSE]
          /\ pendingSaves' \subseteq pendingSaves \cup {n}
          /\ UNCHANGED <<datastore, removing, phase, call, awaited>>
      BY <1>6, <2>2 DEF Save
    <3>2. cancelled' \in [Callers -> BOOLEAN] /\ pendingSaves' \subseteq Callers
      BY <3>1 DEF TypeOK
    <3> QED
      BY <2>1, <3>1, <3>2 DEF TypeOK
  <2>3. CASE close[n] # "idle"
    BY <1>6, <2>1, <2>3, SettleTypes DEF Save, TypeOK
  <2> QED
    BY <2>2, <2>3
<1>7. CASE TransformSave(n) \/ SaveSuperseded(n) \/ TransformClose(n)
  BY <1>7 DEF TransformSave, SaveSuperseded, TransformClose, TypeOK
<1>8. CASE SaveStolen(n)
  BY <1>8, RemoveTypes DEF SaveStolen, SaveEnds, TypeOK
<1>9. CASE CommitSave(n)
  BY <1>9, RerunTypes DEF CommitSave, TypeOK
<1>10. CASE SaveFails(n)
  BY <1>10, FaultTypes DEF SaveFails, SaveEnds, TypeOK
<1>11. CASE CloseStolen(n)
  BY <1>11, SettleTypes DEF CloseStolen, TypeOK
<1>12. CASE CommitClose(n)
  <2>1. /\ holder' \in Callers \cup {NoStore, Other}
        /\ close' \in [Callers -> {"idle", "issued", "transformed"}]
        /\ save' \in [Callers -> {"idle", "issued", "transformed"}]
        /\ UNCHANGED <<present, load, handleCount, shutdown, before, saves, faults>>
    BY <1>12, RerunTypes DEF CommitClose, TypeOK
  <2>2. CASE Settle(n)
    BY <2>1, <2>2, SettleTypes DEF TypeOK
  <2>3. CASE UNCHANGED <<datastore, removing, phase, call, cancelled, pendingSaves, awaited>>
    BY <2>1, <2>3 DEF TypeOK
  <2> QED
    BY <1>12, <2>2, <2>3 DEF CommitClose
<1>13. CASE CloseFails(n)
  <2>1. /\ close' \in [Callers -> {"idle", "issued", "transformed"}]
        /\ faults' \in 0 .. MaxFaults
        /\ UNCHANGED <<present, load, save, holder, handleCount, shutdown, before, saves>>
    BY <1>13, FaultTypes DEF CloseFails, TypeOK
  <2>2. CASE Settle(n)
    BY <2>1, <2>2, SettleTypes DEF TypeOK
  <2>3. CASE UNCHANGED <<datastore, removing, phase, call, cancelled, pendingSaves, awaited>>
    BY <2>1, <2>3 DEF TypeOK
  <2> QED
    BY <1>13, <2>2, <2>3 DEF CloseFails
<1> QED
  BY <1>1, <1>2, <1>3, <1>4, <1>5, <1>6, <1>7, <1>8, <1>9, <1>10, <1>11, <1>12, <1>13
     DEF StoreStep

\* No call of the game leaves its type: a handle is released only once.
LEMMA CallStepTypes ==
    ASSUME TypeOK, Counts, NEW c \in Callers, CallStep(c)
    PROVE  TypeOK'
<1>1. CASE PromiseDataStore(c) \/ PromiseDataStoreHandle(c)
  <2>1. /\ handleCount' \in Nat
        /\ UNCHANGED <<present, removing, load, save, cancelled, close, holder,
                       pendingSaves, shutdown, awaited, before, saves, faults>>
    BY <1>1 DEF PromiseDataStore, PromiseDataStoreHandle, TypeOK
  <2>2. /\ datastore' \in Callers \cup {NoStore}
        /\ phase' \in [Callers -> {"none", "settled"} \cup Alive]
        /\ call' \in [Callers -> {"idle", "waiting", "polling", "granted",
                                  "released", "rejected"}]
    BY <1>1 DEF PromiseDataStore, PromiseDataStoreHandle, Open, TypeOK, Alive
  <2> QED
    BY <2>1, <2>2 DEF TypeOK
<1>2. CASE DestroyHandle(c) \/ PollTimesOut(c)
  <2>1. /\ call' \in [Callers -> {"idle", "waiting", "polling", "granted",
                                  "released", "rejected"}]
        /\ UNCHANGED <<present, load, save, cancelled, close, holder, pendingSaves,
                       shutdown, awaited, before, saves, faults>>
    BY <1>2 DEF DestroyHandle, PollTimesOut, TypeOK
  <2>2. CASE ReleaseDataStoreHandle /\ c \in Handles
    <3>1. c \in Holding
      BY <1>2, <2>2 DEF DestroyHandle, PollTimesOut, Holding
    <3>2. handleCount' \in Nat
      BY <2>2, <3>1, HoldingCounted DEF ReleaseDataStoreHandle, Counts
    <3>3. RemovePlayerDataStoreNow \/ UNCHANGED <<datastore, removing, phase>>
      BY <2>2 DEF ReleaseDataStoreHandle
    <3> QED
      BY <2>1, <3>2, <3>3, RemoveTypes DEF TypeOK
  <2>3. CASE UNCHANGED <<handleCount, datastore, removing, phase>>
    BY <2>1, <2>3 DEF TypeOK
  <2> QED
    BY <1>2, <2>2, <2>3 DEF DestroyHandle, PollTimesOut
<1> QED
  BY <1>1, <1>2 DEF CallStep

-----------------------------------------------------------------------------
(* The invariant                                                           *)

\* The invariant holds before the first call.
LEMMA InitInv == Init => IInv
<1> SUFFICES ASSUME Init PROVE IInv
  OBVIOUS
<1>1. TypeOK
  <2>1. /\ present \in BOOLEAN /\ removing \in BOOLEAN
        /\ datastore \in Callers \cup {NoStore}
        /\ phase \in [Callers -> {"none", "settled"} \cup Alive]
        /\ call \in [Callers -> {"idle", "waiting", "polling", "granted",
                                 "released", "rejected"}]
    BY DEF Init
  <2>2. /\ load \in [Callers -> {"none", "loaded", "failed"}]
        /\ save \in [Callers -> {"idle", "issued", "transformed"}]
        /\ cancelled \in [Callers -> BOOLEAN]
        /\ close \in [Callers -> {"idle", "issued", "transformed"}]
        /\ holder \in Callers \cup {NoStore, Other}
    BY DEF Init
  <2>3. /\ handleCount \in Nat
        /\ pendingSaves \subseteq Callers
        /\ shutdown \in {"none", "closing", "done", "raised"}
        /\ awaited \subseteq {"removal", "save"} \X Callers
        /\ before \subseteq Callers
        /\ saves \in 0 .. MaxSaves /\ faults \in 0 .. MaxFaults
    BY ManagerAssumption DEF Init
  <2> QED
    BY <2>1, <2>2, <2>3 DEF TypeOK
<1>2. Stores /\ Closes /\ Awaits
  BY ManagerAssumption DEF Init, Stores, Closes, Awaits, NoSaveLeftBehind, Alive, BeingRemoved
<1>3. Holding = {}
  BY ManagerAssumption DEF Init, Holding
<1>4. Counts
  BY <1>3, FS_EmptySet, ManagerAssumption DEF Init, Counts, HandlesLeaveNoStore
<1> QED
  BY <1>1, <1>2, <1>4 DEF IInv

\* Steps of the player, of other servers and of the closing server
LEMMA EnvironmentStep ==
    ASSUME IInv,
           \/ PlayerAdded \/ PlayerRemoving \/ RemovePlayerDataStore
           \/ \E session \in {Other, NoStore} : OtherServer(session)
           \/ PromiseAllSaves \/ AllSaved
    PROVE  IInv'
<1> USE DEF IInv
<1>1. CASE PlayerAdded
  <2>1. UNCHANGED <<datastore, removing, phase, load, save, cancelled, close, holder,
                    handleCount, call, pendingSaves, shutdown, awaited, before, saves,
                    faults>> /\ present' = TRUE
    BY <1>1 DEF PlayerAdded
  <2>2. Holding' = Holding
    BY <2>1 DEF Holding
  <2>3. TypeOK' /\ Stores' /\ Closes'
    BY <2>1 DEF TypeOK, Stores, Closes
  <2>4. Counts' /\ Awaits'
    BY <2>1, <2>2 DEF Counts, HandlesLeaveNoStore, Awaits, NoSaveLeftBehind
  <2> QED
    BY <2>3, <2>4
<1>2. CASE PlayerRemoving \/ RemovePlayerDataStore \/ PromiseAllSaves
  <2>1. /\ RemovePlayerDataStoreNow
        /\ present' \in BOOLEAN
        /\ UNCHANGED <<load, save, cancelled, close, holder, handleCount, call,
                       pendingSaves, saves, faults>>
    BY <1>2 DEF PlayerRemoving, RemovePlayerDataStore, PromiseAllSaves, TypeOK
  <2>2. /\ shutdown' \in {"none", "closing", "done", "raised"}
        /\ before' \subseteq Callers
        /\ awaited' \subseteq {"removal", "save"} \X Callers
    BY <1>2 DEF PlayerRemoving, RemovePlayerDataStore, PromiseAllSaves, TypeOK,
                LiveStores, PromisesToAwait
  <2>3. TypeOK'
    BY <2>1, <2>2, RemoveTypes DEF TypeOK
  <2>4. Stores' /\ Closes'
    BY <2>1, RemoveKeepsStores, RemoveKeepsCloses
  <2>5. Counts'
    <3>1. Holding' = Holding
      BY <2>1 DEF Holding
    <3>2. HandlesLeaveNoStore'
      BY <2>1, RemoveLeavesNoStore, ManagerAssumption DEF HandlesLeaveNoStore
    <3> QED
      BY <2>1, <3>1, <3>2 DEF Counts
  <2>6. Awaits'
    BY <1>2, RemoveKeepsAwaits, PromiseAllSavesAwaits
       DEF PlayerRemoving, RemovePlayerDataStore
  <2> QED
    BY <2>3, <2>4, <2>5, <2>6
<1>3. CASE \E session \in {Other, NoStore} : OtherServer(session)
  <2>1. PICK session \in {Other, NoStore} : OtherServer(session)
    BY <1>3
  <2>2. /\ UNCHANGED <<present, datastore, removing, phase, load, cancelled,
                       handleCount, call, pendingSaves, shutdown, awaited, before, saves>>
        /\ save' = Rerun(save) /\ close' = Rerun(close) /\ holder' = session
    BY <2>1 DEF OtherServer
  <2>3. faults' \in 0 .. MaxFaults
    BY <2>1, FaultTypes DEF OtherServer, TypeOK
  <2>4. TypeOK'
    BY <2>2, <2>3, RerunTypes DEF TypeOK
  <2>5. Stores' /\ Closes'
    BY <2>2 DEF Stores, Closes, Rerun
  <2>6. Holding' = Holding
    BY <2>2 DEF Holding
  <2>7. Counts' /\ Awaits'
    BY <2>2, <2>6 DEF Counts, HandlesLeaveNoStore, Awaits, NoSaveLeftBehind
  <2> QED
    BY <2>4, <2>5, <2>7
<1>4. CASE AllSaved
  <2>1. /\ UNCHANGED <<present, datastore, removing, phase, load, save, cancelled,
                       close, holder, handleCount, call, pendingSaves, awaited,
                       before, saves, faults>>
        /\ shutdown = "closing" /\ awaited = {} /\ shutdown' = "done"
    BY <1>4 DEF AllSaved
  <2>2. Holding' = Holding
    BY <2>1 DEF Holding
  <2>3. TypeOK' /\ Stores' /\ Closes'
    BY <2>1 DEF TypeOK, Stores, Closes
  <2>4. Counts' /\ Awaits'
    BY <2>1, <2>2 DEF Counts, HandlesLeaveNoStore, Awaits, NoSaveLeftBehind
  <2> QED
    BY <2>3, <2>4
<1> QED
  BY <1>1, <1>2, <1>3, <1>4

\* Every step keeps the invariant.
LEMMA NextInv == IInv /\ [Next]_vars => IInv'
<1> SUFFICES ASSUME IInv, [Next]_vars PROVE IInv'
  OBVIOUS
<1> USE DEF IInv
<1>1. CASE \E c \in Callers : CallStep(c)
  BY <1>1, CallStepTypes, CallStepKeepsStores, CallStepKeepsCloses,
     CallStepKeepsCounts, CallStepKeepsAwaits
<1>2. CASE \E n \in Callers : StoreStep(n)
  BY <1>2, StoreStepTypes, StoreStepKeepsStores, StoreStepKeepsCloses,
     StoreStepKeepsCounts, StoreStepKeepsAwaits
<1>3. CASE \/ PlayerAdded \/ PlayerRemoving \/ RemovePlayerDataStore
           \/ \E session \in {Other, NoStore} : OtherServer(session)
           \/ PromiseAllSaves \/ AllSaved
  BY <1>3, EnvironmentStep
<1>4. CASE UNCHANGED vars
  <2>1. Holding' = Holding
    BY <1>4 DEF vars, Holding
  <2>2. TypeOK' /\ Stores' /\ Closes'
    BY <1>4 DEF vars, TypeOK, Stores, Closes
  <2>3. Counts' /\ Awaits'
    BY <1>4, <2>1 DEF vars, Counts, HandlesLeaveNoStore, Awaits, NoSaveLeftBehind
  <2> QED
    BY <2>2, <2>3
<1> QED
  BY <1>1, <1>2, <1>3, <1>4 DEF Next

\* The inductive invariant holds in every reachable state.
LEMMA Invariance == Spec => []IInv
BY InitInv, NextInv, PTL DEF Spec

-----------------------------------------------------------------------------
(* Theorems                                                                *)

\* Every variable of the manager keeps its type: above all, no handle count
\* falls below zero.
THEOREM ManagerTypeCorrect == Spec => []TypeOK
<1>1. IInv => TypeOK
  BY DEF IInv
<1> QED
  BY <1>1, Invariance, PTL

\* A player never has two live stores on a server, whatever begins the
\* removal of the first and however it ends (PlayerDataStoreManager._removing).
THEOREM OneStoreAtATime == Spec => []OneLiveStore
<1>1. IInv => OneLiveStore
  BY DEF IInv, Stores, OneLiveStore, LiveStores
<1> QED
  BY <1>1, Invariance, PTL

\* A store that a handle opened is closed with its last handle, once the
\* player is gone (_releaseDataStoreHandle).
THEOREM HandlesCleanUp == Spec => []HandlesLeaveNoStore
<1>1. IInv => HandlesLeaveNoStore
  BY DEF IInv, Counts
<1> QED
  BY <1>1, Invariance, PTL

\* PromiseAllSaves waits for every store that was open when it was called.
THEOREM ServerWaitsForSaves == Spec => []NoSaveLeftBehind
<1>1. IInv => NoSaveLeftBehind
  BY DEF IInv, Awaits
<1> QED
  BY <1>1, Invariance, PTL

\* Only the last handle of an absent player closes a session, for any number
\* of handles (_releaseDataStoreHandle).
THEOREM LastHandleCloses == Spec => HandlesKeepStore
<1>1. ASSUME IInv, Next, NEW c \in Handles,
             call[c] = "granted", call'[c] = "released", phase' # phase
      PROVE  ~present /\ Holding = {c}
  <2>1. c \in Callers /\ c \in Holding
    BY <1>1, ManagerAssumption DEF Holding
  <2>2. DestroyHandle(c)
    <3>1. CASE \E d \in Callers : CallStep(d)
      <4>1. PICK d \in Callers : CallStep(d)
        BY <3>1
      <4>2. \A e \in Callers \ {d} : call'[e] = call[e]
        BY <1>1, <4>1 DEF CallStep, PromiseDataStore, PromiseDataStoreHandle, Open,
                          DestroyHandle, PollTimesOut, IInv, TypeOK
      <4>3. d = c
        BY <1>1, <2>1, <4>2
      <4> QED
        BY <1>1, <4>1, <4>3 DEF CallStep, PromiseDataStore, PromiseDataStoreHandle,
                                PollTimesOut
    <3>2. CASE \E n \in Callers : StoreStep(n)
      <4>1. PICK n \in Callers : StoreStep(n)
        BY <3>2
      <4>2. Settles(n) \/ UNCHANGED call
        BY <1>1, <4>1, StoreStepCases DEF Begins, StartsClosing, LeavesAlone, IInv
      <4>3. call'[c] = call[c]
        BY <1>1, <2>1, <4>2 DEF Settles, Settle, Waiting
      <4> QED
        BY <1>1, <4>3
    <3>3. CASE UNCHANGED call
      BY <1>1, <3>3
    <3> QED
      BY <1>1, <3>1, <3>2, <3>3 DEF Next, PlayerAdded, PlayerRemoving,
         RemovePlayerDataStore, OtherServer, PromiseAllSaves, AllSaved
  <2>3. ~(handleCount > 1 \/ present)
    BY <1>1, <2>2 DEF DestroyHandle, ReleaseDataStoreHandle
  <2>4. Holding \ {c} = {}
    BY <1>1, <2>1, <2>3, HoldingCounted DEF IInv, Counts
  <2> QED
    BY <2>1, <2>3, <2>4
<1>2. ASSUME IInv, [Next]_vars
      PROVE  [\A c \in Handles :
                /\ call[c] = "granted" /\ call'[c] = "released"
                /\ phase' # phase
                => ~present /\ Holding = {c}]_vars
  BY <1>1, <1>2
<1> QED
  BY <1>2, Invariance, PTL DEF HandlesKeepStore, Spec

=============================================================================
