-------------------------- MODULE SharedDataStoreProofs --------------------------
(***************************************************************************)
(* What the operators of DataStoreStage return, and from it the safety    *)
(* properties of SharedDataStore for any servers, keys, values and bounds. *)
(***************************************************************************)
EXTENDS SharedDataStore, TLAPS

\* A key belongs to one of the two stages.
LEMMA StageTypes ==
    ASSUME NEW key \in Keys
    PROVE  StageOf(key) \in Stages
  BY DEF StageOf, Stages, Keys

\* The values the variables start with.
LEMMA StartTypes ==
    /\ EmptyTable \in Table
    /\ NothingStaged \in StagedData
    /\ Missing \in Profile
    /\ [Missing EXCEPT !.exists = KeyExists] \in Profile
    /\ NoRead \in Reads
    /\ NoWrite \in Writes
  <1>1. EmptyTable \in Table /\ \A keys \in SUBSET Keys : ~HasData(EmptyTable, keys)
    BY DEF EmptyTable, Table, HasData
  <1>2. NothingStaged \in StagedData
    BY DEF NothingStaged, StagedData, Stages
  <1>3. Missing \in Profile /\ [Missing EXCEPT !.exists = KeyExists] \in Profile
    BY <1>1, SharedAssumption DEF Missing, Profile, Keys
  <1>4. NoRead \in Reads
    BY <1>3 DEF NoRead, Reads
  <1>5. NoWrite \in Writes
    BY <1>1, <1>2, <1>3 DEF NoWrite, Writes
  <1> QED BY <1>1, <1>2, <1>3, <1>4, <1>5

\* What a staged value leaves is a value or nothing.
LEMMA WrittenType ==
    ASSUME NEW value \in Values \cup {Deleted}
    PROVE  Written(value) \in Values \cup {Absent}
  BY DEF Written

\* A value stored under a key leaves staged data well formed (_storeAtKey).
LEMMA StoreType ==
    ASSUME NEW old \in StagedData, NEW key \in Keys, NEW value \in Values \cup {Deleted}
    PROVE  StoreAtKey(old, key, value) \in StagedData
  <1> DEFINE new == StoreAtKey(old, key, value)
  <1>1. StageOf(key) \in Stages
    BY StageTypes
  <1>2. /\ new.mode \in [Stages -> {"none", "table", "wipe"}]
        /\ new.at \in [Keys -> Values \cup {Deleted, Unstaged}]
    BY <1>1 DEF StoreAtKey, StagedData
  <1>3. ASSUME NEW each \in Keys, new.at[each] # Unstaged
        PROVE  new.mode[StageOf(each)] = "table"
    BY <1>1, <1>3, StageTypes DEF StoreAtKey, StagedData
  <1> QED BY <1>2, <1>3 DEF StoreAtKey, StagedData

\* A wipe leaves staged data well formed.
LEMMA WipedType ==
    ASSUME NEW old \in StagedData, NEW target \in Stages
    PROVE  Wiped(old, target) \in StagedData
  <1> DEFINE new == Wiped(old, target)
  <1>1. /\ new.mode \in [Stages -> {"none", "table", "wipe"}]
        /\ new.at \in [Keys -> Values \cup {Deleted, Unstaged}]
    BY DEF Wiped, StagedData
  <1>2. ASSUME NEW each \in Keys, new.at[each] # Unstaged
        PROVE  new.mode[StageOf(each)] = "table"
    BY <1>2, StageTypes DEF Wiped, StagedData
  <1> QED BY <1>1, <1>2 DEF Wiped, StagedData

\* So does an overwrite.
LEMMA OverwrittenType ==
    ASSUME NEW old \in StagedData, NEW target \in Stages, NEW table \in Table
    PROVE  Overwritten(old, target, table) \in StagedData
  <1> DEFINE new == Overwritten(old, target, table)
  <1>1. /\ new.mode \in [Stages -> {"none", "table", "wipe"}]
        /\ new.at \in [Keys -> Values \cup {Deleted, Unstaged}]
    BY DEF Overwritten, StagedData, Table
  <1>2. ASSUME NEW each \in Keys, new.at[each] # Unstaged
        PROVE  new.mode[StageOf(each)] = "table"
    <2>1. StageOf(each) \in Stages
      BY StageTypes
    <2>2. CASE StageOf(each) \notin Subtree(target)
      BY <1>2, <2>1, <2>2 DEF Overwritten, StagedData
    <2>3. CASE StageOf(each) \in Subtree(target)
      <3>1. table[each] # Absent
        BY <1>2, <2>3 DEF Overwritten
      <3>2. StageOf(each) = target \/ (StageOf(each) = "sub" /\ each \in SubKeys)
        BY <2>3 DEF Subtree, StageOf, Stages
      <3> QED BY <2>1, <2>3, <3>1, <3>2 DEF Overwritten, HasData
    <2> QED BY <2>2, <2>3
  <1> QED BY <1>1, <1>2 DEF Overwritten, StagedData

\* Marking a writer's data as saved leaves both snapshots well formed.
LEMMA MarkedTypes ==
    ASSUME NEW old \in Table, NEW now \in StagedData, NEW data \in StagedData
    PROVE  /\ MarkedBase(old, now, data) \in Table
           /\ MarkedStaged(now, data) \in StagedData
  <1> DEFINE new == MarkedStaged(now, data)
  <1>1. ASSUME NEW key \in Keys
        PROVE  MarkedBase(old, now, data)[key] \in Values \cup {Absent}
    <2>1. CASE key \in SavedKeys(now, data)
      <3>1. data.at[key] \in Values \cup {Deleted}
        BY <2>1 DEF SavedKeys, StagedData
      <3> QED BY <2>1, <3>1, WrittenType DEF MarkedBase
    <2>2. CASE key \notin SavedKeys(now, data)
      BY <2>2 DEF MarkedBase, Table
    <2> QED BY <2>1, <2>2
  <1>2. MarkedBase(old, now, data) \in Table
    <2>1. MarkedBase(old, now, data) = [key \in Keys |-> MarkedBase(old, now, data)[key]]
      BY DEF MarkedBase
    <2> QED BY <1>1, <2>1 DEF Table
  <1>3. /\ new.mode \in [Stages -> {"none", "table", "wipe"}]
        /\ new.at \in [Keys -> Values \cup {Deleted, Unstaged}]
    BY DEF MarkedStaged, StagedData
  <1>4. ASSUME NEW key \in Keys, new.at[key] # Unstaged
        PROVE  new.mode[StageOf(key)] = "table"
    <2>1. /\ now.at[key] = new.at[key]
          /\ key \notin SavedKeys(now, data)
      BY <1>4 DEF MarkedStaged
    <2>2. now.mode[StageOf(key)] = "table"
      BY <1>4, <2>1 DEF StagedData
    <2>3. StageOf(key) \notin ForgettingStages(now, data)
      BY <2>2 DEF ForgettingStages
    <2> QED BY <1>4, <2>1, <2>2, <2>3, StageTypes DEF MarkedStaged
  <1>5. new = [mode |-> new.mode, at |-> new.at]
    BY DEF MarkedStaged
  <1> QED BY <1>2, <1>3, <1>4, <1>5 DEF StagedData

\* Merging a difference leaves a table.
LEMMA MergedType ==
    ASSUME NEW old \in Table, NEW was \in Table, NEW data \in StagedData,
           NEW profile \in Profile
    PROVE  MergeDiffSnapshot(old, ComputeDiffSnapshot(data, was, profile)) \in Table
  <1> DEFINE diff == ComputeDiffSnapshot(data, was, profile)
  <1>1. ASSUME NEW key \in Keys
        PROVE  diff.at[key] \in Values \cup {Deleted, Unstaged}
    BY DEF ComputeDiffSnapshot, ValueDiff, Table, Profile
  <1>2. ASSUME NEW key \in Keys
        PROVE  MergeDiffSnapshot(old, diff)[key] \in Values \cup {Absent}
    <2> HIDE DEF diff
    <2> QED BY <1>1 DEF MergeDiffSnapshot, Written, Table
  <1>3. MergeDiffSnapshot(old, diff) = [key \in Keys |-> MergeDiffSnapshot(old, diff)[key]]
    BY DEF MergeDiffSnapshot
  <1> QED BY <1>2, <1>3 DEF Table

\* What a writer makes of a profile is a profile.
LEMMA WriteMergeType ==
    ASSUME NEW data \in StagedData, NEW profile \in Profile
    PROVE  WriteMerge(data, profile) \in Profile
  <1> DEFINE new == WriteMerge(data, profile)
  <1>1. ASSUME NEW key \in Keys
        PROVE  new.at[key] \in Values \cup {Absent}
    <2>1. CASE data.at[key] = Unstaged
      BY <2>1 DEF WriteMerge, Profile, Table
    <2>2. CASE data.at[key] # Unstaged
      <3>1. data.at[key] \in Values \cup {Deleted}
        BY <2>2 DEF StagedData
      <3> QED BY <2>2, <3>1, WrittenType DEF WriteMerge
    <2> QED BY <2>1, <2>2
  <1>2. new.at \in Table
    BY <1>1 DEF WriteMerge, Table
  <1>3. new.exists = TRUE /\ new.sub \in BOOLEAN
    BY DEF WriteMerge, Profile
  <1>4. HasData(new.at, SubKeys) => new.sub
    <2>1. SUFFICES ASSUME NEW key \in SubKeys, new.at[key] # Absent
                   PROVE  new.sub
      BY DEF HasData
    <2>2. key \in Keys /\ StageOf(key) = "sub"
      BY DEF Keys, StageOf
    <2>3. data.mode["sub"] # "wipe"
      BY <2>1, <2>2 DEF WriteMerge
    <2>4. CASE data.at[key] = Unstaged
      <3>1. profile.at[key] # Absent
        BY <2>1, <2>2, <2>3, <2>4 DEF WriteMerge
      <3>2. profile.sub
        BY <3>1 DEF Profile, HasData
      <3> QED BY <2>3, <3>2 DEF WriteMerge
    <2>5. CASE data.at[key] # Unstaged
      BY <2>3, <2>5 DEF WriteMerge
    <2> QED BY <2>4, <2>5
  <1>5. new = [exists |-> new.exists, sub |-> new.sub, at |-> new.at]
    BY DEF WriteMerge
  <1> QED BY <1>2, <1>3, <1>4, <1>5 DEF Profile

\* The difference of an existing profile to a base, merged into that base,
\* gives the profile, whatever is staged.
LEMMA DiffMergesToProfile ==
    ASSUME NEW old \in Table, NEW data \in StagedData, NEW profile \in Profile,
           profile.exists
    PROVE  MergeDiffSnapshot(old, ComputeDiffSnapshot(data, old, profile)) = profile.at
  <1> DEFINE diff == ComputeDiffSnapshot(data, old, profile)
             new == MergeDiffSnapshot(old, diff)
  <1>1. new \in [Keys -> Values \cup {Absent}] /\ profile.at \in [Keys -> Values \cup {Absent}]
    BY MergedType DEF Table, Profile
  <1>2. ASSUME NEW key \in Keys
        PROVE  new[key] = profile.at[key]
    <2>1. /\ old[key] \in Values \cup {Absent}
          /\ profile.at[key] \in Values \cup {Absent}
      BY DEF Table, Profile
    <2>2. CASE StageOf(key) \in diff.dropped
      <3>1. profile.at[key] = Absent
        <4>1. StageOf(key) \in DroppedStages(data, old, profile)
          BY <2>2 DEF ComputeDiffSnapshot
        <4>2. StageOf(key) = "root" => key \in RawKeys
          BY DEF StageOf, Keys
        <4>3. StageOf(key) = "sub" => key \in SubKeys
          BY DEF StageOf
        <4>4. CASE StageOf(key) = "root"
          BY <4>1, <4>2, <4>4 DEF DroppedStages, HasData
        <4>5. CASE StageOf(key) = "sub"
          <5>1. ~HasData(profile.at, SubKeys)
            BY <4>1, <4>5 DEF DroppedStages, Profile
          <5> QED BY <4>3, <4>5, <5>1 DEF HasData
        <4> QED BY <4>4, <4>5, StageTypes DEF Stages
      <3> QED BY <2>2, <3>1 DEF MergeDiffSnapshot
    <2>3. CASE StageOf(key) \notin diff.dropped
      <3>1. diff.at[key] = ValueDiff(old[key], profile.at[key])
        BY DEF ComputeDiffSnapshot
      <3>2. new[key] = IF diff.at[key] = Unstaged THEN old[key] ELSE Written(diff.at[key])
        BY <2>3 DEF MergeDiffSnapshot
      <3> HIDE DEF diff, new
      <3> QED BY <2>1, <3>1, <3>2, StageAssumption DEF ValueDiff, Written
    <2> QED BY <2>2, <2>3
  <1>3. new = [key \in Keys |-> new[key]] /\ profile.at = [key \in Keys |-> profile.at[key]]
    BY <1>1
  <1> HIDE DEF new
  <1>4. new = profile.at
    BY <1>2, <1>3
  <1> QED BY <1>4 DEF new

(***************************************************************************)
(* Type correctness.                                                       *)
(***************************************************************************)

\* A request the server sends is well formed.
LEMMA SendsType ==
    ASSUME NEW s \in Servers, NEW merge \in BOOLEAN, TypeOK
    PROVE  [NoWrite EXCEPT !.phase = "sent", !.merge = merge,
                           !.data = staged[s], !.base = base[s]] \in Writes
  BY StartTypes DEF TypeOK, Writes

\* The initial states are typed.
LEMMA InitType == Init => TypeOK
  <1> SUFFICES ASSUME Init PROVE TypeOK
    OBVIOUS
  <1>1. NothingDue \in [Keys -> Values \cup {Deleted, Unstaged}]
    BY DEF NothingDue
  <1> QED BY <1>1, StartTypes, SharedAssumption DEF Init, TypeOK

\* Every step leaves the variables typed.
LEMMA TypeStep == TypeOK /\ [Next]_vars => TypeOK'
  <1> SUFFICES ASSUME TypeOK, [Next]_vars PROVE TypeOK'
    OBVIOUS
  <1> USE SharedAssumption, StartTypes
  <1>1. CASE UNCHANGED vars
    BY <1>1 DEF TypeOK, vars
  <1>2. CASE Next
    <2>1. PICK s \in Servers :
             \/ Game(s) \/ Datastore(s) \/ Fails(s)
             \/ Load(s) \/ SyncReads(s)
             \/ SyncWrites(s) \/ Save(s)
      BY <1>2 DEF Next
    <2>2. ASSUME NEW key \in Keys, NEW value \in Values \cup {Deleted}, Store(s, key, value)
          PROVE  TypeOK'
      <3>1. StoreAtKey(staged[s], key, value) \in StagedData
        BY StoreType DEF TypeOK
      <3> QED BY <2>2, <3>1 DEF TypeOK, Store, GameStages, GameActs, requests
    <2>3. ASSUME NEW target \in Stages, NEW new \in StagedData,
                 GameStages(s), staged' = [staged EXCEPT ![s] = new], Replaces(s, target)
          PROVE  TypeOK'
      <3>1. staged' \in [Servers -> StagedData]
        BY <2>3 DEF TypeOK
      <3>2. \A key \in Keys : /\ staged'[s].at[key] \in Values \cup {Deleted, Unstaged}
                              /\ due[s][key] \in Values \cup {Deleted, Unstaged}
        BY <3>1 DEF TypeOK, StagedData
      <3>3. /\ due' \in [Servers -> [Keys -> Values \cup {Deleted, Unstaged}]]
            /\ lost' \in [Servers -> SUBSET Keys]
        BY <2>3, <3>2 DEF TypeOK, Replaces
      <3> QED BY <2>3, <3>1, <3>3 DEF TypeOK, GameStages, GameActs, requests
    <2>4. ASSUME NEW target \in Stages, Wipe(s, target)
          PROVE  TypeOK'
      BY <2>3, <2>4, WipedType DEF Wipe, TypeOK
    <2>5. ASSUME NEW target \in Stages, NEW table \in Table, Overwrite(s, target, table)
          PROVE  TypeOK'
      BY <2>3, <2>5, OverwrittenType DEF Overwrite, TypeOK
    <2>6. CASE Load(s)
      BY <2>6 DEF TypeOK, Load, Ask, Reads, snapshots
    <2>7. CASE ReadReturns(s)
      <3>1. MergeDiffSnapshot(base[s], ComputeDiffSnapshot(staged[s], base[s], read[s].seen))
              \in Table
        BY MergedType DEF TypeOK, Reads
      <3> QED BY <2>7, <3>1 DEF TypeOK, ReadReturns
    <2>8. CASE ReadFails(s)
      BY <2>8 DEF TypeOK, ReadFails, Fault, snapshots
    <2>9. CASE SyncReads(s)
      BY <2>9 DEF TypeOK, SyncReads, Ask, Reads, snapshots
    <2>10. ASSUME NEW merge \in BOOLEAN, Sends(s, merge), UNCHANGED acts \/ GameActs
           PROVE  TypeOK'
      <3>1. write' \in [Servers -> Writes] /\ orphan' \in [Servers -> Writes]
        BY <2>10, SendsType DEF Sends, TypeOK
      <3> QED BY <2>10, <3>1 DEF Sends, TypeOK, GameActs, snapshots
    <2>11. CASE Transform(s)
      <3> DEFINE request == write[s]
      <3>1. request \in Writes /\ cloud \in Profile
        BY DEF TypeOK
      <3>2. write' \in [Servers -> Writes]
        BY <2>11, <3>1 DEF Transform, TypeOK, Writes
      <3>3. /\ MarkedBase(base[s], staged[s], request.data) \in Table
            /\ MarkedStaged(staged[s], request.data) \in StagedData
        BY <3>1, MarkedTypes DEF TypeOK, Writes
      <3>4. MergeDiffSnapshot(MarkedBase(base[s], staged[s], request.data),
                              ComputeDiffSnapshot(request.data, request.base, cloud)) \in Table
        BY <3>1, <3>3, MergedType DEF Writes
      <3>5. base' \in [Servers -> Table] /\ staged' \in [Servers -> StagedData]
        BY <2>11, <3>3, <3>4 DEF Transform, TypeOK, snapshots
      <3> QED BY <2>11, <3>2, <3>5 DEF Transform, TypeOK
    <2>12. ASSUME NEW request \in Writes, Landed(s, request)
           PROVE  due' \in [Servers -> [Keys -> Values \cup {Deleted, Unstaged}]]
      BY <2>12 DEF Landed, TypeOK
    <2>13. ASSUME NEW request \in Writes, GivenUp(s, request)
           PROVE  lost' \in [Servers -> SUBSET Keys]
      BY <2>13 DEF GivenUp, TypeOK
    <2>14. CASE WriteLands(s)
      <3>1. write[s] \in Writes
        BY DEF TypeOK
      <3>2. WriteMerge(write[s].data, write[s].seen) \in Profile
        BY <3>1, WriteMergeType DEF Writes
      <3> QED BY <2>12, <2>14, <3>1, <3>2 DEF WriteLands, TypeOK, snapshots
    <2>15. CASE RemoveLands(s)
      <3>1. write[s] \in Writes
        BY DEF TypeOK
      <3>2. /\ MarkedBase(base[s], staged[s], write[s].data) \in Table
            /\ MarkedStaged(staged[s], write[s].data) \in StagedData
        BY <3>1, MarkedTypes DEF TypeOK, Writes
      <3>3. SavedKeys(staged[s], write[s].data) \subseteq Keys
        BY DEF SavedKeys
      <3>4. lost' \in [Servers -> SUBSET Keys]
        BY <2>15, <3>3 DEF RemoveLands, TypeOK
      <3>5. base' \in [Servers -> Table] /\ staged' \in [Servers -> StagedData]
        BY <2>15, <3>2 DEF RemoveLands, TypeOK, snapshots
      <3>6. read' \in [Servers -> Reads]
        <4>1. [asked |-> TRUE, seen |-> Missing] \in Reads
          BY DEF Reads
        <4>2. read' = [read EXCEPT ![s] = [asked |-> TRUE, seen |-> Missing]] \/ read' = read
          BY <2>15 DEF RemoveLands, Ask
        <4> QED BY <4>1, <4>2 DEF TypeOK
      <3> QED BY <2>15, <3>4, <3>5, <3>6 DEF RemoveLands, TypeOK
    <2>16. CASE WriteFails(s)
      <3>1. write[s] \in Writes
        BY DEF TypeOK
      <3> QED BY <2>13, <2>16, <3>1 DEF WriteFails, Fault, TypeOK, snapshots
    <2>17. CASE OrphanLands(s)
      <3>1. orphan[s] \in Writes
        BY DEF TypeOK
      <3>2. WriteMerge(orphan[s].data, orphan[s].seen) \in Profile
        BY <3>1, WriteMergeType DEF Writes
      <3>3. cloud' \in Profile
        BY <2>17, <3>2 DEF OrphanLands
      <3> QED BY <2>12, <2>17, <3>1, <3>3 DEF OrphanLands, TypeOK, snapshots
    <2>18. CASE OrphanCancelled(s)
      <3>1. orphan[s] \in Writes
        BY DEF TypeOK
      <3> QED BY <2>13, <2>18, <3>1 DEF OrphanCancelled, TypeOK, snapshots
    <2>19. CASE OrphanFails(s)
      <3>1. orphan[s] \in Writes
        BY DEF TypeOK
      <3> QED BY <2>13, <2>19, <3>1 DEF OrphanFails, Fault, TypeOK, snapshots
    <2> QED BY <2>1, <2>2, <2>4, <2>5, <2>6, <2>7, <2>8, <2>9, <2>10, <2>11, <2>14,
               <2>15, <2>16, <2>17, <2>18, <2>19
            DEF Game, Datastore, Fails, SyncWrites, Save
  <1> QED BY <1>1, <1>2

\* In every reachable state the variables are typed.
THEOREM SharedTypeCorrect == Spec => []TypeOK
  <1> QED BY InitType, TypeStep, PTL DEF Spec

(***************************************************************************)
(* What a step does to the datastore, and a read to a server.              *)
(***************************************************************************)

\* A key that WriteMerge changes was staged in the writer.
LEMMA WriteMergeKeeps ==
    ASSUME NEW data \in StagedData, NEW profile \in Profile, NEW key \in Keys,
           WriteMerge(data, profile).at[key] # profile.at[key]
    PROVE  \/ data.mode[StageOf(key)] = "wipe"
           \/ WriteMerge(data, profile).at[key] = Written(data.at[key])
  BY DEF WriteMerge

\* Only requests on their way change the datastore, and only what they carry.
THEOREM ServersWriteTheirOwn == Spec => WritesItsOwn
  <1>1. ASSUME TypeOK, [Next]_vars, NEW key \in Keys, cloud'.at[key] # cloud.at[key]
        PROVE  \E s \in Servers : \E request \in {write[s], orphan[s]} :
                  /\ request.phase # "idle"
                  /\ \/ request.data.mode[StageOf(key)] = "wipe"
                     \/ IsCompleteWipe(request.data)
                     \/ cloud'.at[key] = Written(request.data.at[key])
    <2>1. cloud' # cloud
      BY <1>1
    <2>2. PICK s \in Servers : WriteLands(s) \/ RemoveLands(s) \/ OrphanLands(s)
      BY <1>1, <2>1 DEF Next, vars, Game, Datastore, Fails, Store, Wipe, Overwrite,
           GameStages, GameActs, Load, ReadReturns, ReadFails, SyncReads, SyncWrites, Save,
           Sends, Transform, WriteFails, OrphanCancelled, OrphanFails
    <2>3. CASE WriteLands(s)
      <3>1. /\ write[s].data \in StagedData /\ write[s].seen \in Profile
            /\ cloud' = WriteMerge(write[s].data, write[s].seen)
            /\ cloud = write[s].seen /\ write[s].phase # "idle"
        BY <1>1, <2>3 DEF WriteLands, TypeOK, Writes
      <3>2. \/ write[s].data.mode[StageOf(key)] = "wipe"
            \/ cloud'.at[key] = Written(write[s].data.at[key])
        BY <1>1, <3>1, WriteMergeKeeps
      <3> QED BY <3>1, <3>2
    <2>4. CASE RemoveLands(s)
      <3>1. write[s].phase # "idle" /\ IsCompleteWipe(write[s].data)
        BY <2>4 DEF RemoveLands
      <3> QED BY <3>1
    <2>5. CASE OrphanLands(s)
      <3>1. CASE IsCompleteWipe(orphan[s].data)
        <4>1. orphan[s].phase # "idle"
          BY <2>5 DEF OrphanLands
        <4> QED BY <3>1, <4>1
      <3>2. CASE ~IsCompleteWipe(orphan[s].data)
        <4>1. /\ orphan[s].data \in StagedData /\ orphan[s].seen \in Profile
              /\ cloud' = WriteMerge(orphan[s].data, orphan[s].seen)
              /\ cloud = orphan[s].seen /\ orphan[s].phase # "idle"
          BY <1>1, <2>5, <3>2 DEF OrphanLands, TypeOK, Writes
        <4>2. \/ orphan[s].data.mode[StageOf(key)] = "wipe"
              \/ cloud'.at[key] = Written(orphan[s].data.at[key])
          BY <1>1, <4>1, WriteMergeKeeps
        <4> QED BY <4>1, <4>2
      <3> QED BY <3>1, <3>2
    <2> QED BY <2>2, <2>3, <2>4, <2>5
  <1>2. TypeOK /\ [Next]_vars =>
            [\A key \in Keys : cloud'.at[key] # cloud.at[key] =>
               \E s \in Servers : \E request \in {write[s], orphan[s]} :
                  /\ request.phase # "idle"
                  /\ \/ request.data.mode[StageOf(key)] = "wipe"
                     \/ IsCompleteWipe(request.data)
                     \/ cloud'.at[key] = Written(request.data.at[key])]_vars
    BY <1>1
  <1> QED BY <1>2, SharedTypeCorrect, PTL DEF Spec, WritesItsOwn

\* A read of an existing key brings a server up to date with it.
THEOREM ReadsBringUpToDate == Spec => ReadsRefresh
  <1>1. ASSUME TypeOK, NEW s \in Servers, ReadReturns(s), read[s].seen.exists
        PROVE  base'[s] = read[s].seen.at
    <2>1. base'[s] = MergeDiffSnapshot(base[s],
                        ComputeDiffSnapshot(staged[s], base[s], read[s].seen))
      BY <1>1 DEF ReadReturns, TypeOK
    <2>2. base[s] \in Table /\ staged[s] \in StagedData /\ read[s].seen \in Profile
      BY <1>1 DEF TypeOK, Reads
    <2> QED BY <1>1, <2>1, <2>2, DiffMergesToProfile
  <1>2. TypeOK /\ [Next]_vars =>
            [\A s \in Servers :
                ReadReturns(s) /\ read[s].seen.exists => base'[s] = read[s].seen.at]_vars
    BY <1>1
  <1> QED BY <1>2, SharedTypeCorrect, PTL DEF Spec, ReadsRefresh

(***************************************************************************)
(* What the game stored is held.  A request that does not merge may carry  *)
(* a value, but does not take it out of the staged data: the invariant     *)
(* relies only on the requests that merge.                                 *)
(***************************************************************************)

Keeps(s, key) ==
    \/ staged[s].at[key] = due[s][key]
    \/ write[s].merge /\ Carries(write[s], key, due[s][key])
    \/ orphan[s].merge /\ Carries(orphan[s], key, due[s][key])

KeepsDue(s) == \A key \in Keys : due[s][key] # Unstaged => Keeps(s, key) \/ key \in lost[s]

\* Nothing is due at first.
LEMMA InitKeeps == Init => \A s \in Servers : KeepsDue(s)
  BY DEF Init, KeepsDue, NothingDue

\* A server's part of the invariant depends on its own variables only.
LEMMA OthersKeep ==
    ASSUME NEW s \in Servers, KeepsDue(s),
           staged'[s] = staged[s], due'[s] = due[s], lost'[s] = lost[s],
           write'[s] = write[s], orphan'[s] = orphan[s]
    PROVE  KeepsDue(s)'
  BY DEF KeepsDue, Keeps, Carries

\* A step changes these variables of one server.
LEMMA OneServer ==
    ASSUME TypeOK, Next
    PROVE  \E s \in Servers :
              /\ Game(s) \/ Datastore(s) \/ Fails(s)
                   \/ Load(s) \/ SyncReads(s) \/ SyncWrites(s) \/ Save(s)
              /\ \A other \in Servers \ {s} :
                    /\ staged'[other] = staged[other] /\ due'[other] = due[other]
                    /\ lost'[other] = lost[other]
                    /\ write'[other] = write[other] /\ orphan'[other] = orphan[other]
  <1>1. PICK s \in Servers :
           Game(s) \/ Datastore(s) \/ Fails(s)
             \/ Load(s) \/ SyncReads(s) \/ SyncWrites(s) \/ Save(s)
    BY DEF Next
  <1>2. SUFFICES ASSUME NEW other \in Servers \ {s}
                 PROVE  /\ staged'[other] = staged[other] /\ due'[other] = due[other]
                        /\ lost'[other] = lost[other]
                        /\ write'[other] = write[other] /\ orphan'[other] = orphan[other]
    BY <1>1
  <1>3. CASE Game(s)
    BY <1>3 DEF Game, Store, Wipe, Overwrite, Replaces, GameStages, requests, TypeOK
  <1>4. CASE Datastore(s)
    BY <1>4 DEF Datastore, ReadReturns, Transform, WriteLands, RemoveLands, OrphanLands,
         OrphanCancelled, Landed, GivenUp, snapshots, TypeOK
  <1>5. CASE Fails(s)
    BY <1>5 DEF Fails, ReadFails, WriteFails, OrphanFails, GivenUp, snapshots, TypeOK
  <1>6. CASE Load(s) \/ SyncReads(s) \/ SyncWrites(s) \/ Save(s)
    BY <1>6 DEF Load, SyncReads, SyncWrites, Save, Sends, snapshots, TypeOK
  <1> QED BY <1>1, <1>3, <1>4, <1>5, <1>6

\* The server that takes the step holds what is due to it.
LEMMA StepKeeps ==
    ASSUME TypeOK, NEW s \in Servers, KeepsDue(s),
           Game(s) \/ Datastore(s) \/ Fails(s)
             \/ Load(s) \/ SyncReads(s) \/ SyncWrites(s) \/ Save(s)
    PROVE  KeepsDue(s)'
  <1> SUFFICES ASSUME NEW key \in Keys, due'[s][key] # Unstaged
               PROVE  Keeps(s, key)' \/ key \in lost'[s]
    BY DEF KeepsDue
  <1> DEFINE before == due[s][key] # Unstaged => Keeps(s, key) \/ key \in lost[s]
  <1>1. before
    BY DEF KeepsDue
  <1> HIDE DEF before
  <1>2. ASSUME NEW k \in Keys, NEW value \in Values \cup {Deleted}, Store(s, k, value)
        PROVE  Keeps(s, key)' \/ key \in lost'[s]
    <2>1. /\ staged'[s] = StoreAtKey(staged[s], k, value)
          /\ due'[s] = [due[s] EXCEPT ![k] = value]
          /\ lost'[s] = lost[s] \ {k}
          /\ write' = write /\ orphan' = orphan
      BY <1>2 DEF Store, GameStages, requests, TypeOK
    <2>2. due[s] \in [Keys -> Values \cup {Deleted, Unstaged}]
          /\ staged[s].at \in [Keys -> Values \cup {Deleted, Unstaged}]
      BY DEF TypeOK, StagedData
    <2>3. CASE key = k
      BY <2>1, <2>2, <2>3 DEF Keeps, StoreAtKey
    <2>4. CASE key # k
      BY <1>1, <2>1, <2>2, <2>4 DEF before, Keeps, StoreAtKey, Carries
    <2> QED BY <2>3, <2>4
  <1>3. ASSUME NEW target \in Stages, Replaces(s, target), GameStages(s),
               StageOf(key) \notin Subtree(target) => staged'[s].at[key] = staged[s].at[key]
        PROVE  Keeps(s, key)' \/ key \in lost'[s]
    <2>1. /\ due'[s][key] = IF StageOf(key) \in Subtree(target)
                            THEN staged'[s].at[key] ELSE due[s][key]
          /\ StageOf(key) \notin Subtree(target) /\ key \in lost[s] => key \in lost'[s]
          /\ write' = write /\ orphan' = orphan
      BY <1>3 DEF Replaces, GameStages, requests, TypeOK
    <2> QED BY <1>1, <1>3, <2>1 DEF before, Keeps, Carries
  <1>4. ASSUME NEW target \in Stages, Wipe(s, target)
        PROVE  Keeps(s, key)' \/ key \in lost'[s]
    <2>1. staged'[s] = Wiped(staged[s], target)
      BY <1>4 DEF Wipe, TypeOK
    <2>2. StageOf(key) \notin Subtree(target) => staged'[s].at[key] = staged[s].at[key]
      BY <2>1 DEF Wiped
    <2> QED BY <1>3, <1>4, <2>2 DEF Wipe
  <1>5. ASSUME NEW target \in Stages, NEW table \in Table, Overwrite(s, target, table)
        PROVE  Keeps(s, key)' \/ key \in lost'[s]
    <2>1. staged'[s] = Overwritten(staged[s], target, table)
      BY <1>5 DEF Overwrite, TypeOK
    <2>2. StageOf(key) \notin Subtree(target) => staged'[s].at[key] = staged[s].at[key]
      BY <2>1 DEF Overwritten
    <2> QED BY <1>3, <1>5, <2>2 DEF Overwrite
  <1>6. CASE Load(s) \/ ReadReturns(s) \/ ReadFails(s) \/ SyncReads(s)
    BY <1>1, <1>6 DEF Load, ReadReturns, ReadFails, SyncReads, snapshots, before, Keeps, Carries
  <1>7. ASSUME NEW merge \in BOOLEAN, Sends(s, merge)
        PROVE  Keeps(s, key)' \/ key \in lost'[s]
    <2>1. UNCHANGED <<staged, due, lost>>
      BY <1>7 DEF Sends, snapshots
    <2>2. CASE MayLand(write[s])
      <3>1. orphan'[s] = write[s] /\ orphan[s].phase = "idle"
        BY <1>7, <2>2 DEF Sends, TypeOK
      <3> QED BY <1>1, <2>1, <3>1 DEF before, Keeps, Carries
    <2>3. CASE ~MayLand(write[s])
      <3>1. orphan' = orphan /\ write[s].phase # "ran"
        BY <1>7, <2>3 DEF Sends, MayLand
      <3> QED BY <1>1, <2>1, <3>1 DEF before, Keeps, Carries
    <2> QED BY <2>2, <2>3
  <1>8. ASSUME NEW data \in StagedData, staged[s].at[key] = due[s][key],
               due[s][key] # Unstaged
        PROVE  \/ MarkedStaged(staged[s], data).at[key] = due[s][key]
               \/ key \in SavedKeys(staged[s], data) /\ data.at[key] = due[s][key]
    BY <1>8 DEF MarkedStaged, SavedKeys
  <1>9. CASE Transform(s)
    <2>1. /\ due' = due /\ lost' = lost /\ orphan' = orphan
          /\ write'[s].phase = "ran" /\ write'[s].data = write[s].data
          /\ write'[s].merge = write[s].merge
          /\ write[s].data \in StagedData
      BY <1>9 DEF Transform, TypeOK, Writes
    <2>2. \/ write[s].merge /\ staged'[s] = MarkedStaged(staged[s], write[s].data)
          \/ staged'[s] = staged[s]
      BY <1>9 DEF Transform, TypeOK, snapshots
    <2> QED BY <1>1, <1>8, <2>1, <2>2 DEF before, Keeps, Carries
  <1>10. ASSUME NEW request, Landed(s, request)
         PROVE  due'[s][key] = due[s][key] /\ ~Carries(request, key, due[s][key])
    BY <1>10 DEF Landed, TypeOK
  <1>11. ASSUME NEW request, GivenUp(s, request)
         PROVE  /\ lost[s] \subseteq lost'[s]
                /\ request.merge /\ Carries(request, key, due[s][key]) => key \in lost'[s]
    BY <1>11 DEF GivenUp, TypeOK
  <1>12. CASE WriteLands(s)
    BY <1>1, <1>10, <1>12 DEF WriteLands, snapshots, before, Keeps, Carries
  <1>13. CASE RemoveLands(s)
    <2>1. /\ due' = due /\ orphan' = orphan /\ write[s].phase = "sent"
          /\ write[s].data \in StagedData
      BY <1>13 DEF RemoveLands, TypeOK, Writes
    <2>2. CASE write[s].merge
      <3>1. /\ staged'[s] = MarkedStaged(staged[s], write[s].data)
            /\ lost'[s] = lost[s] \cup {k \in SavedKeys(staged[s], write[s].data) :
                                           due[s][k] = write[s].data.at[k]}
        BY <1>13, <2>2 DEF RemoveLands, TypeOK
      <3> QED BY <1>1, <1>8, <2>1, <3>1 DEF before, Keeps, Carries
    <2>3. CASE ~write[s].merge
      BY <1>1, <1>13, <2>1, <2>3 DEF RemoveLands, snapshots, before, Keeps, Carries
    <2> QED BY <2>2, <2>3
  <1>14. CASE WriteFails(s)
    BY <1>1, <1>11, <1>14 DEF WriteFails, snapshots, before, Keeps, Carries
  <1>15. CASE OrphanLands(s)
    BY <1>1, <1>10, <1>15 DEF OrphanLands, snapshots, before, Keeps, Carries
  <1>16. CASE OrphanCancelled(s)
    BY <1>1, <1>11, <1>16 DEF OrphanCancelled, snapshots, before, Keeps, Carries
  <1>17. CASE OrphanFails(s)
    BY <1>1, <1>11, <1>17 DEF OrphanFails, snapshots, before, Keeps, Carries
  <1> QED BY <1>2, <1>4, <1>5, <1>6, <1>7, <1>9, <1>12, <1>13, <1>14, <1>15, <1>16, <1>17
          DEF Game, Datastore, Fails, SyncWrites, Save

\* What a game stored is staged, on its way, in the datastore, or known lost.
THEOREM StoredDataIsHeld == Spec => []StoredIsHeld
  <1> DEFINE IInv == TypeOK /\ \A s \in Servers : KeepsDue(s)
  <1>1. Init => IInv
    BY InitType, InitKeeps
  <1>2. IInv /\ [Next]_vars => IInv'
    <2> SUFFICES ASSUME IInv, [Next]_vars PROVE IInv'
      OBVIOUS
    <2>1. TypeOK'
      BY TypeStep
    <2>2. ASSUME NEW t \in Servers PROVE KeepsDue(t)'
      <3>1. CASE UNCHANGED vars
        BY <3>1, OthersKeep DEF vars
      <3>2. CASE Next
        <4>1. PICK s \in Servers :
                 /\ Game(s) \/ Datastore(s) \/ Fails(s)
                      \/ Load(s) \/ SyncReads(s) \/ SyncWrites(s) \/ Save(s)
                 /\ \A other \in Servers \ {s} :
                       /\ staged'[other] = staged[other] /\ due'[other] = due[other]
                       /\ lost'[other] = lost[other]
                       /\ write'[other] = write[other] /\ orphan'[other] = orphan[other]
          BY <3>2, OneServer
        <4>2. CASE t = s
          BY <4>1, <4>2, StepKeeps
        <4>3. CASE t # s
          BY <4>1, <4>3, OthersKeep
        <4> QED BY <4>2, <4>3
      <3> QED BY <3>1, <3>2
    <2> QED BY <2>1, <2>2
  <1>3. IInv => StoredIsHeld
    BY DEF StoredIsHeld, KeepsDue, Keeps, Held
  <1> QED BY <1>1, <1>2, <1>3, PTL DEF Spec

=============================================================================
