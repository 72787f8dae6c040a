----------------------------- MODULE DataStoreStage -----------------------------
(***************************************************************************)
(* What a DataStoreStage keeps and what it does with it, as operators: the *)
(* data last seen in the datastore (`base`), the data the game has staged  *)
(* for saving, the writer that takes a snapshot of both, the difference    *)
(* to data that comes in, and the view the game reads.                     *)
(*                                                                         *)
(* The tree of stages is a root with plain values under RawKeys and one    *)
(* sub-store, which exists from the start, with plain values under         *)
(* SubKeys.  A table is flat: StageOf says which stage keeps a key.        *)
(***************************************************************************)

CONSTANTS
    RawKeys,    \* keys the game stores in the root
    SubKeys,    \* keys the game stores in the sub-store
    Values,     \* what it stores there
    Absent,     \* no value under a key
    Deleted,    \* DataStoreDeleteToken, staged for a key
    Unstaged    \* nothing staged for a key

ASSUME StageAssumption ==
    /\ RawKeys \cap SubKeys = {}
    /\ {Absent, Deleted, Unstaged} \cap Values = {}
    /\ Absent # Deleted /\ Absent # Unstaged /\ Deleted # Unstaged

Keys == RawKeys \cup SubKeys
Stages == {"root", "sub"}

StageOf(key) == IF key \in SubKeys THEN "sub" ELSE "root"

\* the stages whose data a stage's Overwrite replaces
Subtree(stage) == IF stage = "root" THEN Stages ELSE {stage}

Table == [Keys -> Values \cup {Absent}]
EmptyTable == [key \in Keys |-> Absent]
HasData(table, keys) == \E key \in keys : table[key] # Absent

-----------------------------------------------------------------------------
(* A profile: what the datastore holds.  `exists` is FALSE for a key that  *)
(* was never written, or was removed; `sub` tells whether there is a table *)
(* (it may be empty) under the name of the sub-store.                      *)

Profile ==
    {profile \in [exists : BOOLEAN, sub : BOOLEAN, at : Table] :
        /\ profile.sub => profile.exists
        /\ HasData(profile.at, RawKeys) => profile.exists
        /\ HasData(profile.at, SubKeys) => profile.sub}

Missing == [exists |-> FALSE, sub |-> FALSE, at |-> EmptyTable]

(* What is staged: per stage `mode` says whether _saveDataSnapshot is nil, *)
(* a table or the delete token; `at` is what the tables hold.              *)

StagedData ==
    {staged \in [mode : [Stages -> {"none", "table", "wipe"}],
                 at : [Keys -> Values \cup {Deleted, Unstaged}]] :
        \A key \in Keys :
            staged.at[key] # Unstaged => staged.mode[StageOf(key)] = "table"}

NothingStaged == [mode |-> [stage \in Stages |-> "none"],
                  at |-> [key \in Keys |-> Unstaged]]

HasWritableData(staged) == \E stage \in Stages : staged.mode[stage] # "none"

\* what a staged value leaves under its key
Written(value) == IF value = Deleted THEN Absent ELSE value

-----------------------------------------------------------------------------
(* The game's operations.                                                  *)

\* _storeAtKey: a value, or the delete token, under a key of its stage.  A
\* wipe staged for that stage is forgotten.
StoreAtKey(staged, key, value) ==
    [mode |-> [staged.mode EXCEPT ![StageOf(key)] = "table"],
     at |-> [staged.at EXCEPT ![key] = value]]

\* Overwrite(DataStoreDeleteToken), which is Wipe
Wiped(staged, stage) ==
    [mode |-> [each \in Stages |->
                  IF each \in Subtree(stage) THEN "wipe" ELSE staged.mode[each]],
     at |-> [key \in Keys |->
                  IF StageOf(key) \in Subtree(stage) THEN Unstaged ELSE staged.at[key]]]

\* Overwrite(table): a sub-store the table does not have is wiped.
Overwritten(staged, stage, table) ==
    [mode |-> [each \in Stages |->
                  IF each \notin Subtree(stage) THEN staged.mode[each]
                  ELSE IF each = stage \/ HasData(table, SubKeys) THEN "table"
                  ELSE "wipe"],
     at |-> [key \in Keys |->
                  IF StageOf(key) \notin Subtree(stage) THEN staged.at[key]
                  ELSE IF table[key] = Absent THEN Unstaged
                  ELSE table[key]]]

\* _computeNewViewSnapshot: staged data first, then the data last seen.
View(base, staged) ==
    [key \in Keys |->
        IF \/ staged.mode["root"] = "wipe"
           \/ staged.mode[StageOf(key)] = "wipe"
        THEN Absent
        ELSE IF staged.at[key] # Unstaged THEN Written(staged.at[key])
        ELSE base[key]]

-----------------------------------------------------------------------------
(* The writer: `data` is its snapshot of what was staged, `base` of what   *)
(* had been seen.                                                          *)

IsCompleteWipe(data) == data.mode["root"] = "wipe"

\* Mutant: the writer's own data replaces the profile.
WriteAlone(data, profile) ==
    [exists |-> TRUE,
     sub |-> data.mode["sub"] = "table",
     at |-> View(EmptyTable, data)]

\* WriteMerge: what a writer that is no complete wipe makes of the profile
\* the datastore holds when it is asked.
WriteMerge(data, profile) ==
    [exists |-> TRUE,
     sub |-> /\ data.mode["sub"] # "wipe"
             /\ \/ profile.sub
                \/ \E key \in SubKeys : data.at[key] # Unstaged,
     at |-> [key \in Keys |->
                 IF data.mode[StageOf(key)] = "wipe" THEN Absent
                 ELSE IF data.at[key] = Unstaged THEN profile.at[key]
                 ELSE Written(data.at[key])]]

(* The difference of a profile to the writer's base: for each key the new  *)
(* value, the delete token, or Unstaged for no change; and the stage that  *)
(* gets the delete token for everything it has seen.                       *)

\* The sub-store's data is part of the root's base only if it has no
\* writer of its own.
FullBaseKeys(data) == IF data.mode["sub"] = "none" THEN Keys ELSE RawKeys

ValueDiff(before, after) ==
    IF before = after THEN Unstaged ELSE IF after = Absent THEN Deleted ELSE after

DroppedStages(data, base, profile) ==
    IF ~profile.exists
    THEN IF HasData(base, FullBaseKeys(data)) THEN {"root"} ELSE {}
    ELSE IF /\ ~profile.sub /\ ~HasData(profile.at, RawKeys)
            /\ data.mode["sub"] = "none" /\ ~HasData(base, Keys)
    THEN {"root"}
    ELSE IF \/ ~profile.sub /\ HasData(base, SubKeys)
            \/ /\ data.mode["sub"] # "none" /\ profile.sub
               /\ ~HasData(profile.at, SubKeys) /\ ~HasData(base, SubKeys)
    THEN {"sub"}
    ELSE {}

ComputeDiffSnapshot(data, base, profile) ==
    [dropped |-> DroppedStages(data, base, profile),
     at |-> [key \in Keys |->
                IF profile.exists THEN ValueDiff(base[key], profile.at[key])
                ELSE Unstaged]]

\* Mutant: keys that are gone are not merged.
MergeAdditions(base, diff) ==
    [key \in Keys |->
        IF diff.at[key] \in {Unstaged, Deleted} THEN base[key] ELSE diff.at[key]]

\* The delete token for the root leaves what the sub-store has seen alone.
MergeDiffSnapshot(base, diff) ==
    [key \in Keys |->
        IF StageOf(key) \in diff.dropped THEN Absent
        ELSE IF diff.at[key] = Unstaged THEN base[key]
        ELSE Written(diff.at[key])]

-----------------------------------------------------------------------------
(* MarkDataAsSaved: what a writer has taken to the datastore is no longer  *)
(* staged, unless the game has staged something else since.                *)

\* Mutant: what the game staged since is taken for saved too.
TakenKeys(staged, data) == {key \in Keys : data.at[key] # Unstaged}

SavedKeys(staged, data) ==
    {key \in Keys :
        /\ staged.mode[StageOf(key)] = "table"
        /\ data.at[key] # Unstaged
        /\ staged.at[key] \in {data.at[key], Unstaged}}

\* A stage that is wiped on both sides forgets its base; so does a root
\* with nothing staged on either side.
ForgettingStages(staged, data) ==
    {stage \in Stages :
        /\ staged.mode[stage] = data.mode[stage]
        /\ \/ data.mode[stage] = "wipe"
           \/ stage = "root" /\ data.mode[stage] = "none"}

MarkedBase(base, staged, data) ==
    [key \in Keys |->
        IF key \in SavedKeys(staged, data) THEN Written(data.at[key])
        ELSE IF StageOf(key) \in ForgettingStages(staged, data) THEN Absent
        ELSE base[key]]

MarkedStaged(staged, data) ==
    LET left == [key \in Keys |->
                    IF key \in SavedKeys(staged, data) THEN Unstaged ELSE staged.at[key]]
        emptied(stage) ==
            /\ staged.mode[stage] = "table" /\ data.mode[stage] = "table"
            /\ \A key \in Keys : StageOf(key) = stage => left[key] = Unstaged
    IN  [mode |-> [stage \in Stages |->
                      IF stage \in ForgettingStages(staged, data) \/ emptied(stage)
                      THEN "none" ELSE staged.mode[stage]],
         at |-> left]

=============================================================================
