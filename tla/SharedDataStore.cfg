\* What games store reaches the datastore, what other servers keep there stays,
\* and servers that keep on syncing come to show the same data.
SPECIFICATION FairSpec
CONSTANTS
    Servers = {A, B}
    A = A
    B = B
    RawKeys = {r}
    SubKeys = {x}
    r = r
    x = x
    Values = {v}
    v = v
    Absent = Absent
    Deleted = Deleted
    Unstaged = Unstaged
    Wiping = {"root", "sub"}
    KeyExists = TRUE
    MaxActs = 2
    MaxFaults = 2
INVARIANTS
    StoredIsHeld
PROPERTIES
    WritesItsOwn
    AllAgree
CHECK_DEADLOCK FALSE
