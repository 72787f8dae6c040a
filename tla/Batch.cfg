SPECIFICATION BatchSpec
CONSTANTS
    Items = {1, 2, 3}
    Chunks = {"c1", "c2"}
    KeyOf <- TwoProjects
    NeedsMerge = {2, 3}
    Modes = {"aggregated", "test", "deploy"}
    Concurrency = 2
    MaxFailures = 2
    Slugs = 2
    WithSpecs = {1}
    MaxPlaces = 3
    OddNames = {"odd"}
INVARIANTS BuildsKept ExitTells VerdictsTell LogShown SplitsFit RightPlaces
CHECK_DEADLOCK FALSE
