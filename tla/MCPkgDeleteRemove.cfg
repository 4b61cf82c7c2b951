SPECIFICATION RemoveSpec
CONSTANTS
    a = a
    b = b
    c = c
    fa = fa
    fb = fb
    fc = fc
    pa = pa
    pb = pb
    pab = pab
    NoPkg = NoPkg
    Pkg = {a, b, c}
    Pattern = {pa, pb, pab}
    File = {fa, fb, fc}
    Match <- ABCMatch
    Deps <- ABCDeps
    Contents <- ABCContents
    Dirs = {fa}
    Saved = {fa}
    Options <- RemoveOptions
    Requests <- RemoveRequests
    MaxRuns = 2
    IoErrors = TRUE
    Crashes = TRUE
CHECK_DEADLOCK FALSE
INVARIANTS TypeOK RemovedIsUnrequired DependenciesKept OwnersRegistered PreservedKept
PROPERTY KeepsPromise
