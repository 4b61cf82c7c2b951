SPECIFICATION SortSpec
CONSTANTS
    a = a
    b = b
    c = c
    fa = fa
    fb = fb
    fc = fc
    pa = pa
    pb = pb
    pab = pab
    NoPkg = NoPkg
    Pkg = {a, b, c}
    Pattern = {}
    File = {}
    Match <- NoMatch
    Deps <- NoDeps
    Contents <- NoContents
    Dirs = {}
    Saved = {}
    Options <- SortOptions
    Requests <- SortRequests
    MaxRuns = 1
    IoErrors = FALSE
    Crashes = FALSE
CHECK_DEADLOCK FALSE
INVARIANTS SortExact LeavesExact
PROPERTIES Terminates
