SPECIFICATION FormSpec
CONSTANTS
    a = a  b = b  c = c  d1 = d1  d2 = d2  d3 = d3  t1 = t1  t2 = t2  tb = tb
    fa = fa  fb = fb  fd = fd  fe = fe
    pa = pa  pb = pb  pc = pc  pd = pd  pd2 = pd2
    NoPkg = NoPkg
    Pkg = {a, b, c, d1, d2, t1, t2, tb}
    Pattern = {pa, pb, pc, pd, pd2}
    File = {fa, fb, fd}
    Match <- UMatch
    Deps <- CyclicDeps
    Contents <- UContents
    Rank <- URank
    Base <- UBase
    Conflicts <- UConflicts
    Repo = {a, b, c, d1, d2}
    Script = {b, c}
    Info = {b}
    Keep = {d2}
    Temp <- UTemp
    Options <- FormOptions
    Requests <- FormRequests
    MaxRuns = 1
    MaxDepth = 3
    Faults <- FormFaults
    Crashes = TRUE
    MaxAdmin = 2
INVARIANT TypeOK
INVARIANT IndexRebuilt
INVARIANT TreeRebuilt
PROPERTY FakeChangesNothing
PROPERTY ToolsTerminate
CHECK_DEADLOCK FALSE
