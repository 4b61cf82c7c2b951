SPECIFICATION InstallSpec
CONSTANTS
    a = a  b = b  c = c  d1 = d1  d2 = d2  d3 = d3  t1 = t1  t2 = t2  tb = tb
    fa = fa  fb = fb  fd = fd  fe = fe
    pa = pa  pb = pb  pc = pc  pd = pd  pd2 = pd2
    NoPkg = NoPkg
    Pkg = {a, b, c, d1, d2, d3, t1, t2, tb}
    Pattern = {pa, pb, pc, pd, pd2}
    File = {fa, fb, fd, fe}
    Match <- UMatch
    Deps <- UDeps
    Contents <- UContents
    Rank <- URank
    Base <- UBase
    Conflicts <- UConflicts
    Repo = {a, b, c, d1, d2, d3}
    Script = {b, c}
    Info = {d2}
    Keep = {d2}
    Temp <- UTemp
    Options <- InstallOptions
    Requests <- InstallRequests
    MaxRuns = 3
    MaxDepth = 3
    Faults <- InstallFaults
    Crashes = TRUE
INVARIANT OwnersRegistered
INVARIANT DependenciesRegistered
INVARIANT DependenciesFirst
INVARIANT FilesDisjoint
INVARIANT OneVersion
CHECK_DEADLOCK FALSE
PROPERTY KeepsPromise
