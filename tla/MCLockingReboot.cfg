SPECIFICATION Spec
CONSTANTS
    x = x  y = y  z = z  wa = wa  wb = wb  localbase = localbase
    b = b  c = c
    NoProc = NoProc
    Proc = {x, y, z}
    Lock = {wa, wb, localbase}
    Prefix = localbase
    Pkg = {b, c}
    Plan <- MCPlan
    LockType <- MCLockType
    BootFile = TRUE
    Kills = TRUE
    MaxBoots = 1
INVARIANT MutualExclusion
CHECK_DEADLOCK FALSE
