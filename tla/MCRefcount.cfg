SPECIFICATION Spec
CONSTANTS
    p = p  q = q  u = u  v = v  w = w  f = f  g = g
    NoPkg = NoPkg
    Pkg = {p, q}
    User = {u}
    Dir = {v, w}
    File = {f, g}
    Users <- MCUsers
    Dirs <- MCDirs
    Files <- MCFiles
    Above <- MCAbove
    Managed = {u, v, w, f, g}
    MaxStages = 4
    Kills = TRUE
INVARIANTS PreexistingKept NothingLeft
PROPERTY ChangedKept
CHECK_DEADLOCK FALSE
