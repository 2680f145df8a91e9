\* Crashes, and builds that bypass the cache; no content returns once recorded.
CONSTANTS
    a = a  b = b  d = d
    c1 = c1  c2 = c2  c3 = c3
    v1 = v1  v2 = v2
    p1 = p1  p2 = p2
    s1 = s1  s2 = s2
    None = None
    Failed = Failed
    Files = {a, b}
    Contents = {c1, c2}
    Versions = {v1}
    Profiles = {p1}
    Settings = {s1}
    Wants <- MCWantsB
    Fallback <- MCNoFallback
    Strict <- MCNoStrict
    Bare <- MCNoBare
    MayRevert = FALSE
    MayRace = FALSE
    MayCrash = TRUE
    MayBypass = TRUE
    MaxInfos = 2
SYMMETRY ContentSymmetry
SPECIFICATION CrashSpec
INVARIANT BuildsResolve
PROPERTY ImplementsCleanBuild
