\* A build with the cache disabled, then a revert to the cached sources.
CONSTANTS
    a = a  b = b  d = d
    c1 = c1  c2 = c2  c3 = c3
    v1 = v1  v2 = v2
    p1 = p1  p2 = p2
    s1 = s1  s2 = s2
    None = None
    Failed = Failed
    Files = {a}
    Contents = {c1, c2}
    Versions = {v1}
    Profiles = {p1}
    Settings = {s1}
    Wants <- MCWants
    Fallback <- MCNoFallback
    Strict <- MCNoStrict
    Bare <- MCNoBare
    MayRevert = TRUE
    MayRace = FALSE
    MayCrash = FALSE
    MayBypass = TRUE
    MaxInfos = 2
SPECIFICATION Spec
INVARIANT CleanIsCurrent
