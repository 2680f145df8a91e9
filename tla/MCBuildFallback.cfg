\* A deleted import resolves to a file of the next library instead.
CONSTANTS
    a = a  b = b  d = d
    c1 = c1  c2 = c2  c3 = c3
    v1 = v1  v2 = v2
    p1 = p1  p2 = p2
    s1 = s1  s2 = s2
    None = None
    Failed = Failed
    Files = {a, b, d}
    Contents = {c1}
    Versions = {v1}
    Profiles = {p1}
    Settings = {s1}
    Wants <- MCWants
    Fallback <- MCFallback
    Strict <- MCNoStrict
    Bare <- MCNoBare
    MayRevert = TRUE
    MayRace = FALSE
    MayCrash = FALSE
    MayBypass = FALSE
    MaxInfos = 2
SPECIFICATION Spec
PROPERTY ImplementsCleanBuild
