\* Two workers and two jobs; the callers may install and scope one reporter each.
CONSTANTS
    b1 = b1  b2 = b2
    w1 = w1  w2 = w2
    Threads = {b1, b2, w1, w2}
    Builders = {b1, b2}
    Workers = {w1, w2}
    Pool <- MCPool
    j1 = j1  j2 = j2
    r1 = r1  r2 = r2
    Jobs <- MCJobs
    Installs <- MCInstalls
    Scopes <- MCScopes
    Reporters = {r1, r2}
    NoReporter = NoReporter
    MaxDepth = 1
    None = None
    Failed = Failed
SPECIFICATION Spec
INVARIANTS ScopeIsHeard BuildIsHeard
PROPERTY ImplementsCompileJobs
