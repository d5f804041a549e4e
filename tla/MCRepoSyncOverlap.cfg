\* Two requests that overlap.
CONSTANTS
    r1 = r1  r2 = r2  u1 = u1  u2 = u2  p1 = p1
    web = web  web2 = web2  socks = socks  broken = broken
    Requests = {r1, r2}
    Urls = {u1, u2}
    Paths = {p1}
    Proxies = {web, web2, socks, broken}
    NoProxy = NoProxy  NoDir = NoDir  Unusable = Unusable
    Kind <- SomeKinds
    GlobalProxy = NoProxy
    RepoProxies = {web}
    Asked <- SomeRequests
    InitialDisks <- SomeDisks
    Tracked <- SomeBranches
    MaxHead = 1
SPECIFICATION Spec
SYMMETRY Symmetric
\* The requests are bounded: when all are answered the server rests.
CHECK_DEADLOCK FALSE
INVARIANT
    Restores
