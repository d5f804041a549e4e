\* Two requests for one directory, which may ask for different remotes.
CONSTANTS
    r1 = r1  r2 = r2  u1 = u1  u2 = u2  p1 = p1
    web = web  web2 = web2  socks = socks  broken = broken
    Requests = {r1, r2}
    Urls = {u1, u2}
    Paths = {p1}
    Proxies = {web, web2, socks, broken}
    NoProxy = NoProxy  NoDir = NoDir  Unusable = Unusable
    Kind <- SomeKinds
    GlobalProxy = NoProxy
    RepoProxies = {NoProxy}
    Asked <- BothRemotes
    InitialDisks <- EmptyDisks
    Tracked <- MainBranches
    MaxHead = 0
SPECIFICATION Spec
SYMMETRY Symmetric
\* The requests are bounded: when all are answered the server rests.
CHECK_DEADLOCK FALSE
PROPERTY
    MatchesRemote
