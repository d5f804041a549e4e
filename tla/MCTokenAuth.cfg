\* Two requests at a time, any number one after the other; the clock runs past the
\* expiry of the tokens of a login and of the entries of its first access token.
CONSTANTS
    Slots = {1, 2}
    Foreign <- Others
    NoToken = NoToken
    Roles = {"user", "admin"}
    LoginRoles <- SomeRoles
    Needs = {"", "admin"}
    AccessExpiry = 1
    RefreshExpiry = 1
    CacheTTLs = {1}
    Latency = 1
    MaxTime = 3
    LastLogin = 0
    MaxLogins = 1
    MaxRefreshes = 1
SPECIFICATION FairSpec
INVARIANT
    TypeOK
PROPERTIES
    CacheAgrees
    SessionEnds
    RolesEnd
    Answered
