SPECIFICATION Spec
CONSTANTS
    Tokens = {t1}
    Requests = {r1, r2}
    Logouts = {l1}
    SessionTTL = 5
    CacheTTL = 2
    RequestTimeout = 2
    MaxTime = 5
    CanFail = FALSE
    NoToken = NoToken
INVARIANT LogoutIsFinal
