\* A code and a refresh token sent twice each, and revocations by refresh and by access token.
CONSTANTS
    au = au
    cb = cb
    t1 = t1
    t2 = t2
    f1 = f1
    f2 = f2
    vr = vr
    va = va
    None = None
    Handlers <- Sent
    Request <- Requested
SPECIFICATION Spec
INVARIANTS
    TypeOK
    LiveTokenIsIndexed
    GrantNeverForks
    RevokedStaysRevoked
CHECK_DEADLOCK FALSE
