SPECIFICATION Spec
CONSTANTS
    u1 = u1
    u2 = u2
    q1 = q1
    t1 = t1
    t2 = t2
    x1 = x1
    k1 = k1
    oidc = oidc
    None = None
    Users <- TwoUsers
    Requests <- OneRequest
    Tokens <- TwoTokens
    Resets <- OneReset
    Keys <- OneKey
    Configs <- OneConfig
    Oidc = oidc
CHECK_DEADLOCK FALSE
SYMMETRY RowSymmetry
INVARIANTS
    TypeOK
    AlwaysAnAdmin
    OwnersExist
    KeyWithinOwner
    OneTokenPerLogin
    ResetOnce
PROPERTY ChangedByAdmin
