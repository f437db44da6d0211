SPECIFICATION FairSpec
CONSTANTS
    Callbacks = {c1, c2}
    w1 = w1
    w2 = w2
    b1 = b1
    b2 = b2
    b3 = b3
    Works = {w1, w2}
    Builds = {b1, b2, b3}
    WorkOf <- MCWorkOf
    MaxIssued = 3
    Nobody = Nobody
INVARIANTS
    TypeOK
    CredentialsAgree
    SessionsAreConnected
PROPERTIES
    RefreshedOnce
    AllServed
CHECK_DEADLOCK FALSE
