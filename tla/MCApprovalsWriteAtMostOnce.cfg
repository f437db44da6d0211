\* Expected to fail: see the finding of the same name.
SPECIFICATION CardSpec
CONSTANTS
    Actions = {a1}
    Requests = {r1, r2}
    NoRequest = NoRequest
INVARIANTS
    WriteAtMostOnce
CHECK_DEADLOCK FALSE
