\* Expected to fail: see the finding of the same name.  One job, one message,
\* one change and no failure at all.
SPECIFICATION FairSpec
CONSTANTS
    Jobs = {j1}
    Nobody = Nobody
    TTL = 2
    Lateness = 0
    m1 = m1
    d1 = d1
    d2 = d2
    e1 = e1
    Items = {m1}
    Services <- OnlyGmail
    Incremental <- Filtered
    Edited = {}
    ServiceOf <- Owner
    Reads <- Source
    PageSize = 1
    Limit = 1
    MaxVersion = 1
    MaxTroubles = 0
PROPERTY EventuallyCurrent
