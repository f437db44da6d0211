\* Two jobs that visit two services each, Gmail listed incrementally and the
\* calendar within its bounds, with one crash, failure or deletion.
SPECIFICATION FairSpec
CONSTANTS
    Jobs = {j1, j2}
    Nobody = Nobody
    TTL = 2
    Lateness = 0
    m1 = m1
    d1 = d1
    d2 = d2
    e1 = e1
    Items = {m1, e1}
    Services <- TwoServices
    Incremental <- Filtered
    Edited <- Moved
    ServiceOf <- Owner
    Reads <- Source
    PageSize = 1
    Limit = 1
    MaxVersion = 1
    MaxTroubles = 1
PROPERTIES RunningSettles FullListingCatchesUp
