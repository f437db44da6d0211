\* Two jobs and two Drive files, one read as text and one from its metadata, that
\* change twice, with or without a new date: pages of one item, a listing that
\* takes two of them, one crash, failure or deletion.  TTL = 2 lets the lock
\* of a stalled job expire and a second job overlap with it.
SPECIFICATION Spec
CONSTANTS
    Jobs = {j1, j2}
    Nobody = Nobody
    TTL = 2
    Lateness = 0
    m1 = m1
    d1 = d1
    d2 = d2
    e1 = e1
    Items = {d1, d2}
    Services <- OnlyDrive
    Incremental <- Modified
    Edited <- Modified
    ServiceOf <- Owner
    Reads <- Source
    PageSize = 1
    Limit = 2
    MaxVersion = 2
    MaxTroubles = 1
INVARIANTS TypeOK ChangesStayListed
PROPERTIES IndexNeverRegresses KeepsContract
