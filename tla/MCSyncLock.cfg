\* Three jobs of one user.  TTL // 3 = 2, so a renewal falls due after two
\* ticks of seven and may come four ticks late.
SPECIFICATION LockFairSpec
CONSTANTS
    Jobs = {j1, j2, j3}
    Nobody = Nobody
    TTL = 7
    Lateness = 4
INVARIANT Exclusive
PROPERTIES OnlyOwnerReleases OrphanedLockExpires
