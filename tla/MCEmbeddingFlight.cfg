\* Three requests: a holder, a waiter and a newcomer.  Two keys and a cache for
\* one of them, so that embeddings are evicted.
SPECIFICATION Spec
CONSTANTS
    Requests = {r1, r2, r3}
    Keys = {k1, k2}
    Locks = {l1, l2, l3}
    None = None
    Capacity = 1
SYMMETRY Alike
INVARIANTS TypeOK EmbeddedOnce FlightsDrain
