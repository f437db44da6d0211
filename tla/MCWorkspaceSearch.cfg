\* One search: searches share nothing they write.  StaleAfter = 0 leaves two
\* ages, within and beyond the limit.  One result of two rows: the messages are of
\* one thread, and the long file may take both rows.
SPECIFICATION Spec
CONSTANTS
    Searches = {r1}
    None = None
    Kinds = {"gmail", "google_calendar", "google_drive"}
    Native = {"gmail", "google_drive"}
    m1 = m1
    d1 = d1
    m2 = m2
    Items = {m1, m2, d1}
    Relevant <- Matching
    ChunksOf <- Length
    ThreadOf <- Thread
    TopK = 1
    Oversample = 2
    ServiceOf <- Owner
    MaxVersion = 1
    StaleAfter = 0
    MaxFaults = 1
INVARIANTS TypeOK IndexedIsFound FallbackIsReported
