\* Plans of two and three steps over every graph of three ids, cyclic ones
\* included, one of them a name that routing would like to use, with at most
\* one argument that does not fit (SomeDrafts in MCInterpretation).
SPECIFICATION ValidatingSpec
CONSTANTS
    a = a
    b = b
    gmail = gmail
    gmail2 = gmail2
    drive = drive
    Ids = {a, b, gmail, gmail2, drive}
    Targets = {"gmail", "google_drive"}
    Names <- AllNames
    Drafts <- SomeDrafts
    Queries <- SomeQueries
INVARIANTS ValidationTypeOK PlannedIsValid RoutingIsFaithful WritesAreClarified
PROPERTY GraphIsDecided
CHECK_DEADLOCK FALSE
