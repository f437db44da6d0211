\* Two approvals of one execution and two requests: both can race for one
\* approval, or decide one each.  No symmetry, because a liveness property is
\* checked.
SPECIFICATION FairCardSpec
CONSTANTS
    Actions = {a1, a2}
    Requests = {r1, r2}
    NoRequest = NoRequest
INVARIANTS
    CardTypeOK RecordsAgree HonestCompletion EffectsMatchRecords CardsAreHonest
PROPERTIES
    CallsOnlyWhilePending CardsSettle
CONSTRAINT OthersBound
CHECK_DEADLOCK FALSE
