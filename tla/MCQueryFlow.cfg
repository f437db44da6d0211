\* Three requests from two tabs of a browser that changes between two
\* accounts: a conversation of three exchanges has six messages, and a Limit
\* of three cuts the context.  Every request may fail or be abandoned, so that
\* the next one of its conversation overlaps with it.
SPECIFICATION Spec
CONSTANTS
    Requests = {r1, r2, r3}
    Tabs = {t1, t2}
    Users = {u1, u2}
    None = None
    Limit = 3
    MaxFaults = 3
SYMMETRY Alike
INVARIANTS TypeOK ConversationsArePrivate RefusalsLeaveNothing ContextTellsConversation
