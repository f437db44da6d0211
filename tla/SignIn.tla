------------------------------- MODULE SignIn -------------------------------
(***************************************************************************)
(* One Google account: the sign-ins that create its user and store its     *)
(* credentials (app/api/routes/auth.py), and the works that use them, i.e. *)
(* queries, approvals and synchronisations, each with a database session   *)
(* and a GoogleClientFactory of its own (app/integrations/google.py) that  *)
(* all its agents share.                                                   *)
(*                                                                         *)
(* Tokens are numbered in the order Google issues them, callbacks' and     *)
(* refreshed ones alike; all live equally long, so they expire in that     *)
(* order.  A token's expiry is named by the number of its token.           *)
(***************************************************************************)
EXTENDS Naturals

CONSTANTS
    Callbacks,   \* the sign-ins that will ever be started, each used once
    Works,       \* the requests and tasks that use the credentials
    Builds,      \* the calls of GoogleClientFactory.build the agents make
    WorkOf,      \* the work a build belongs to
    MaxIssued,   \* bound: the number of tokens Google issues
    Nobody       \* the value of a lock nobody holds

ASSUME NobodyAssumption == Nobody \notin Callbacks \cup Works \cup Builds
ASSUME WorkOfAssumption == WorkOf \in [Builds -> Works]
ASSUME MaxIssuedAssumption == MaxIssued \in Nat \ {0}

VARIABLES
    \* Redis
    flows,       \* sign-ins whose oauth-state key is stored
    sessions,    \* sign-ins whose session key is stored
    \* committed rows
    user,        \* whether the users row of the account exists
    row,         \* its google_credentials row
    \* locks
    inserting,   \* the callback whose users row is flushed, not committed
    lock,        \* the work whose UPDATE of the credentials is not committed
    written,     \* the columns that UPDATE wrote
    holder,      \* the build that holds _credential_lock of its work
    \* callbacks
    pc,          \* where google_callback is
    grant,       \* what flow.credentials holds: access token, refresh token
    stored,      \* the refresh token it loaded, 0 without a row
    \* works
    at,          \* where a build is
    got,         \* the token a build refreshed
    cached,      \* the token of _credentials of a work's factory
    \* Google
    issued,      \* the number of the last token issued
    dead,        \* tokens up to this number have expired
    brought      \* the refresh token of the last committed sign-in with one

redis == <<flows, sessions>>
database == <<user, row, inserting, lock, written, brought>>
callback == <<pc, grant, stored>>
factory == <<at, got, cached, holder>>
google == <<issued, dead>>
vars == <<redis, database, callback, factory, google>>

Tokens == 1..MaxIssued
NoToken == 0
NoRow == [access |-> NoToken, expiry |-> NoToken, refresh |-> NoToken]
NothingWritten == [access |-> NoToken, expiry |-> NoToken]
NoGrant == [access |-> NoToken, refresh |-> NoToken]
Row == [access : Tokens, expiry : Tokens, refresh : Tokens] \cup {NoRow}

BuildsOf(w) == {b \in Builds : WorkOf[b] = w}

InCallback == {"exchange", "user", "insert", "credentials", "commit"}
CallbackPlaces ==
    InCallback \cup {"new", "at_google", "session", "done"}
Settled == {"ready", "not_connected", "failed"}
BuildPlaces == Settled \cup {"idle", "waiting", "refresh", "flush"}

-----------------------------------------------------------------------------
(***************************************************************************)
(* Either the account has never signed in, or it did some time ago: its    *)
(* session is over and its credentials are those of the first token.       *)
(***************************************************************************)
FirstRow == [access |-> 1, expiry |-> 1, refresh |-> 1]

Init ==
    /\ flows = {} /\ sessions = {}
    /\ \/ user = FALSE /\ row = NoRow /\ issued = 0
       \/ user = TRUE /\ row = FirstRow /\ issued = 1
    /\ brought = row.refresh
    /\ inserting = Nobody /\ lock = Nobody
    /\ written = NothingWritten
    /\ holder = [w \in Works |-> Nobody]
    /\ pc = [c \in Callbacks |-> "new"]
    /\ grant = [c \in Callbacks |-> NoGrant]
    /\ stored = [c \in Callbacks |-> NoToken]
    /\ at = [b \in Builds |-> "idle"]
    /\ got = [b \in Builds |-> NoToken]
    /\ cached = [w \in Works |-> NoToken]
    /\ dead = 0

Goto(c, place) == pc' = [pc EXCEPT ![c] = place]

-----------------------------------------------------------------------------
(***************************************************************************)
(* google_login: the state and the code verifier are kept in Redis, and    *)
(* the browser goes to Google, from where it may come back late.           *)
(***************************************************************************)
Login(c) ==
    /\ pc[c] = "new"
    /\ flows' = flows \cup {c}
    /\ Goto(c, "at_google")
    /\ UNCHANGED <<sessions, database, grant, stored, factory, google>>

\* oauth_state_ttl_seconds, session_ttl_seconds: Redis drops the key.
ExpireKey(c) ==
    /\ c \in flows \cup sessions
    /\ flows' = flows \ {c}
    /\ sessions' = sessions \ {c}
    /\ UNCHANGED <<database, callback, factory, google>>

\* The browser returns: google_callback reads the state and deletes it.
ReadState(c) ==
    /\ pc[c] = "at_google"
    /\ flows' = flows \ {c}
    /\ Goto(c, IF c \in flows THEN "exchange" ELSE "done")
    /\ UNCHANGED <<sessions, database, grant, stored, factory, google>>

\* fetch_token and the profile: Google brings a refresh token, or does not.
Exchange(c) ==
    /\ pc[c] = "exchange"
    /\ issued < MaxIssued
    /\ issued' = issued + 1
    /\ \E token \in {NoToken, issued + 1} :
           grant' = [grant EXCEPT ![c] = [access |-> issued + 1, refresh |-> token]]
    /\ Goto(c, "user")
    /\ UNCHANGED <<redis, database, stored, factory, dead>>

SelectUser(c) ==
    /\ pc[c] = "user"
    /\ Goto(c, IF user THEN "credentials" ELSE "insert")
    /\ UNCHANGED <<redis, database, grant, stored, factory, google>>

\* The flush of a new users row: uq_users_email makes it wait for another
\* flushed row of this email, and fail if that one was committed.
InsertUser(c) ==
    /\ pc[c] = "insert"
    /\ inserting = Nobody
    /\ inserting' = IF user THEN Nobody ELSE c
    /\ Goto(c, IF user THEN "done" ELSE "credentials")
    /\ UNCHANGED <<redis, user, row, lock, written, brought, grant, stored,
                   factory, google>>

\* The local variables of a handler that has ended.
Forget(c) ==
    /\ grant' = [grant EXCEPT ![c] = NoGrant]
    /\ stored' = [stored EXCEPT ![c] = NoToken]

\* A transaction that ends undoes, or makes visible, its flushed users row.
Release(c) == inserting' = IF inserting = c THEN Nobody ELSE inserting

\* The first sign-in of an account needs a refresh token.
Usable(c) == row # NoRow \/ grant[c].refresh # NoToken

SelectCredentials(c) ==
    /\ pc[c] = "credentials"
    /\ Usable(c)
    /\ stored' = [stored EXCEPT ![c] = row.refresh]
    /\ Goto(c, "commit")
    /\ UNCHANGED <<redis, database, grant, factory, google>>

\* The refresh token assigned from the loaded row, and written as a column.
MutRefreshToken(c) ==
    IF grant[c].refresh # NoToken THEN grant[c].refresh ELSE stored[c]
\* The refresh token of the row after the UPDATE.  The one that was loaded is
\* assigned back when Google brought none; SQLAlchemy leaves an unchanged
\* column out of the UPDATE, so a token committed meanwhile stays.
RefreshToken(c) ==
    IF grant[c].refresh # NoToken THEN grant[c].refresh ELSE row.refresh

\* session.commit: one INSERT, of the only row of the user, or one UPDATE,
\* which waits for the row lock.
CommitSignIn(c) ==
    /\ pc[c] = "commit"
    /\ lock = Nobody
    /\ stored[c] = NoToken => row = NoRow
    /\ row' = [access |-> grant[c].access, expiry |-> grant[c].access,
               refresh |-> RefreshToken(c)]
    /\ brought' = IF grant[c].refresh # NoToken THEN grant[c].refresh ELSE brought
    /\ user' = TRUE
    /\ Release(c)
    /\ Forget(c)
    /\ Goto(c, "session")
    /\ UNCHANGED <<redis, lock, written, factory, google>>

\* The session stored while the transaction is still open.
MutMayStoreSession(c) == pc[c] \in {"commit", "session"}
MayStoreSession(c) == pc[c] = "session"

\* The session is stored once the rows are committed.
StoreSession(c) ==
    /\ MayStoreSession(c)
    /\ sessions' = sessions \cup {c}
    /\ Goto(c, "done")
    /\ UNCHANGED <<flows, database, grant, stored, factory, google>>

\* Redis, Google, the database or the process fails, a code was used before,
\* the account has no email or no refresh token: nothing is committed.
FailSignIn(c) ==
    /\ pc[c] \in InCallback
    /\ Release(c)
    /\ Forget(c)
    /\ Goto(c, "done")
    /\ UNCHANGED <<redis, user, row, lock, written, brought, factory, google>>

\* Redis fails after the commit: the answer is 500 and the rows stay.
FailSession(c) ==
    /\ pc[c] = "session"
    /\ Goto(c, "done")
    /\ UNCHANGED <<redis, database, grant, stored, factory, google>>

-----------------------------------------------------------------------------
(***************************************************************************)
(* A work begins: get_current_user_id finds a session, or the worker finds *)
(* the account among the credentials (_enqueue_connected_users).  From     *)
(* then on its agents call build, each when it gets that far.              *)
(***************************************************************************)
Begin(w) ==
    /\ sessions # {} \/ row # NoRow
    /\ \A b \in BuildsOf(w) : at[b] = "idle"
    /\ at' = [b \in Builds |-> IF b \in BuildsOf(w) THEN "waiting" ELSE at[b]]
    /\ UNCHANGED <<redis, database, callback, got, cached, holder, google>>

Alive(token) == token # NoToken /\ token > dead

\* What a SELECT returns to a work: its own UPDATE, or the committed row.
View(w) ==
    IF lock = w THEN [access |-> written.access, expiry |-> written.expiry,
                      refresh |-> row.refresh]
    ELSE row

\* _load_credentials without its lock.
MutEnter(b) == at[b] = "waiting"
Enter(b) == at[b] = "waiting" /\ holder[WorkOf[b]] = Nobody

\* The credentials another agent of the work loaded are still valid.
UseCached(b) ==
    /\ Enter(b)
    /\ Alive(cached[WorkOf[b]])
    /\ at' = [at EXCEPT ![b] = "ready"]
    /\ UNCHANGED <<redis, database, callback, got, cached, holder, google>>

\* The stored credentials are missing, valid, or expired.
LoadCredentials(b) ==
    LET w == WorkOf[b]
        view == View(w)
        expired == view.expiry <= dead
    IN /\ Enter(b)
       /\ ~ Alive(cached[w])
       /\ at' = [at EXCEPT ![b] = IF view = NoRow THEN "not_connected"
                                  ELSE IF expired THEN "refresh" ELSE "ready"]
       /\ cached' = [cached EXCEPT ![w] = IF expired THEN @ ELSE view.access]
       /\ holder' = [holder EXCEPT ![w] =
                         IF view # NoRow /\ expired THEN b ELSE Nobody]
       /\ UNCHANGED <<redis, database, callback, got, google>>

\* credentials.refresh, in a thread: Google issues a new access token.
Refresh(b) ==
    /\ at[b] = "refresh"
    /\ issued < MaxIssued
    /\ issued' = issued + 1
    /\ got' = [got EXCEPT ![b] = issued']
    /\ at' = [at EXCEPT ![b] = "flush"]
    /\ UNCHANGED <<redis, database, callback, cached, holder, dead>>

\* A refresh answered without an expiry, stored as it is.
MutIncompleteColumns(b) == [access |-> got[b], expiry |-> NoToken]
Columns(b) == [access |-> got[b], expiry |-> got[b]]

\* The flush waits for another transaction's UPDATE of the row, keeps the row
\* lock until the work's transaction ends, and fills the cache.
Flush(b) ==
    LET w == WorkOf[b]
    IN /\ at[b] = "flush"
       /\ lock \in {Nobody, w}
       /\ lock' = w
       /\ written' = Columns(b)
       /\ cached' = [cached EXCEPT ![w] = got[b]]
       /\ holder' = [holder EXCEPT ![w] = Nobody]
       /\ got' = [got EXCEPT ![b] = NoToken]
       /\ at' = [at EXCEPT ![b] = "ready"]
       /\ UNCHANGED <<redis, user, row, inserting, brought, callback,
                      google>>

\* A commit or a rollback that keeps the lock on the row.
MutUnlock == UNCHANGED <<lock, written>>
Unlock == lock' = Nobody /\ written' = NothingWritten

\* The database undoes what the transaction of a work has written, if anything.
Undo(w) ==
    IF lock = w THEN lock' = Nobody /\ written' = NothingWritten
    ELSE UNCHANGED <<lock, written>>

\* RefreshError, no connection to Google, a token that cannot be decrypted or
\* a failing statement: the build raises and leaves _credential_lock.  A failing
\* statement also undoes the transaction it belongs to.
FailBuild(b) ==
    LET w == WorkOf[b]
    IN /\ at[b] \in {"waiting", "refresh", "flush"}
       /\ at[b] = "waiting" => Enter(b) /\ ~ Alive(cached[w])
       /\ at' = [at EXCEPT ![b] = "failed"]
       /\ got' = [got EXCEPT ![b] = NoToken]
       /\ holder' = [holder EXCEPT ![w] = Nobody]
       /\ \/ at[b] # "flush" /\ UNCHANGED <<lock, written>>
          \/ at[b] # "refresh" /\ Undo(w)
       /\ UNCHANGED <<redis, user, row, inserting, brought, callback,
                      cached, google>>

\* The work commits once no agent of it is loading credentials: the executor
\* awaits its agents, a synchronisation visits its services in turn.
CommitWork(w) ==
    /\ lock = w
    /\ holder[w] = Nobody
    /\ row' = [row EXCEPT !.access = written.access, !.expiry = written.expiry]
    /\ Unlock
    /\ UNCHANGED <<redis, user, inserting, brought, callback, factory, google>>

\* Or it is rolled back and goes on, as a synchronisation does after a failing
\* service: the factory keeps the credentials the row has lost.
RollbackWork(w) ==
    /\ lock = w
    /\ holder[w] = Nobody
    /\ Unlock
    /\ UNCHANGED <<redis, user, row, inserting, brought, callback, factory,
                   google>>

\* The process of a work dies: the database undoes its transaction.
Die(w) ==
    /\ \E b \in BuildsOf(w) : at[b] \in {"waiting", "refresh", "flush"}
    /\ at' = [b \in Builds |-> IF b \in BuildsOf(w) /\ at[b] \notin Settled
                              THEN "failed" ELSE at[b]]
    /\ holder' = [holder EXCEPT ![w] = Nobody]
    /\ got' = [b \in Builds |-> IF b \in BuildsOf(w) THEN NoToken ELSE got[b]]
    /\ Undo(w)
    /\ UNCHANGED <<redis, user, row, inserting, brought, callback, cached,
                   google>>

\* Time passes: the oldest token that is alive expires.
Expire ==
    /\ dead < issued
    /\ dead' = dead + 1
    /\ UNCHANGED <<redis, database, callback, factory, issued>>

-----------------------------------------------------------------------------
Handler(c) ==
    \/ Exchange(c) \/ SelectUser(c) \/ InsertUser(c) \/ SelectCredentials(c)
    \/ CommitSignIn(c) \/ StoreSession(c)

Load(b) == UseCached(b) \/ LoadCredentials(b) \/ Refresh(b) \/ Flush(b)

EndTransaction(w) == CommitWork(w) \/ RollbackWork(w)

Next ==
    \/ \E c \in Callbacks :
          \/ Login(c) \/ ExpireKey(c) \/ ReadState(c)
          \/ Handler(c) \/ FailSignIn(c) \/ FailSession(c)
    \/ \E w \in Works : Begin(w) \/ EndTransaction(w) \/ Die(w)
    \/ \E b \in Builds : Load(b) \/ FailBuild(b)
    \/ Expire

Spec == Init /\ [][Next]_vars

\* What ends without a lock: Google answers or the connection breaks, and a
\* first sign-in without a refresh token is refused.
Refused(c) ==
    /\ \/ pc[c] = "exchange"
       \/ pc[c] = "credentials" /\ ~ Usable(c)
    /\ FailSignIn(c)
Answered(b) == at[b] = "refresh" /\ FailBuild(b)

(***************************************************************************)
(* The event loop runs what can go on, and every work ends its transaction *)
(* once its agents are done.  Nothing bounds the wait for a row lock.      *)
(***************************************************************************)
FairSpec ==
    /\ Spec
    /\ \A c \in Callbacks : WF_vars(Handler(c) \/ Refused(c))
    /\ \A b \in Builds : WF_vars(Load(b) \/ Answered(b))
    /\ \A w \in Works : WF_vars(EndTransaction(w))

-----------------------------------------------------------------------------
TypeOK ==
    /\ flows \in SUBSET Callbacks /\ sessions \in SUBSET Callbacks
    /\ user \in BOOLEAN /\ row \in Row
    /\ inserting \in Callbacks \cup {Nobody}
    /\ lock \in Works \cup {Nobody}
    /\ written \in [access : Tokens, expiry : Tokens] \cup {NothingWritten}
    /\ holder \in [Works -> Builds \cup {Nobody}]
    /\ pc \in [Callbacks -> CallbackPlaces]
    /\ grant \in [Callbacks -> [access : Tokens \cup {NoToken},
                                refresh : Tokens \cup {NoToken}]]
    /\ stored \in [Callbacks -> Tokens \cup {NoToken}]
    /\ at \in [Builds -> BuildPlaces]
    /\ got \in [Builds -> Tokens \cup {NoToken}]
    /\ cached \in [Works -> Tokens \cup {NoToken}]
    /\ issued \in 0..MaxIssued /\ dead \in 0..issued
    /\ brought \in Tokens \cup {NoToken}

(***************************************************************************)
(* The stored credentials belong together whatever sign-ins and refreshes  *)
(* interleave: the expiry is that of the stored access token, or an        *)
(* expired token would be taken for a valid one, and the refresh token is  *)
(* the newest one a committed sign-in brought.                             *)
(***************************************************************************)
CredentialsAgree ==
    row # NoRow => row.expiry = row.access /\ row.refresh = brought

(***************************************************************************)
(* "Google account is not connected" cannot be met: whoever has a session, *)
(* and whatever the worker enqueues, finds a user with credentials, and no *)
(* sign-in ever leaves one without the other.                              *)
(***************************************************************************)
SessionsAreConnected ==
    /\ user <=> row # NoRow
    /\ sessions # {} => user
    /\ \A b \in Builds : at[b] # "idle" => user /\ at[b] # "not_connected"

(***************************************************************************)
(* The agents of a work refresh once: none asks Google for a token while   *)
(* the one another agent of the work has loaded is still alive.            *)
(***************************************************************************)
RefreshedOnce ==
    [][\A b \in Builds :
          got'[b] \notin {NoToken, got[b]} => ~ Alive(cached[WorkOf[b]])]_vars

\* Somebody is at work on a sign-in or on loading credentials.
Busy ==
    \/ \E c \in Callbacks : pc[c] \in InCallback
    \/ \E b \in Builds : at[b] \in {"waiting", "refresh", "flush"}

(***************************************************************************)
(* Every sign-in is answered and every agent gets its client or an error:  *)
(* neither _credential_lock nor the lock of the credentials row, which a   *)
(* work keeps until its transaction ends, is held for ever.                *)
(***************************************************************************)
AllServed == Busy ~> ~ Busy
=============================================================================
