---------------------------- MODULE SignInProofs ----------------------------
(***************************************************************************)
(* Proofs about SignIn for any number of sign-ins, works and agents: the   *)
(* stored credentials belong together, and whoever is let in finds them.   *)
(***************************************************************************)
EXTENDS SignIn, TLAPS

\* What a callback has in hand at each of its places.
CallbackInv ==
    \A c \in Callbacks :
        /\ pc[c] \in {"user", "insert", "credentials", "commit"} =>
              grant[c].access \in Tokens
        /\ stored[c] # NoToken => row # NoRow
        /\ pc[c] = "commit" => grant[c].refresh # NoToken \/ stored[c] # NoToken
        /\ pc[c] = "session" => user

\* An uncommitted UPDATE is one of a row there is, and writes both columns.
LockInv ==
    lock # Nobody =>
        /\ row # NoRow
        /\ written.access \in Tokens /\ written.expiry = written.access

\* A build that refreshes does so for a stored row, and then has a token.
BuildInv ==
    \A b \in Builds : at[b] = "flush" => got[b] \in Tokens

IInv ==
    /\ TypeOK /\ CredentialsAgree /\ SessionsAreConnected
    /\ CallbackInv /\ LockInv /\ BuildInv

LEMMA TokensAreNumbers == Tokens \subseteq Nat \ {0} /\ NoToken \notin Tokens
    BY MaxIssuedAssumption DEF Tokens, NoToken

\* NoRow is told from every other row by its access token.
LEMMA RowsHaveTokens ==
    ASSUME TypeOK
    PROVE  row # NoRow <=>
               /\ row \in [access : Tokens, expiry : Tokens, refresh : Tokens]
               /\ row.access # NoToken /\ row.refresh # NoToken
    BY TokensAreNumbers DEF TypeOK, Row, NoRow

LEMMA InitInv == Init => IInv
<1> SUFFICES ASSUME Init PROVE IInv
    OBVIOUS
<1>1. 1 \in Tokens /\ FirstRow \in Row /\ FirstRow # NoRow /\ FirstRow.refresh = 1
    BY MaxIssuedAssumption DEF Tokens, FirstRow, Row, NoRow, NoToken
<1>2. NoRow \in Row /\ NoRow.refresh = NoToken
    BY DEF Row, NoRow
<1>3. TypeOK
  <2>1. row \in Row /\ brought \in Tokens \cup {NoToken} /\ user \in BOOLEAN
      BY <1>1, <1>2 DEF Init
  <2>2. issued \in 0..MaxIssued /\ dead \in 0..issued
      BY MaxIssuedAssumption DEF Init
  <2> QED BY <2>1, <2>2 DEF Init, TypeOK, CallbackPlaces, BuildPlaces,
                           NothingWritten, NoGrant
<1>4. CredentialsAgree
    BY DEF Init, CredentialsAgree, FirstRow
<1>5. SessionsAreConnected
    BY <1>1 DEF Init, SessionsAreConnected
<1>6. CallbackInv /\ LockInv /\ BuildInv
    BY DEF Init, CallbackInv, LockInv, BuildInv
<1> QED
    BY <1>3, <1>4, <1>5, <1>6 DEF IInv

-----------------------------------------------------------------------------
(***************************************************************************)
(* The steps of a sign-in that commit nothing: they move one callback      *)
(* along, or a key of Redis.                                               *)
(***************************************************************************)
Moves(c) ==
    \/ Login(c) \/ ExpireKey(c) \/ ReadState(c) \/ Exchange(c) \/ SelectUser(c)
    \/ InsertUser(c) \/ SelectCredentials(c) \/ StoreSession(c) \/ FailSignIn(c)
    \/ FailSession(c)

LEMMA MovesFrame ==
    ASSUME TypeOK, NEW c \in Callbacks, Moves(c)
    PROVE  /\ UNCHANGED <<user, row, lock, written, brought, at, got, cached,
                          holder, dead>>
           /\ \A d \in Callbacks \ {c} : /\ pc'[d] = pc[d]
                                         /\ grant'[d] = grant[d]
                                         /\ stored'[d] = stored[d]
<1> USE DEF TypeOK, Goto, redis, database, callback, factory, google
<1>1. CASE Login(c) \/ ExpireKey(c) \/ ReadState(c) \/ SelectUser(c)
    BY <1>1 DEF Login, ExpireKey, ReadState, SelectUser
<1>2. CASE Exchange(c) \/ InsertUser(c) \/ SelectCredentials(c)
    BY <1>2 DEF Exchange, InsertUser, SelectCredentials
<1>3. CASE StoreSession(c) \/ FailSignIn(c) \/ FailSession(c)
    BY <1>3 DEF StoreSession, FailSignIn, FailSession, Forget
<1> QED
    BY <1>1, <1>2, <1>3 DEF Moves

LEMMA MovesType ==
    ASSUME TypeOK, NEW c \in Callbacks, Moves(c)
    PROVE  TypeOK'
<1>1. pc' \in [Callbacks -> CallbackPlaces]
    BY DEF Moves, Login, ExpireKey, ReadState, Exchange, SelectUser, InsertUser,
           SelectCredentials, StoreSession, FailSignIn, FailSession, Goto,
           TypeOK, callback, CallbackPlaces, InCallback
<1>2. /\ grant' \in [Callbacks -> [access : Tokens \cup {NoToken},
                                   refresh : Tokens \cup {NoToken}]]
      /\ issued' \in 0..MaxIssued /\ issued <= issued'
  <2>1. CASE Exchange(c)
    <3>1. issued + 1 \in Tokens
        BY <2>1, MaxIssuedAssumption DEF Exchange, TypeOK, Tokens
    <3>2. PICK token \in {NoToken, issued + 1} :
             grant' = [grant EXCEPT ![c] = [access |-> issued + 1, refresh |-> token]]
        BY <2>1 DEF Exchange
    <3>3. [access |-> issued + 1, refresh |-> token] \in
              [access : Tokens \cup {NoToken}, refresh : Tokens \cup {NoToken}]
        BY <3>1
    <3>4. issued' = issued + 1 /\ issued' \in 0..MaxIssued
        BY <2>1, <3>1, MaxIssuedAssumption DEF Exchange, TypeOK, Tokens
    <3> QED BY <3>2, <3>3, <3>4, MaxIssuedAssumption DEF TypeOK
  <2>2. CASE ~ Exchange(c)
    <3>1. issued' = issued
        BY <2>2 DEF Moves, Login, ExpireKey, ReadState, SelectUser, InsertUser,
                    SelectCredentials, StoreSession, FailSignIn, FailSession, google
    <3>2. \/ grant' = grant
          \/ grant' = [grant EXCEPT ![c] = NoGrant]
        BY <2>2 DEF Moves, Login, ExpireKey, ReadState, SelectUser, InsertUser,
                    SelectCredentials, StoreSession, FailSignIn, FailSession,
                    Forget, callback
    <3> QED BY <3>1, <3>2, MaxIssuedAssumption DEF TypeOK, NoGrant
  <2> QED BY <2>1, <2>2
<1>3. stored' \in [Callbacks -> Tokens \cup {NoToken}]
  <2>1. row.refresh \in Tokens \cup {NoToken}
      BY DEF TypeOK, Row, NoRow
  <2> QED BY <2>1 DEF Moves, Login, ExpireKey, ReadState, Exchange, SelectUser,
                  InsertUser, SelectCredentials, StoreSession, FailSignIn,
                  FailSession, Forget, TypeOK, callback
<1>4. /\ flows' \in SUBSET Callbacks /\ sessions' \in SUBSET Callbacks
      /\ inserting' \in Callbacks \cup {Nobody}
    BY DEF Moves, Login, ExpireKey, ReadState, Exchange, SelectUser, InsertUser,
           SelectCredentials, StoreSession, FailSignIn, FailSession, Release,
           TypeOK, redis, database
<1>5. dead' \in 0..issued'
    BY <1>2, MovesFrame, MaxIssuedAssumption DEF TypeOK
<1> QED
    BY <1>1, <1>2, <1>3, <1>4, <1>5, MovesFrame DEF TypeOK

LEMMA MovesInv == ASSUME IInv, NEW c \in Callbacks, Moves(c) PROVE IInv'
<1> USE DEF IInv
<1>1. TypeOK'
    BY MovesType
<1>2. /\ UNCHANGED <<user, row, lock, written, brought, at, got>>
      /\ \A d \in Callbacks \ {c} : /\ pc'[d] = pc[d]
                                    /\ grant'[d] = grant[d]
                                    /\ stored'[d] = stored[d]
    BY MovesFrame
<1>3. CredentialsAgree' /\ LockInv' /\ BuildInv'
    BY <1>2 DEF CredentialsAgree, LockInv, BuildInv
<1>4. SessionsAreConnected'
  <2>1. sessions' # {} => user
    <3>1. CASE StoreSession(c)
        BY <3>1 DEF StoreSession, MayStoreSession, CallbackInv
    <3>2. CASE ~ StoreSession(c)
      <4>1. sessions' \subseteq sessions
          BY <3>2 DEF Moves, Login, ExpireKey, ReadState, Exchange, SelectUser,
                      InsertUser, SelectCredentials, FailSignIn, FailSession, redis
      <4> QED BY <4>1 DEF SessionsAreConnected
    <3> QED BY <3>1, <3>2
  <2> QED BY <1>2, <2>1 DEF SessionsAreConnected
<1>5. CallbackInv'
  <2> SUFFICES /\ pc'[c] \in {"user", "insert", "credentials", "commit"} =>
                     grant'[c].access \in Tokens
               /\ stored'[c] # NoToken => row # NoRow
               /\ pc'[c] = "commit" =>
                     grant'[c].refresh # NoToken \/ stored'[c] # NoToken
               /\ pc'[c] = "session" => user
      BY <1>2 DEF CallbackInv
  <2>1. CASE Exchange(c)
    <3>1. issued + 1 \in Tokens
        BY <2>1, MaxIssuedAssumption DEF Exchange, TypeOK, Tokens
    <3>2. grant'[c].access = issued + 1 /\ pc'[c] = "user" /\ stored' = stored
        BY <2>1 DEF Exchange, Goto, TypeOK
    <3> QED BY <3>1, <3>2 DEF CallbackInv
  <2>2. CASE SelectCredentials(c)
    <3>1. /\ pc[c] = "credentials" /\ pc'[c] = "commit" /\ grant' = grant
          /\ stored'[c] = row.refresh /\ Usable(c)
        BY <2>2 DEF SelectCredentials, Goto, TypeOK
    <3>2. row # NoRow <=> row.refresh # NoToken
        BY RowsHaveTokens DEF NoRow
    <3> QED BY <3>1, <3>2 DEF CallbackInv, Usable
  <2>3. CASE FailSignIn(c)
    <3>1. pc'[c] = "done" /\ stored'[c] = NoToken
        BY <2>3 DEF FailSignIn, Goto, Forget, TypeOK
    <3> QED BY <3>1
  <2>4. CASE \/ Login(c) \/ ExpireKey(c) \/ ReadState(c) \/ SelectUser(c)
             \/ InsertUser(c) \/ StoreSession(c) \/ FailSession(c)
    <3>1. UNCHANGED <<grant, stored>>
        BY <2>4 DEF Login, ExpireKey, ReadState, SelectUser, InsertUser,
                    StoreSession, FailSession, callback
    <3>2. \/ pc'[c] = pc[c]
          \/ pc'[c] \in {"at_google", "exchange", "done"}
          \/ pc[c] \in {"user", "insert"} /\ pc'[c] \in {"insert", "credentials"}
        BY <2>4 DEF Login, ExpireKey, ReadState, SelectUser, InsertUser,
                    StoreSession, FailSession, callback, Goto, TypeOK
    <3> QED BY <3>1, <3>2 DEF CallbackInv
  <2> QED BY <2>1, <2>2, <2>3, <2>4 DEF Moves
<1> QED
    BY <1>1, <1>3, <1>4, <1>5

(***************************************************************************)
(* The commit of a sign-in: it brings a row with tokens, and keeps the     *)
(* refresh token it was not brought a new one for.                         *)
(***************************************************************************)
LEMMA CommitSignInInv ==
    ASSUME IInv, NEW c \in Callbacks, CommitSignIn(c)
    PROVE  IInv'
<1> USE DEF IInv
<1>1. /\ pc[c] = "commit" /\ lock = Nobody
      /\ stored[c] = NoToken => row = NoRow
      /\ user' = TRUE /\ pc' = [pc EXCEPT ![c] = "session"]
      /\ UNCHANGED <<redis, lock, written, factory, google>>
      /\ grant' = [grant EXCEPT ![c] = NoGrant]
      /\ stored' = [stored EXCEPT ![c] = NoToken]
      /\ inserting' \in {inserting, Nobody}
    BY DEF CommitSignIn, Goto, Forget, Release
<1>2. grant[c].access \in Tokens /\ grant[c].refresh \in Tokens \cup {NoToken}
    BY <1>1 DEF CallbackInv, TypeOK
<1>3. /\ RefreshToken(c) \in Tokens
      /\ brought' = RefreshToken(c)
  <2>1. CASE grant[c].refresh # NoToken
      BY <2>1, <1>2 DEF RefreshToken, CommitSignIn
  <2>2. CASE grant[c].refresh = NoToken
    <3>1. row # NoRow
        BY <2>2, <1>1 DEF CallbackInv
    <3> QED BY <2>2, <3>1, RowsHaveTokens DEF RefreshToken, CommitSignIn,
                                              CredentialsAgree
  <2> QED BY <2>1, <2>2
<1>4. row' = [access |-> grant[c].access, expiry |-> grant[c].access,
              refresh |-> RefreshToken(c)]
    BY DEF CommitSignIn
<1>5. row' \in Row /\ row' # NoRow /\ row'.expiry = row'.access
      /\ row'.refresh = brought'
    BY <1>2, <1>3, <1>4, TokensAreNumbers DEF Row, NoRow
<1>6. TypeOK'
    BY <1>1, <1>3, <1>5 DEF TypeOK, redis, factory, google, CallbackPlaces, NoGrant
<1>7. CredentialsAgree' /\ SessionsAreConnected'
    BY <1>1, <1>5 DEF CredentialsAgree, SessionsAreConnected, redis, factory
<1>8. CallbackInv' /\ LockInv' /\ BuildInv'
    BY <1>1, <1>5 DEF CallbackInv, LockInv, BuildInv, factory, TypeOK
<1> QED
    BY <1>6, <1>7, <1>8

-----------------------------------------------------------------------------
\* A work finds the row that every session has behind it.
LEMMA ViewIsARow ==
    ASSUME IInv, NEW w \in Works, user
    PROVE  /\ View(w) # NoRow
           /\ View(w).access \in Tokens /\ View(w).expiry \in Tokens
<1>1. row # NoRow /\ row \in [access : Tokens, expiry : Tokens, refresh : Tokens]
    BY RowsHaveTokens DEF IInv, SessionsAreConnected
<1>2. CASE lock = w
  <2>1. w # Nobody
      BY NobodyAssumption
  <2> QED BY <1>2, <2>1, TokensAreNumbers DEF IInv, LockInv, View, NoRow
<1>3. CASE lock # w
    BY <1>1, <1>3 DEF View
<1> QED
    BY <1>2, <1>3

\* What a build does: its own place and token, its work's factory and lock.
LEMMA BuildFrame ==
    ASSUME TypeOK, NEW b \in Builds, Load(b) \/ FailBuild(b)
    PROVE  /\ UNCHANGED <<redis, user, row, inserting, brought, callback, dead>>
           /\ at[b] \in {"waiting", "refresh", "flush"}
           /\ \A d \in Builds \ {b} : at'[d] = at[d] /\ got'[d] = got[d]
           /\ at' \in [Builds -> BuildPlaces]
           /\ at'[b] # "idle"
<1> USE DEF TypeOK, database, redis, callback, factory, google, BuildPlaces, Settled
<1>1. CASE UseCached(b)
    BY <1>1 DEF UseCached, Enter
<1>2. CASE LoadCredentials(b)
    BY <1>2 DEF LoadCredentials, Enter
<1>3. CASE Refresh(b)
    BY <1>3 DEF Refresh
<1>4. CASE Flush(b)
    BY <1>4 DEF Flush
<1>5. CASE FailBuild(b)
    BY <1>5 DEF FailBuild
<1> QED
    BY <1>1, <1>2, <1>3, <1>4, <1>5 DEF Load

\* The columns a build writes, or the lock it leaves alone or gives up.
LEMMA BuildLock ==
    ASSUME IInv, NEW b \in Builds, Load(b) \/ FailBuild(b)
    PROVE  /\ lock' \in Works \cup {Nobody}
           /\ written' \in [access : Tokens, expiry : Tokens] \cup {NothingWritten}
           /\ LockInv'
<1> USE DEF IInv
<1>1. WorkOf[b] \in Works
    BY WorkOfAssumption
<1>2. row' = row
    BY BuildFrame
<1>3. CASE UNCHANGED <<lock, written>>
    BY <1>2, <1>3 DEF TypeOK, LockInv
<1>4. CASE lock' = Nobody /\ written' = NothingWritten
    BY <1>4 DEF LockInv
<1>5. CASE Flush(b)
  <2>1. at[b] = "flush" /\ lock' = WorkOf[b] /\ written' = Columns(b)
      BY <1>5 DEF Flush
  <2>2. got[b] \in Tokens /\ row # NoRow
      BY <2>1 DEF BuildInv, SessionsAreConnected
  <2>3. written' = [access |-> got[b], expiry |-> got[b]]
      BY <2>1 DEF Columns
  <2> QED BY <1>1, <1>2, <2>1, <2>2, <2>3 DEF LockInv
<1> QED
    BY <1>3, <1>4, <1>5 DEF Load, UseCached, LoadCredentials, Refresh, FailBuild,
                            Undo, database

LEMMA BuildStep ==
    ASSUME IInv, NEW b \in Builds, Load(b) \/ FailBuild(b)
    PROVE  IInv'
<1> USE DEF IInv
<1> DEFINE w == WorkOf[b]
<1>1. w \in Works
    BY WorkOfAssumption
<1>2. /\ UNCHANGED <<redis, user, row, inserting, brought, callback, dead>>
      /\ at[b] \in {"waiting", "refresh", "flush"}
      /\ \A d \in Builds \ {b} : at'[d] = at[d] /\ got'[d] = got[d]
      /\ at' \in [Builds -> BuildPlaces] /\ at'[b] # "idle"
    BY BuildFrame
<1>3. user
    BY <1>2 DEF SessionsAreConnected
<1>4. /\ issued' \in 0..MaxIssued /\ issued <= issued'
      /\ got' \in [Builds -> Tokens \cup {NoToken}]
      /\ at'[b] = "flush" => got'[b] \in Tokens
  <2>1. CASE Refresh(b)
    <3>1. issued + 1 \in Tokens /\ issued + 1 \in 0..MaxIssued /\ issued <= issued + 1
        BY <2>1, MaxIssuedAssumption DEF Refresh, TypeOK, Tokens
    <3> QED BY <2>1, <3>1 DEF Refresh, TypeOK
  <2>2. CASE ~ Refresh(b)
    <3>1. issued' = issued /\ at'[b] # "flush"
        BY <2>2 DEF Load, UseCached, LoadCredentials, Flush, FailBuild, google, TypeOK
    <3>2. got' = got \/ got' = [got EXCEPT ![b] = NoToken]
        BY <2>2 DEF Load, UseCached, LoadCredentials, Flush, FailBuild
    <3> QED BY <3>1, <3>2, MaxIssuedAssumption DEF TypeOK
  <2> QED BY <2>1, <2>2
<1>5. cached' \in [Works -> Tokens \cup {NoToken}]
  <2>1. CASE LoadCredentials(b)
      BY <1>1, <1>3, <2>1, ViewIsARow DEF LoadCredentials, TypeOK
  <2>2. CASE ~ LoadCredentials(b)
    <3>1. cached' = cached \/ cached' = [cached EXCEPT ![w] = got[b]]
        BY <2>2 DEF Load, UseCached, Refresh, Flush, FailBuild
    <3> QED BY <3>1 DEF TypeOK
  <2> QED BY <2>1, <2>2
<1>6. holder' \in [Works -> Builds \cup {Nobody}]
  <2>1. \/ holder' = holder
        \/ \E h \in Builds \cup {Nobody} : holder' = [holder EXCEPT ![w] = h]
      BY DEF Load, UseCached, LoadCredentials, Refresh, Flush, FailBuild
  <2> QED BY <2>1 DEF TypeOK
<1>7. TypeOK'
  <2>1. dead' \in 0..issued'
      BY <1>2, <1>4, MaxIssuedAssumption DEF TypeOK
  <2> QED BY <1>2, <1>4, <1>5, <1>6, <2>1, BuildLock DEF TypeOK, redis, callback
<1>8. at'[b] # "not_connected"
  <2>1. CASE LoadCredentials(b)
      BY <1>1, <1>3, <2>1, ViewIsARow DEF LoadCredentials, TypeOK
  <2>2. CASE ~ LoadCredentials(b)
      BY <2>2 DEF Load, UseCached, Refresh, Flush, FailBuild, TypeOK
  <2> QED BY <2>1, <2>2
<1>9. SessionsAreConnected'
    BY <1>2, <1>3, <1>8 DEF SessionsAreConnected, redis
<1>10. CredentialsAgree' /\ CallbackInv' /\ BuildInv'
    BY <1>2, <1>4 DEF CredentialsAgree, CallbackInv, BuildInv, callback
<1> QED
    BY <1>7, <1>9, <1>10, BuildLock

-----------------------------------------------------------------------------
\* A work begins with a row, commits its UPDATE, loses it, or dies.
LEMMA BeginInv == ASSUME IInv, NEW w \in Works, Begin(w) PROVE IInv'
<1> USE DEF IInv
<1>1. user
    BY DEF Begin, SessionsAreConnected
<1>2. /\ UNCHANGED <<redis, database, callback, got, cached, holder, google>>
      /\ \A b \in Builds : at'[b] \in {at[b], "waiting"}
      /\ at' \in [Builds -> BuildPlaces]
    BY DEF Begin, TypeOK, BuildPlaces
<1>3. TypeOK'
    BY <1>2 DEF TypeOK, redis, database, callback, google
<1>4. SessionsAreConnected'
    BY <1>1, <1>2 DEF SessionsAreConnected, redis, database
<1>5. CredentialsAgree' /\ CallbackInv' /\ LockInv' /\ BuildInv'
    BY <1>2 DEF CredentialsAgree, CallbackInv, LockInv, BuildInv, redis,
                database, callback
<1> QED
    BY <1>3, <1>4, <1>5

LEMMA EndTransactionInv ==
    ASSUME IInv, NEW w \in Works, EndTransaction(w)
    PROVE  IInv'
<1> USE DEF IInv
<1>1. /\ lock = w /\ lock' = Nobody /\ written' = NothingWritten
      /\ UNCHANGED <<redis, user, inserting, brought, callback, factory, google>>
    BY DEF EndTransaction, CommitWork, RollbackWork, Unlock
<1>2. /\ row # NoRow /\ written.access \in Tokens /\ written.expiry = written.access
    BY <1>1, NobodyAssumption DEF LockInv
<1>3. /\ row' \in Row /\ row' # NoRow
      /\ row'.expiry = row'.access /\ row'.refresh = row.refresh
  <2>1. CASE row' = row
      BY <1>2, <2>1 DEF TypeOK, CredentialsAgree
  <2>2. CASE row' = [row EXCEPT !.access = written.access, !.expiry = written.expiry]
    <3>1. row' = [access |-> written.access, expiry |-> written.access,
                  refresh |-> row.refresh]
        BY <1>2, <2>2, RowsHaveTokens
    <3> QED BY <1>2, <3>1, RowsHaveTokens, TokensAreNumbers DEF Row, NoRow
  <2> QED BY <2>1, <2>2 DEF EndTransaction, CommitWork, RollbackWork
<1>4. TypeOK'
    BY <1>1, <1>3 DEF TypeOK, redis, callback, factory, google
<1>5. CredentialsAgree'
    BY <1>1, <1>2, <1>3 DEF CredentialsAgree
<1>6. SessionsAreConnected' /\ CallbackInv' /\ LockInv' /\ BuildInv'
    BY <1>1, <1>2, <1>3 DEF SessionsAreConnected, CallbackInv, LockInv, BuildInv,
                            redis, callback, factory
<1> QED
    BY <1>4, <1>5, <1>6

LEMMA DieInv == ASSUME IInv, NEW w \in Works, Die(w) PROVE IInv'
<1> USE DEF IInv
<1>1. /\ UNCHANGED <<redis, user, row, inserting, brought, callback, cached, google>>
      /\ \/ lock' = Nobody /\ written' = NothingWritten
         \/ UNCHANGED <<lock, written>>
    BY DEF Die, Undo
<1>2. /\ at' \in [Builds -> BuildPlaces]
      /\ \A b \in Builds : at'[b] = at[b] \/ at'[b] = "failed"
      /\ \A b \in BuildsOf(w) : at'[b] # "flush"
      /\ \A b \in Builds \ BuildsOf(w) : got'[b] = got[b]
      /\ got' \in [Builds -> Tokens \cup {NoToken}]
  <2>1. /\ at' = [b \in Builds |-> IF b \in BuildsOf(w) /\ at[b] \notin Settled
                                  THEN "failed" ELSE at[b]]
        /\ got' = [b \in Builds |-> IF b \in BuildsOf(w) THEN NoToken ELSE got[b]]
        /\ BuildsOf(w) \subseteq Builds
      BY DEF Die, BuildsOf
  <2>2. at' \in [Builds -> BuildPlaces] /\ got' \in [Builds -> Tokens \cup {NoToken}]
      BY <2>1 DEF TypeOK, BuildPlaces, Settled
  <2>3. \A b \in Builds : at'[b] = at[b] \/ at'[b] = "failed"
      BY <2>1
  <2>4. \A b \in BuildsOf(w) : at'[b] # "flush"
      BY <2>1 DEF Settled
  <2>5. \A b \in Builds \ BuildsOf(w) : got'[b] = got[b]
      BY <2>1
  <2> QED BY <2>2, <2>3, <2>4, <2>5
<1>3. holder' \in [Works -> Builds \cup {Nobody}]
    BY DEF Die, TypeOK
<1>4. user
  <2>1. PICK b \in BuildsOf(w) : at[b] \in {"waiting", "refresh", "flush"}
      BY DEF Die
  <2> QED BY <2>1 DEF SessionsAreConnected, BuildsOf
<1>5. TypeOK'
    BY <1>1, <1>2, <1>3 DEF TypeOK, redis, callback, google
<1>6. SessionsAreConnected'
    BY <1>1, <1>2, <1>4 DEF SessionsAreConnected, redis
<1>7. BuildInv'
    BY <1>2 DEF BuildInv
<1>8. CredentialsAgree' /\ CallbackInv' /\ LockInv'
    BY <1>1 DEF CredentialsAgree, CallbackInv, LockInv, callback
<1> QED
    BY <1>5, <1>6, <1>7, <1>8

LEMMA QuietInv == ASSUME IInv, Expire \/ UNCHANGED vars PROVE IInv'
<1> USE DEF IInv
<1>1. /\ UNCHANGED <<redis, database, callback, factory, issued>>
      /\ dead' \in 0..issued
    BY MaxIssuedAssumption DEF Expire, vars, google, TypeOK
<1>2. TypeOK'
    BY <1>1 DEF TypeOK, redis, database, callback, factory
<1>3. /\ CredentialsAgree' /\ SessionsAreConnected' /\ CallbackInv'
      /\ LockInv' /\ BuildInv'
    BY <1>1 DEF CredentialsAgree, SessionsAreConnected, CallbackInv, LockInv,
                BuildInv, redis, database, callback, factory
<1> QED
    BY <1>2, <1>3

(***************************************************************************)
(* The inductive invariant of sign-ins and works.                          *)
(***************************************************************************)
THEOREM Invariance == Spec => []IInv
<1>1. IInv /\ [Next]_vars => IInv'
  <2> SUFFICES ASSUME IInv, [Next]_vars PROVE IInv'
      OBVIOUS
  <2>1. ASSUME NEW c \in Callbacks,
               \/ Login(c) \/ ExpireKey(c) \/ ReadState(c)
               \/ Handler(c) \/ FailSignIn(c) \/ FailSession(c)
        PROVE  IInv'
      BY <2>1, MovesInv, CommitSignInInv DEF Moves, Handler
  <2>2. ASSUME NEW w \in Works, Begin(w) \/ EndTransaction(w) \/ Die(w)
        PROVE  IInv'
      BY <2>2, BeginInv, EndTransactionInv, DieInv
  <2>3. ASSUME NEW b \in Builds, Load(b) \/ FailBuild(b) PROVE IInv'
      BY <2>3, BuildStep
  <2>4. CASE Expire \/ UNCHANGED vars
      BY <2>4, QuietInv
  <2> QED BY <2>1, <2>2, <2>3, <2>4 DEF Next
<1> QED
    BY <1>1, InitInv, PTL DEF Spec

(***************************************************************************)
(* Every variable keeps its type.                                          *)
(***************************************************************************)
THEOREM TypeCorrect == Spec => []TypeOK
<1>1. IInv => TypeOK
    BY DEF IInv
<1> QED
    BY <1>1, Invariance, PTL

(***************************************************************************)
(* The stored access token, its expiry and the refresh token belong        *)
(* together, for any number of concurrent sign-ins and refreshes.          *)
(***************************************************************************)
THEOREM CredentialsBelongTogether == Spec => []CredentialsAgree
<1>1. IInv => CredentialsAgree
    BY DEF IInv
<1> QED
    BY <1>1, Invariance, PTL

(***************************************************************************)
(* Whoever has a session, and every work, finds stored credentials: no     *)
(* agent ever says that the account is not connected.                      *)
(***************************************************************************)
THEOREM SessionsHaveCredentials == Spec => []SessionsAreConnected
<1>1. IInv => SessionsAreConnected
    BY DEF IInv
<1> QED
    BY <1>1, Invariance, PTL

-----------------------------------------------------------------------------
(***************************************************************************)
(* Refreshing.  An agent that refreshes holds the _credential_lock of its  *)
(* work, whose factory has no valid credentials; so there is one of them,  *)
(* and nobody else fills the factory meanwhile.                            *)
(***************************************************************************)
Refreshing(b) == at[b] \in {"refresh", "flush"}

HolderInv ==
    \A b \in Builds : Refreshing(b) =>
        holder[WorkOf[b]] = b /\ ~ Alive(cached[WorkOf[b]])

\* Where no agent takes up a refresh, and factories and tokens stay.
LEMMA HolderStays ==
    ASSUME HolderInv, UNCHANGED <<cached, holder, dead>>,
           \A b \in Builds : Refreshing(b)' => Refreshing(b)
    PROVE  HolderInv'
  BY DEF HolderInv, Alive

\* An agent that ends or begins a refresh: the others of its work do neither.
LEMMA BuildHolds ==
    ASSUME TypeOK, HolderInv, NEW b \in Builds, Load(b) \/ FailBuild(b)
    PROVE  HolderInv'
<1> DEFINE w == WorkOf[b]
<1>1. w \in Works /\ b # Nobody /\ \A d \in Builds : WorkOf[d] \in Works /\ d # Nobody
    BY WorkOfAssumption, NobodyAssumption
<1>2. /\ dead' = dead
      /\ \A d \in Builds \ {b} : at'[d] = at[d]
    BY BuildFrame
<1>3. \A d \in Builds \ {b} : WorkOf[d] # w =>
         holder'[WorkOf[d]] = holder[WorkOf[d]] /\ cached'[WorkOf[d]] = cached[WorkOf[d]]
    BY <1>1 DEF Load, UseCached, LoadCredentials, Refresh, Flush, FailBuild, TypeOK
<1>4. CASE UseCached(b)
    BY <1>2, <1>4, HolderStays DEF UseCached, Refreshing, TypeOK
<1>5. CASE Refresh(b)
    BY <1>2, <1>5, HolderStays DEF Refresh, Refreshing, TypeOK
<1>6. CASE LoadCredentials(b) \/ Flush(b) \/ FailBuild(b)
  <2>1. holder[w] \in {b, Nobody}
      BY <1>6 DEF LoadCredentials, Flush, FailBuild, Enter, HolderInv, Refreshing
  <2>2. \A d \in Builds \ {b} : WorkOf[d] = w => ~ Refreshing(d)'
      BY <1>1, <1>2, <2>1 DEF HolderInv, Refreshing
  <2>3. \A d \in Builds \ {b} : Refreshing(d)' =>
           holder'[WorkOf[d]] = d /\ ~ Alive(cached[WorkOf[d]])'
      BY <1>2, <1>3, <2>2 DEF HolderInv, Refreshing, Alive
  <2>4. Refreshing(b)' => holder'[w] = b /\ ~ Alive(cached[w])'
    <3>1. CASE Flush(b) \/ FailBuild(b)
        BY <3>1 DEF Flush, FailBuild, Refreshing, TypeOK
    <3>2. CASE LoadCredentials(b)
      <4>1. ASSUME Refreshing(b)'
            PROVE  View(w) # NoRow /\ View(w).expiry <= dead
          BY <3>2, <4>1 DEF LoadCredentials, Refreshing, TypeOK
      <4>2. ASSUME Refreshing(b)'
            PROVE  holder'[w] = b /\ cached' = cached /\ ~ Alive(cached[w])
          BY <1>1, <3>2, <4>1, <4>2 DEF LoadCredentials, TypeOK
      <4> QED BY <1>2, <4>2 DEF Alive
    <3> QED BY <1>6, <3>1, <3>2
  <2> QED BY <2>3, <2>4 DEF HolderInv
<1> QED
    BY <1>4, <1>5, <1>6 DEF Load

\* A token that has expired stays expired.
LEMMA ExpireHolds ==
    ASSUME TypeOK, HolderInv, Expire
    PROVE  HolderInv'
<1>1. UNCHANGED <<at, cached, holder>> /\ dead' = dead + 1
    BY DEF Expire, factory
<1>2. dead \in Nat /\ \A w \in Works : cached[w] \in Nat
  <2>1. dead \in Nat
      BY MaxIssuedAssumption DEF TypeOK
  <2>2. \A w \in Works : cached[w] \in Nat
    <3>1. \A w \in Works : cached[w] \in Tokens \cup {NoToken}
        BY DEF TypeOK
    <3>2. Tokens \cup {NoToken} \subseteq Nat
        BY MaxIssuedAssumption DEF Tokens, NoToken
    <3> QED BY <3>1, <3>2
  <2> QED BY <2>1, <2>2
<1>3. \A w \in Works : ~ Alive(cached[w]) => ~ Alive(cached[w])'
    BY <1>1, <1>2 DEF Alive
<1> QED
    BY <1>1, <1>3, WorkOfAssumption DEF HolderInv, Refreshing

LEMMA DieHolds ==
    ASSUME TypeOK, HolderInv, NEW w \in Works, Die(w)
    PROVE  HolderInv'
<1>1. /\ cached' = cached /\ dead' = dead
      /\ holder' = [holder EXCEPT ![w] = Nobody]
      /\ at' = [b \in Builds |-> IF b \in BuildsOf(w) /\ at[b] \notin Settled
                                THEN "failed" ELSE at[b]]
    BY DEF Die, google
<1>2. \A b \in Builds : Refreshing(b)' => Refreshing(b) /\ WorkOf[b] # w
    BY <1>1 DEF Refreshing, BuildsOf, Settled
<1> QED
    BY <1>1, <1>2, WorkOfAssumption DEF HolderInv, Alive, TypeOK

THEOREM RefreshersHoldLock == Spec => []HolderInv
<1>1. Init => HolderInv
    BY DEF Init, HolderInv, Refreshing
<1>2. TypeOK /\ HolderInv /\ [Next]_vars => HolderInv'
  <2> SUFFICES ASSUME TypeOK, HolderInv, [Next]_vars PROVE HolderInv'
      OBVIOUS
  <2>1. ASSUME NEW c \in Callbacks,
               \/ Login(c) \/ ExpireKey(c) \/ ReadState(c)
               \/ Handler(c) \/ FailSignIn(c) \/ FailSession(c)
        PROVE  HolderInv'
    <3>1. UNCHANGED <<at, cached, holder, dead>>
      <4>1. CASE Moves(c)
          BY <4>1, MovesFrame
      <4>2. CASE CommitSignIn(c)
          BY <4>2 DEF CommitSignIn, factory, google
      <4> QED BY <2>1, <4>1, <4>2 DEF Moves, Handler
    <3> QED BY <3>1, HolderStays DEF Refreshing
  <2>2. ASSUME NEW w \in Works, Begin(w) PROVE HolderInv'
    <3>1. \A b \in Builds : Refreshing(b)' => Refreshing(b)
        BY <2>2 DEF Begin, Refreshing
    <3> QED BY <2>2, <3>1, HolderStays DEF Begin, google
  <2>3. ASSUME NEW w \in Works, EndTransaction(w) PROVE HolderInv'
      BY <2>3, HolderStays DEF EndTransaction, CommitWork, RollbackWork, factory,
                               google, Refreshing
  <2>4. ASSUME NEW w \in Works, Die(w) PROVE HolderInv'
      BY <2>4, DieHolds
  <2>5. ASSUME NEW b \in Builds, Load(b) \/ FailBuild(b) PROVE HolderInv'
      BY <2>5, BuildHolds
  <2>6. CASE Expire
      BY <2>6, ExpireHolds
  <2>7. CASE UNCHANGED vars
      BY <2>7, HolderStays DEF vars, factory, google, Refreshing
  <2> QED BY <2>1, <2>2, <2>3, <2>4, <2>5, <2>6, <2>7 DEF Next
<1> QED
    BY <1>1, <1>2, TypeCorrect, PTL DEF Spec

\* Only Refresh brings a token.
LEMMA OnlyRefreshBrings ==
    ASSUME TypeOK, [Next]_vars, NEW b \in Builds, got'[b] \notin {NoToken, got[b]}
    PROVE  Refresh(b)
<1>1. ASSUME NEW c \in Callbacks,
             \/ Login(c) \/ ExpireKey(c) \/ ReadState(c)
             \/ Handler(c) \/ FailSignIn(c) \/ FailSession(c)
      PROVE  got' = got
  <2>1. CASE Moves(c)
      BY <2>1, MovesFrame
  <2>2. CASE CommitSignIn(c)
      BY <2>2 DEF CommitSignIn, factory
  <2> QED BY <1>1, <2>1, <2>2 DEF Moves, Handler
<1>2. ASSUME NEW w \in Works, Begin(w) \/ EndTransaction(w) PROVE got' = got
    BY <1>2 DEF Begin, EndTransaction, CommitWork, RollbackWork, factory
<1>3. ASSUME NEW w \in Works, Die(w) PROVE got'[b] \in {NoToken, got[b]}
    BY <1>3 DEF Die
<1>4. ASSUME NEW d \in Builds, Load(d) \/ FailBuild(d), ~ Refresh(b)
      PROVE  got'[b] \in {NoToken, got[b]}
    BY <1>4 DEF Load, UseCached, LoadCredentials, Refresh, Flush, FailBuild, TypeOK
<1>5. CASE Expire \/ UNCHANGED vars
    BY <1>5 DEF Expire, vars, factory
<1> QED
    BY <1>1, <1>2, <1>3, <1>4, <1>5 DEF Next

(***************************************************************************)
(* An agent asks Google for a token only while its factory has no valid    *)
(* one, for any number of agents that share it.                            *)
(***************************************************************************)
THEOREM RefreshesOnce == Spec => RefreshedOnce
<1>1. ASSUME TypeOK, HolderInv, [Next]_vars,
             NEW b \in Builds, got'[b] \notin {NoToken, got[b]}
      PROVE  ~ Alive(cached[WorkOf[b]])
  <2>1. Refresh(b)
      BY <1>1, OnlyRefreshBrings
  <2> QED BY <1>1, <2>1 DEF Refresh, HolderInv, Refreshing
<1>2. TypeOK /\ HolderInv /\ [Next]_vars =>
         [\A b \in Builds : got'[b] \notin {NoToken, got[b]} =>
             ~ Alive(cached[WorkOf[b]])]_vars
    BY <1>1
<1> QED
    BY <1>2, TypeCorrect, RefreshersHoldLock, PTL DEF Spec, RefreshedOnce
=============================================================================
