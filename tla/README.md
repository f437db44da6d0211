# A TLA+ model of the Google Workspace orchestrator

This directory holds TLA+ modules that model the backend of the orchestrator (`src/app`) and the
parts of its web client that take part in its protocols, TLC configurations that check them on small
instances, and TLAPS proofs for every value of the constants. `PROJECT.json` lists the runs, the
mutants that show each property can fail, the source lines every definition stands for, the hazards
of the code and the theorems.

To repeat a check: `tlc -config MCExecutor.cfg MCExecutor.tla`; to repeat a proof:
`tlapm ExecutorProofs.tla`.

## 1. The system

A question asked in the chat goes through the **query endpoint**, the **classifier** and the
**planner** (language model behind both), the **executor**, which runs a dependency graph of
operations with **agents** for Gmail, Calendar, Drive and the local index, and a **synthesiser**.
Writes are not executed: they become **approvals**, which other endpoints execute or reject. A
**worker** synchronises the user's Google data into the **index**, which the **search** reads and the
**workspace agent** complements with native calls when it is stale.

| Component | State | Operations | Interacts with | Correct when |
|---|---|---|---|---|
| DAG executor (`orchestration/executor.py`) | results of the steps, rows of one open transaction | waves: screen, gather, record; commit or rollback | agents (concurrent, one session), registry, database | every step has one outcome after its dependencies; skipped exactly when one did not complete; commit is whole; writes stay behind the gate |
| Approval endpoints (`api/routes/approvals.py`) | approval, step, execution, audit rows; a row lock | approve, reject | Google API (in a thread), database | decisions are final and made once; what was written is on record |
| Query endpoint (`api/routes/query.py`) | conversations, messages | submit: two transactions | classifier, planner, executor, client | conversations are private; refusals leave nothing; follow-ups see their context |
| Classifier and planner (`orchestration/classifier.py`, `planner.py`) | none: one request | validate, repair once, clarify, rewrite and route | language model, registry | whatever the model says, the plan is valid, its writes are its own, ambiguous writes are asked back |
| Sync worker (`workers/tasks.py`) | a Redis key with expiry, a renewal task | acquire, skip, renew, release | Beat, trigger endpoint, Redis | one job per user, no lock for ever |
| Sync service (`sync/service.py`, `retrieval/indexer.py`) | sync_state, workspace_items | per service: announce, list, fetch, upsert, commit or fail | Google, database | no change its listing can see is forgotten, no item going back, no service stuck |
| Search (`retrieval/search.py`) | process and Redis cache of query embeddings, flights | embed once, read chunks, read sync_state | Redis, model, database | one computation per key, no flight left behind |
| Workspace agent (`agents/workspace.py`, `retrieval/freshness.py`) | none | search, judge freshness, fall back | search, native agents | finds what is indexed, reports the fallback that ran |
| Sign-in and credentials (`api/routes/auth.py`, `integrations/google.py`) | OAuth state and sessions in Redis; users and credentials rows with their locks; the factory of a work | login, callback; load, refresh and store credentials | Redis, Google, every request and job | the stored credentials belong together; whoever has a session is connected; one refresh per work |
| Web client (`frontend/src`) | conversation id and loading state per tab, state of a card | send, sign in, decide, sync | all endpoints | a card and a tab say what happened |

The hard behaviour: agents that share one database transaction; requests racing for approvals around
a call that may take effect without its answer being seen; a lock that expires under a slow job;
items that change while they are listed; two reads of an index that a commit may separate; sign-ins
and token refreshes that meet on one row; replies and commits nobody hears of; requests of one
conversation that overlap; and a language model whose output is
trusted with nothing. The 40 places where it bites are the `hazards` of `PROJECT.json`.

Pure parts without state (prompts, date parsing, compaction, relevance scoring, chunking,
normalisation, the wording of responses), wiring and probes, migrations and the offline evaluation
are not modelled: nothing in them interleaves or persists.

## 2. The modules

`Statuses` and `PlanGraph` hold what several modules share (`PendingRows` is the state of the tables in
which the executor stops and the approvals begin); `PlanContract` and `IndexContract` are abstract
specifications, and `SyncLock` is one that `WorkspaceSync` extends. A module `MCx` gives `x` its
constants for TLC; `xProofs` holds theorems.

    Statuses, PlanGraph <-- PlanContract <== Executor        <== : is implemented by (refinement)
    Statuses            <-- Approvals    <== ApprovalCard    <-- : is used by
    PlanGraph           <-- Interpretation <== PlanValidation
    SyncLock, IndexContract              <== WorkspaceSync
    IndexContract                        <-- WorkspaceSearch
    QueryFlow, EmbeddingFlight, SignIn

**Executor.** `steps, deps, refs, op` are the plan, any that `validate_graph` accepts. `Scan` is one
pass of `while remaining` with everything it decides about the ready steps (`Screen`), the `Agent`
actions are the coroutines under `gather` in any order, `Record` the recording and flush of the wave,
`Commit` the summary and the commit. A step's data is what the later steps pointing into it find
there: nothing, a value that does not satisfy the contract, or one that does. `AgentBreaksSession` is
a database error inside an agent, after which only `FlushFails` is possible; `Crash` is every other
failure. `DraftLands` is a draft that Google creates after the step gave up on it.
`PlanContract` says what this is for, in three actions: `Apply` (an effect at Google, never of a step
behind the gate), `Settle` (outcomes appear once, after those of the dependencies, `skipped` exactly
where a dependency did not complete) and `Publish` (all outcomes at once, with a proposal for exactly
the pending steps, and at most one publication). `KeepsContract` is the refinement, with `results` as
the outcomes and the committed status as what is published.

**Approvals.** One execution after its commit, with any number of requests. The places of a handler
(`pc`) are the awaits of `approve_action` and `reject_action`; the row lock of `FOR UPDATE` is held
from `Acquire` to the end of the transaction. `call` is the request's Google call: in flight it may
land or be lost at any time, also after its request was answered. `Refresh` sees the flushed step of
its own transaction and the committed steps of the others (READ COMMITTED); `Flushed` is the ORM,
which writes a status only if it differs from what it loaded. `Finish` answers 200, or 500 when the
commit took effect and nobody heard of it; `Abort` is a commit, or anything before it, that did not.

**ApprovalCard** extends `Approvals` with the cards of a tab. `Press` is a click, which sends one of
the requests; `Answer` shows what its reply says (200, a decision; 409, processed; anything else, an
error and the card pending again) and `NoAnswer` a reply that is lost. Requests that no card sent come
from other tabs. The specification of the whole is `CardSpec`, and the server's part of it is
`Approvals` unchanged (`CardsAreClients`).

**Interpretation.** A draft is any member of `Drafts`; its arguments fit, do not fit, or are of a type
the rewriting does not expect (`"odd"`). `Parses` is `validate_graph`. `Canonical` is
`_canonical_arguments`: an argument the query or the intent decides is replaced whatever it was, so a
`create_event` or a search may lose what it read from another step (`replaced`), a missing argument
may be supplied (`"amiss"`), and a value that is no timestamp fails the attempt. `Route` is
`_route_contextual_retrieval` for any choice the code may make (which calendar step, which free name),
`Allowed` is `validate_plan`. Repairs are counted by `attempt`.

**PlanValidation** extends `Interpretation` with the inside of `validate_graph`, which `Parses` takes as
one step: the loop over the declarations (`Declared`) and then the depth-first search, whose recursion
is a machine with the calls in progress in `path` and the marks of the code in `visit_state`. `Visit`
and `Return` are a call and its end, `Reject` and `Accept` the two verdicts; the loops take steps and
dependencies in any order. Python's recursion limit, far above the length of a plan, is not modelled.

**SyncLock.** Time is a number of ticks: Redis ages the key, a renewal task knows the age of its last
renewal, and `Elapse` may not pass a renewal that is `Lateness` overdue. `Unanswered` is a SET whose
reply is lost, `RenewFails` and `ReleaseFails` are failing scripts, `Die` the death of the worker.

**WorkspaceSync.** Jobs of `SyncLock` (whose module it extends) carry attempts: `Find` and
`Open` are the sync_state row before the `try`, `List` a page, `Get` a fetch, `Upsert` the indexer
with its row lock, `Complete` and `ServiceFails` the two ends, `Raise` an exception outside the
`try`. Timestamps are abstracted to what a listing can tell by them: `listed` holds the items whose
tested date is after `last_successful_sync`, and the events within the calendar's time bounds. What
the tested date is differs: Gmail's `after:` tests the date of the message, which no later change
moves; Drive's `modifiedTime` moves with an edit of the contents and not with a move or a share
(`Change` takes both: `match`); an event may be moved into or out of the bounds, or time may do it
(`Drift`). Contents are a version, read from the page of the listing, from the fetch, or from both
(`Reads`). `missed` is a history variable with what the code is known to lose.

**IndexContract** is what readers may rely on: an attempt is announced, what it indexed appears
together with `completed`, nothing disappears. `WorkspaceSync` implements it (`KeepsContract`), and
`WorkspaceSearch` is built on it instead of on the jobs.

**WorkspaceSearch.** `ReadChunks` and `ReadStates` are the two statements of a search; the first takes
a limited number of rows, one per chunk, and the best `TopK` of them, one per message thread, are
found. The scores are left open: any rows may be the best. `Fallback` is one turn of the loop of
`_native_fallback`.

**EmbeddingFlight.** A step lasts from one suspension of the event loop to the next. An `asyncio.Lock`
is the queue of its requests, whose head holds it. Redis is shared with the worker and with other
processes: it may hold anything at first, and `Elsewhere` is another process storing an embedding.

**QueryFlow.** `Load`, `Recall` and then `Clarify`, `Refuse` or `Execute` are the first transaction,
`Answer` and `Close` the second; `Fail` undoes the open one. `created_at` is the start of the
transaction. A tab sends one request at a time (`Loading`), but the requests of one conversation
overlap all the same: `Abandon` is a page that is reloaded, or a `fetch` that fails, at any time
while the server goes on, and `Duplicate` a tab that starts with a copy of another's
`sessionStorage`. `heard` is a history variable: the exchanges the browser had seen when it sent.

**SignIn** is one Google account. `Login` and the steps of a callback (`ReadState`, `Exchange`,
`SelectUser`, `InsertUser`, `SelectCredentials`, `CommitSignIn`, `StoreSession`) go through one
transaction and, after it, Redis: a second insertion of the account waits for the unique email of the
first, and the SELECTs are fresh. Tokens are numbered in the order Google issues them; a credentials
row is `access`, `expiry` (the token whose expiry is stored) and `refresh`. A `Work` is a request or
an attempt of a synchronisation with its own session and factory, a `Build` one of its agents asking
for a client: `Enter` takes the factory's `_credential_lock`, `LoadCredentials`, `Refresh` and `Flush`
are what it guards, and the row lock taken by `Flush` is held until `CommitWork` or `RollbackWork`.
SQLAlchemy updates only the columns that changed, so a refresh leaves the refresh token alone. A
repeated callback, whose code Google refuses, is `FailSignIn`. The locks are always taken in the order
approval, credentials, index items, so works do not wait in a circle over them.

## 3. The runs

| Run | Instance | What it shows |
|---|---|---|
| `executor` | every valid plan of at most 3 steps | `InputsExist`, `KeepsContract`, `Terminates` |
| `approvals` | 2 approvals with a card each, 2 requests | `RecordsAgree`, `HonestCompletion`, `EffectsMatchRecords`, `CallsOnlyWhilePending`, `CardsAreHonest`, `CardsSettle` |
| `sync_lock` | 3 jobs, TTL 7, lateness 4 | `Exclusive`, `OnlyOwnerReleases`, `OrphanedLockExpires` |
| `workspace_sync` | 2 jobs, 2 Drive files (a text document and a file without text), 2 versions, pages of 1, limit 2, 1 crash, failure or deletion | `ChangesStayListed`, `IndexNeverRegresses`, `KeepsContract` |
| `workspace_sync_live` | 2 jobs, Gmail and Calendar with an item each, 1 crash, failure or deletion | `RunningSettles`, `FullListingCatchesUp` |
| `embedding_flight` | 3 requests, 2 keys, cache of 1 | `EmbeddedOnce`, `FlightsDrain` |
| `interpretation` | 2 or 3 steps, graphs with cycles, diamonds, self-dependencies and unknown steps | `GraphIsDecided`, `PlannedIsValid`, `RoutingIsFaithful`, `WritesAreClarified` |
| `query_flow` | 3 requests, 2 tabs, 2 accounts, context of 3, 3 failures | `ConversationsArePrivate`, `RefusalsLeaveNothing`, `ContextTellsConversation` |
| `workspace_search` | 1 search, 3 services, 3 items, `TopK` 1 of 2 rows, 1 failure | `IndexedIsFound`, `FallbackIsReported` |
| `sign_in` | 2 sign-ins, a work of 2 agents and one of 1, 3 tokens | `CredentialsAgree`, `SessionsAreConnected`, `RefreshedOnce`, `AllServed` |

Each run but `sync_lock` and `workspace_sync_live` also checks the type invariant of its module (that of
the lock is proved). The run `interpretation` checks `PlanValidation`, so that a plan is accepted by the
search of the code and not by the definition of a valid graph.

In the run `approvals` the steps of the execution that await no approval take three of their eight
values (`OthersBound`); they never change, and the summary asks only whether one of them failed.

**Why the bounds are enough.** Three steps have every shape the executor tells apart: a chain (skips
that propagate), a fork, a join and an independent branch. Two requests cover both races of the
approval endpoints, for one row and for one execution, and the proofs cover any number. Three jobs let
one overlap with a second while a third tries; the expiry lies between two renewals with room for a
late one. Two versions are the least with which an index can go back; two files on pages of one the
least with which a page token matters, or with which two jobs can wait for each other's rows. Three requests are a holder, a waiter and a newcomer of a
flight. Three questions make six messages, more than the context of three; the code's limit is five. They
overlap in one conversation, once an answer has brought its id; a fourth, which would put the
unfinished question of one request under a newer exchange in the context of another, is beyond TLC,
and `ContextsTellConversations` is proved for any number.
Searches write nothing they share, so one is enough; its index has two messages of one thread and a
file of more chunks than the limit of rows. Two sign-ins race for one account; a work of two agents
shares a factory, and a second work meets it on the credentials row; three tokens let both a sign-in
and a refresh replace the first. In the synchronisation, the search and the query flow failures are
bounded (`MaxTroubles`, `MaxFaults`), and in `SignIn` the tokens Google issues (`MaxIssued`); in the
executor, the approvals and the lock nothing of the kind is.

**Fairness.** *Executor:* the event loop goes on, and an agent completes or fails, because its
sockets have timeouts; drafting again is not progress. *Approvals:* `WF` of each handler, for the
same reason and because PostgreSQL grants a released row lock, and of `Answer`, because a browser
that has received a reply shows it. Nothing is assumed of the network: a call may stay in flight for
ever, and `ExecuteRaises` is the timeout. *SyncLock:* time passes and a living event loop runs its
renewal. *WorkspaceSync:* Beat keeps enqueueing, workers keep working, and the bounded failures end.
*SignIn:* a callback and an agent that got what it waits for go on, Google answers or the client
times out, and a work ends its transaction; nobody has to press anything and no token has to expire.
Deadlock is checked where the system never stops (lock, sync, flight, query flow, search) and not
where a run of the model ends (executor, approvals, interpretation, sign-in).

### What the code does not keep

Two runs are expected to end in a violation; each checks one sentence of the repository's
documents, and `findings` in `PROJECT.json` quotes it.

* `write_at_most_once`. A write that reached Google is forgotten when its transaction rolls back (the
  run: Google's answer is lost after the effect, 502; a failing commit does the same); the approval is pending again and can be executed a
  second time. What does hold is `EffectsMatchRecords`: an effect is on record, in hand, or its
  client was told 5xx.
* `eventually_current`. `last_successful_sync` is the end of the attempt. In the run an attempt lists
  nothing, a message arrives, and the attempt completes; the message is older than the `after:` of
  every later attempt and is never listed. What holds is `ChangesStayListed`: an item that is not
  current matches the next listing, unless it changed without a date that listing tests, arrived
  during a completed attempt, or was cut off by the maximum.

Further disagreements met while modelling, which are in the model but have no run of their own:

* Two concurrent decisions on one execution: both approve requests select the steps (`Refresh`) before
  either commits, each sees the other step as `awaiting_approval` and stores that summary. With both
  committed, every approval is decided and `executions.status` says `awaiting_approval` for ever.
  No endpoint reads the column. `HonestCompletion` says the summary never errs towards `completed`.
* `draft_email` changes the mailbox without approval and survives a rollback (`AgentDrafts`), while
  README.md:18 says "Requires explicit approval before external writes".
* A proposal is stored with resolved arguments that nothing validated (`sound` in `Approvals`), while
  README.md:90 says "Validated, fully resolved proposed action is stored".
* A reject after an approve that was answered 502 records a rejection of something that was written;
  README.md:94-96 says "Reject" leads to "No Google API write".
* What changes without a new tested date (the labels of an older message, `normalization.py:49`; the
  parents of a file; an event moved out of the calendar's bounds) stays in the index as it was; this
  too is against README.md:198, and in `missed`. Of the calendar what holds is
  `FullListingCatchesUp`: an event that stays within the bounds gets current.
* Deleted items stay in the index (`Remove`), while README.md:198 calls it eventually consistent.
* Two jobs that overlap (a renewal failed) on a user without a sync_state row both insert it; the
  second raises outside the `try` of `sync_service` and the job ends (`Raise`), while
  docs/architecture.md:52 says a failure "does not prevent the remaining services from being
  attempted".
* The rows of a search are limited before its services are told apart (`search.py:156`), so one
  service may crowd out another that is indexed and fresh. `IndexedIsFound` excepts exactly this.
* A synchronisation that commits between `ReadChunks` and `ReadStates` makes an old result look fresh,
  while DESIGN.md:65 says "A stale index is reported honestly".
* Arguments of unexpected types make the rewriting raise `AttributeError` (`planner.py:191`) or
  `TypeError` (`planner.py:296`) before anything has validated them; no handler expects them, and the
  answer is a 500 (the place `"500"` of `Interpretation`), while DESIGN.md:95 says "Provider
  interpretation failures return a safe 502" and API.md:114 lists 400 and 502 for them.
* A card says "Approved and executed" also when the reply's status is `failed` (`ApprovalCard.tsx:40`);
  therefore `CardsAreHonest` lets "approved" stand for both outcomes.
* A plan that completed without any collection among its results is summarised as "The requested
  searches could not be completed." (`synthesis.py:174`); the wording is not in the model.
* A refresh that started from an older credentials row may replace the access token of a newer
  sign-in. It is harmless for `CredentialsAgree` (token and expiry are written together, the refresh
  token is not touched), but the stored scopes may then be newer than the token's grant.

## 4. The proofs

TLAPS checks the following for every value of the constants that their assumptions allow. Each module
proves an inductive invariant (initial states, one lemma per action or kind of action) and derives the
rest from it.

**ExecutorProofs**, for every set of steps: `TypeCorrect`, `SkipsAreJustified`, `AlwaysARunnableStep`,
`RunsOnExistingInputs`, `CompletionIsTotal`, `CommitIsWhole`, `GateHolds`, and
`ExecutorImplementsContract`. The properties speak of recorded results, but a result is decided in
`Scan` or by an agent and recorded later. `WaveInv`, `ProposalInv` and `InputInv` say of the wave what
the properties say of the results, and `PhaseInv` what each place of `execute()` has left.
`CauseInv` carries the argument behind `CompletionIsTotal`: the summary ignores skipped steps, but a
skipped step has a failed or pending one behind it. That a step is always ready follows from
acyclicity alone (`SomeStepIsReady`). The refinement maps `Record` to `Settle`, `Commit` to `Publish`,
an effect of an agent to `Apply` and every other action to a stutter.

**ApprovalsProofs**, for any approvals, requests and cards: `TypeCorrect`, `RecordsAlwaysAgree`,
`CompletionIsHonest`, `EffectsAlwaysMatchRecords`, `DecisionsAreFinal`,
`ProcessedApprovalsAreNotExecuted`. `LockInv` says that a handler inside its transaction holds its row
and that the row is pending, so nobody else can decide it. `SeenInv` is why an outdated snapshot does no
harm: steps only leave `awaiting_approval`, so a snapshot without failing or pending steps tells of
final ones. `RepeatsOnlyAfterErrors` and `RejectionsLeaveNothing` bound what the code does not keep
(section 3): an approval took effect twice, or took effect and was rejected, only if the client of such
an effect was answered 500 or 502. `CallInv`, `ResultInv` and `ReplyInv` connect an effect to the audit
row or to the 5xx its client got. Actions that change no row and no lock are treated together
(`QuietInv`). `CardsAreClients` shows that the composition is a behaviour of `Approvals`, so all of this
holds with the cards; `CardTypeCorrect` and `HonestCards` add what a card says, from the reply its
request got and from decisions being final.

**WorkspaceSyncProofs** begins with the lock, for any jobs and every TTL and lateness with
`LockAssumption`: `LockTypeCorrect`, `JobsExclude`, `ReleaseIsOwnerSafe`. Exclusion is not inductive;
`RenewersHold` adds that a job whose renewal task lives owns the key and that the key's remaining life
and the age of the renewal add up to the TTL. Since a renewal is never older than
`Interval + Lateness < TTL` (`IntervalFits`, by the code's `max(1, ttl // 3)`), the key cannot expire
under it. `LockAssumption` is what the code needs of the event loop and of the configured TTL.
`KeysAlwaysExpire` and `OrphanedKeysFade` are the safe half of the liveness property
`OrphanedLockExpires`: a key never is without an expiry of at most the TTL, and the expiry of a key
whose job is gone only decreases.

The rest is for any jobs, services and items and every page size and limit.
`ChangesAreNotForgotten` follows an attempt from its listing to its commit: `Sound` says that an item
that changed before the attempt is on the pages still to come, among those to fetch, in hand at its
version, or was cut off (`Exhausted`), and that one that changed since is outside the window's promise.
A change that its listing does not see goes to `missed` at once, and one that it does leaves it.
`ReadersSeeContract` is the refinement to `IndexContract`, and `RunsUnderLock` the one to `SyncLock`:
each action is an action of the lock or leaves it alone, so the lock's theorems hold here
(`JobsOverlapByDeadRenewal`). `IndexOnlyAdvances` needs both: while no renewal task has died,
`RenewersHold` makes the job at work the only one (`MInv`), and what a lone attempt has in hand is no
older than what the index holds.

**WorkspaceSearchProofs**, for any searches, items, kinds and limits: `TypeCorrect`,
`IndexedItemsAreFound`, `FallbackReportIsTrue`. What was indexed when a search began stays indexed
(`IndexContract`), so it is among the rows unless they were cut, and among the results unless its
thread or `TopK` others are (`SelectionCovers`, by finite cardinalities). `ResultsComeWithStates` says
what the two statements of a search can and cannot do to each other: the state read may be newer than
the rows (a listed hazard), but results from the index never come with the state of a service that has
not succeeded once. `SearchesOnlyRead` shows that the module adds nothing to its contract: what it does
to the index is a behaviour of `IndexContract`.

**EmbeddingFlightProofs**, for any requests and keys, every capacity of the cache and whatever Redis
holds: `TypeCorrect`, `ComputedOnce`, `FlightsAreInUse`. `Holders` says that only the head of a lock's
queue is past the lock. `Single` is the argument for one key: until it is cached, all who want it queue
for the lock that is registered, so whoever is past a lock is past that one, and once the model has
computed the key nobody is still looking. What removing an element from the middle of the queue or of
the cache leaves is proved from positions, without induction.

**QueryFlowProofs**, for any requests, tabs and accounts: `TypeCorrect`, `ConversationsStayPrivate`,
`RefusalsAreUndone`, `ContextsTellConversations`. `MessageInv` ties each message to the request that
wrote it, and a request to its account; the context argument (`RecentCovers`) is that a newest-first
cut leaves out an exchange only for newer messages, and that the transactions of an exchange the
browser has seen started before that of the question (`Later`), whichever other requests of the
conversation are under way.

**SignInProofs**, for any callbacks, works and tokens: `TypeCorrect`, `CredentialsBelongTogether`,
`SessionsHaveCredentials`, `RefreshesOnce`. `LockInv` says that only the work holding the row lock has
something written that is not committed, and that it is a token with its own expiry; `CallbackInv` what
each place of a callback has read, `BuildInv` that a build about to store has a token to store.
`RefreshesOnce` rests on `RefreshersHoldLock`: an agent that refreshes holds the `_credential_lock` of
its work, and the factory has no valid credentials, from before its request to Google until the flush.

**InterpretationProofs**, for any ids, services, drafts and queries: `TypeCorrect`,
`PlansAreExecutable`, `ClarificationHolds`, `RoutingFaithful`. The graph is validated before routing,
so `IInv` keeps its validity for the draft; `RouteIsValid` shows that routed and added searches, whose
reference is a dependency on an earlier calendar step and whose names are free, add no cycle and no
dangling reference. This is what `Executor` assumes in its `Init`. `RouteCovers` and `RouteKeepsWrites`
show that each service is searched once, and `RewrittenIsFaithful` that a write keeps its operation,
its dependencies and what it reads, except for what the query says of an event to create.
The search of `validate_graph` is proved too: `GraphDecided` says that it accepts exactly the valid
graphs. `Chain` says that the calls in progress are a path of dependencies, so meeting one of them again
is a cycle, and `FinishedClosed` that the finished steps are closed under dependency and acyclic whatever
the rest is. `ValidationImplements` shows that everything else holds with the search in the place of its
verdict, and `SearchEnds` that each call and return takes one step id further, twice at most.

**From one component to the next.** `PlansAreHandedOver` (in `InterpretationProofs`) says that a plan
the planner answers with is one that `Executor` may start from, whichever kinds its operations have;
`ApprovalsAreHandedOver` (in `ExecutorProofs`) that a committed execution with proposals leaves the
tables as `PendingRows` says, which is how `Approvals` starts. Together with `CardsAreClients`, what
each module assumes of its first state is what the module before it leaves.

Only model-checked, because liveness is out of reach of this prover: `Terminates`, `CardsSettle`,
`OrphanedLockExpires`, `RunningSettles`, `FullListingCatchesUp`, `AllServed`. Every other property
of a passing run is a theorem. No module declares a RECURSIVE operator: the recursion of
`validate_graph` is a machine, and of the one over references in nested arguments the model states the
result.

## 5. Not modelled

* Ciphers, cookies and the signature of a session id; the refresh google-auth makes inside a call,
  whose token is not stored.
* The scores of a search, and the threshold of relevance: any rows may be the best ones.
* Paths within the data of a step: a reference finds its value or not.
* The contents of prompts, messages, chunks and responses; what the client only displays.
* The schema and its migrations, configuration, health and readiness, the evaluation: they keep no
  state of the program.
* The values the rewriting puts into arguments; the dates of items, beyond which listings match them.
* Redis and PostgreSQL beyond what their commands promise; clock skew between machines.

## 6. Plan

Done, in the order of importance: executor and its contract, approvals and the cards, lock,
synchronisation and its contract, interpretation and the search of `validate_graph`, embedding flight,
query flow, search, sign-in; proofs of every safety property, of the refinements, and of the hand-overs
from the planner to the executor to the approvals.

Left: chunking against its bounds (it keeps no state); the response synthesis, compaction and date parsing
are pure and stay out.
