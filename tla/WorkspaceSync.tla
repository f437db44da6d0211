---------------------------- MODULE WorkspaceSync ----------------------------
(***************************************************************************)
(* The synchronisation of one user's Google data into the local index      *)
(* (src/app/sync/service.py, src/app/retrieval/indexer.py), run by the     *)
(* jobs of SyncLock.  The provider changes and deletes items at any time;  *)
(* a job visits the services in order, lists the items that match its      *)
(* time window page by page, fetches them one after the other into an open *)
(* transaction and commits it with the service's sync_state row.           *)
(*                                                                         *)
(* Timestamps are abstracted to what a listing can tell by them: "listed"  *)
(* holds the items whose tested date is after the last_successful_sync of  *)
(* their service (Gmail's after: tests the date of a message, the Drive    *)
(* query modifiedTime), and the events within the calendar's time bounds.  *)
(* Every attempt has the window its own reading of the clock and of that   *)
(* timestamp opens.  The contents of an item are its version number.       *)
(***************************************************************************)
EXTENDS SyncLock, FiniteSets, Sequences, Functions

CONSTANTS Services,     \* SYNC_SERVICES, in the order they are visited
          Incremental,  \* the services listed with a since filter; the others
                        \* within time bounds
          Edited,       \* the services where an edit may bring an item into the
                        \* listing; the date of a message never moves
          Items, ServiceOf,
          Reads,        \* what the indexed contents of an item are taken from
          PageSize,     \* items per page of a listing
          Limit,        \* sync_*_max_items; the calendar has none
          MaxVersion,   \* bounds of the model: changes of an item, and
          MaxTroubles   \* failures and deletions together

ASSUME SyncAssumption ==
    /\ Services \in Seq(Range(Services)) /\ Services # <<>>
    /\ Incremental \subseteq Range(Services) /\ Edited \subseteq Range(Services)
    /\ IsFiniteSet(Items) /\ ServiceOf \in [Items -> Range(Services)]
    /\ Reads \in [Items -> {{"page"}, {"fetch"}, {"page", "fetch"}}]
    /\ PageSize \in Nat \ {0} /\ Limit \in Nat \ {0}
    /\ MaxVersion \in Nat /\ MaxTroubles \in Nat

VARIABLES source,   \* the provider's version of each item, 0 before it exists
          gone,     \* the items the provider has deleted
          listed,   \* matches what the next listing tests
          index,    \* committed version of each workspace item, 0 if absent
          row,      \* sync_state: status, and whether a sync ever succeeded
          work,     \* the attempt of each job
          missed,   \* changed without matching the next listing, changed during
                    \* an attempt that completed, or cut off by a limit
          faults,   \* failures so far
          unrenewed \* whether a renewal of the lock has failed

Contract == INSTANCE IndexContract WITH Kinds <- Range(Services)

data == <<source, gone, listed, index, row, work, missed>>
vars == <<lock, ttl, pc, renewers, elapsed, data, faults, unrenewed>>

None == [i \in {} |-> 0]
At(n) == [at |-> n, step |-> "find", absent |-> FALSE, window |-> {},
          during |-> {}, page |-> None, more |-> TRUE, held |-> <<>>, got |-> None]
Idle == At(0)

Service(j) == Services[work[j].at]
Of(s) == {i \in Items : ServiceOf[i] = s}
Live == {i \in Items : source[i] > 0} \ gone

\* The jobs whose current attempt filters with a timestamp already read.
Attempting(s) ==
    {j \in Jobs : work[j].at > 0 /\ Service(j) = s /\ work[j].step # "find"}

Init ==
    /\ LockInit
    /\ source = [i \in Items |-> 0] /\ gone = {} /\ listed = {}
    /\ index = [i \in Items |-> 0]
    /\ row = [s \in Range(Services) |-> [status |-> "missing", success |-> FALSE]]
    /\ work = [j \in Jobs |-> Idle]
    /\ missed = {}
    /\ faults = 0 /\ unrenewed = FALSE

Bounded == faults + Cardinality(gone) < MaxTroubles
Fault == Bounded /\ faults' = faults + 1
Set(j, w) == work' = [work EXCEPT ![j] = w]

\* The status of the service; last_successful_sync moves with "completed", and
\* no date is after it yet.  A mutant forgets the timestamp.
MutSetRow(s, status) ==
    /\ row' = [row EXCEPT ![s] = [status |-> status, success |-> row[s].success]]
    /\ UNCHANGED listed
SetRow(s, status) ==
    /\ row' = [row EXCEPT ![s] =
                  [status |-> status,
                   success |-> status = "completed" \/ row[s].success]]
    /\ listed' = IF status = "completed" /\ s \in Incremental THEN listed \ Of(s)
                 ELSE listed

\* What matches a listing that begins now, and a mutant that asks only for the
\* events updated since the last success.
MutWindow(s) ==
    IF s \in Incremental /\ ~row[s].success THEN Of(s)
    ELSE (listed \ missed) \cap Of(s)
Window(s) ==
    IF s \in Incremental /\ ~row[s].success THEN Of(s) ELSE listed \cap Of(s)

-----------------------------------------------------------------------------
\* The provider.

\* The window of an attempt after a change: since is a lower bound only, so what
\* matches now joins and nothing leaves, but an event moved out of the bounds.
Noticed(w, i, match) ==
    LET out == ~match /\ ServiceOf[i] \notin Incremental
               /\ i \notin DOMAIN w.got \cup DOMAIN w.page
        window == IF match THEN w.window \cup {i}
                  ELSE IF out THEN w.window \ {i} ELSE w.window
    IN [w EXCEPT !.window = window, !.during = (@ \cup {i}) \cap window]

\* An item arrives, or its contents change.  Mail out of spam, a shared or moved
\* file and a new label leave the tested date where it is.
Change(i) ==
    LET s == ServiceOf[i] IN
    \E match \in BOOLEAN :
       /\ source[i] < MaxVersion /\ i \notin gone
       /\ match => source[i] = 0 \/ s \in Edited
       /\ source' = [source EXCEPT ![i] = @ + 1]
       /\ listed' = IF match THEN listed \cup {i}
                    ELSE IF s \in Incremental THEN listed ELSE listed \ {i}
       /\ missed' = IF match \/ (s \in Incremental /\ i \in Window(s)) THEN missed \ {i}
                    ELSE missed \cup {i}
       /\ work' = [j \in Jobs |-> IF j \in Attempting(s) THEN Noticed(work[j], i, match)
                                 ELSE work[j]]
       /\ UNCHANGED <<lock, ttl, pc, renewers, elapsed, gone, index, row, faults, unrenewed>>

\* Time goes by: an event enters the calendar's bounds or leaves them.
Drift(i) ==
    /\ i \in Live /\ ServiceOf[i] \notin Incremental
    /\ listed' = IF i \in listed THEN listed \ {i} ELSE listed \cup {i}
    /\ UNCHANGED <<lock, ttl, pc, renewers, elapsed, source, gone, index, row, work,
                   missed, faults, unrenewed>>

Remove(i) ==
    /\ i \in Live /\ Bounded
    /\ gone' = gone \cup {i}
    /\ UNCHANGED <<lock, ttl, pc, renewers, elapsed, source, listed, index, row,
                   work, missed, faults, unrenewed>>

-----------------------------------------------------------------------------
\* sync_service: the sync_state row, then the attempt.

Find(j) ==
    LET s == Service(j) IN
    /\ work[j].at > 0 /\ work[j].step = "find"
    /\ Set(j, [work[j] EXCEPT
          !.step = "open", !.absent = row[s].status = "missing",
          !.window = Window(s)])
    /\ UNCHANGED <<lock, ttl, pc, renewers, elapsed, source, gone, listed,
                   index, row, missed, faults, unrenewed>>

Open(j) ==
    LET s == Service(j) IN
    /\ work[j].step = "open"
    /\ work[j].absent => row[s].status = "missing"
    /\ SetRow(s, "running")
    /\ Set(j, [work[j] EXCEPT !.step = "list"])
    /\ UNCHANGED <<lock, ttl, pc, renewers, elapsed, source, gone, index,
                   missed, faults, unrenewed>>

Counted(w) == DOMAIN w.got
Room(w) == IF Services[w.at] \in Incremental THEN Limit - Cardinality(Counted(w))
           ELSE Cardinality(Items)

\* One page of the matching items not listed before; a token if some remain.
List(j) ==
    LET w == work[j]
        matching == (w.window \cap Live) \ Counted(w)
    IN
    /\ w.step = "list"
    /\ \E P \in SUBSET matching :
         /\ Cardinality(P) <= PageSize /\ Cardinality(P) <= Room(w)
         /\ P = {} => matching = {}
         /\ Set(j, [w EXCEPT
               !.page = [i \in P |-> source[i]], !.more = P # matching,
               !.step = IF P = {} THEN "close" ELSE "items"])
    /\ UNCHANGED <<lock, ttl, pc, renewers, elapsed, source, gone, listed,
                   index, row, missed, faults, unrenewed>>

\* An event or a file without text is indexed from the page, a message from its
\* fetch, a text document from both.
Get(j, i) ==
    LET w == work[j] IN
    /\ w.step = "items" /\ w.held = <<>> /\ i \in DOMAIN w.page
    /\ "fetch" \in Reads[i] => i \notin gone
    /\ \E r \in Reads[i] :
         Set(j, [w EXCEPT !.held = <<i, IF r = "page" THEN w.page[i] ELSE source[i]>>])
    /\ UNCHANGED <<lock, ttl, pc, renewers, elapsed, source, gone, listed,
                   index, row, missed, faults, unrenewed>>

\* index_item: the upsert waits for the row lock of any other transaction.
Locked(i, j) == \E k \in Jobs \ {j} : i \in DOMAIN work[k].got

\* After an item: the rest of the page, the next page, or the end; and a
\* mutant that ignores nextPageToken.
MutNextStep(w) ==
    IF Room(w) = 0 \/ DOMAIN w.page = {} THEN "close" ELSE "items"
NextStep(w) ==
    IF Room(w) = 0 THEN "close"
    ELSE IF DOMAIN w.page # {} THEN "items"
    ELSE IF w.more THEN "list" ELSE "close"

Upsert(j) ==
    LET w == work[j] IN
    /\ w.held # <<>> /\ ~Locked(w.held[1], j)
    /\ LET i == w.held[1]
           u == [w EXCEPT !.held = <<>>,
                          !.page = Restrict(@, DOMAIN @ \ {i}),
                          !.got = [k \in DOMAIN @ \cup {i} |->
                                      IF k = i THEN w.held[2] ELSE @[k]]]
       IN Set(j, [u EXCEPT !.step = NextStep(u)])
    /\ UNCHANGED <<lock, ttl, pc, renewers, elapsed, source, gone, listed,
                   index, row, missed, faults, unrenewed>>

\* sync_user goes on with the next service; after the last one the job ends.
Advance(j) ==
    IF work[j].at < Len(Services)
    THEN Set(j, At(work[j].at + 1)) /\ UNCHANGED <<lock, ttl, pc, renewers, elapsed>>
    ELSE Set(j, Idle) /\ Finish(j)

CutOff(w) == IF Room(w) = 0 THEN w.window \ Counted(w) ELSE {}

Complete(j) ==
    LET w == work[j]
        s == Service(j)
    IN
    /\ w.step = "close"
    /\ index' = [i \in Items |-> IF i \in DOMAIN w.got THEN w.got[i] ELSE index[i]]
    /\ SetRow(s, "completed")
    /\ missed' = missed \cup w.during \cup CutOff(w)
    /\ Advance(j)
    /\ UNCHANGED <<source, gone, faults, unrenewed>>

\* Any exception of the attempt: roll back, record it, go on.
ServiceFails(j) ==
    LET s == Service(j) IN
    /\ work[j].step \in {"list", "items", "close"}
    /\ \/ Fault
       \/ /\ UNCHANGED faults
          /\ work[j].held = <<>>
          /\ \E i \in DOMAIN work[j].page \cap gone :   \* the fetch answers 404
                "fetch" \in Reads[i]
       \/ /\ UNCHANGED faults                     \* the database breaks a cycle
          /\ \E k \in Jobs \ {j} :
                /\ work[j].held # <<>> /\ work[j].held[1] \in DOMAIN work[k].got
                /\ work[k].held # <<>> /\ work[k].held[1] \in DOMAIN work[j].got
    /\ SetRow(s, "failed")
    /\ Advance(j)
    /\ UNCHANGED <<source, gone, index, missed, unrenewed>>

\* An exception outside sync_service's try: the row of another job appeared
\* since Find, or the database is unreachable.
Raise(j) ==
    /\ work[j].at > 0
    /\ IF work[j].step = "open" /\ work[j].absent
          /\ row[Service(j)].status # "missing"
       THEN UNCHANGED faults ELSE Fault
    /\ Set(j, Idle) /\ Finish(j)
    /\ UNCHANGED <<source, gone, listed, index, row, missed, unrenewed>>

-----------------------------------------------------------------------------
\* The life of a job (SyncLock), with the attempt it carries.

Start(j) == Acquire(j) /\ Set(j, At(1))
            /\ UNCHANGED <<source, gone, listed, index, row, missed, faults, unrenewed>>
Crash(j) == Die(j) /\ Fault /\ Set(j, Idle)
            /\ UNCHANGED <<source, gone, listed, index, row, missed, unrenewed>>
Quiet(j) == (Deliver(j) \/ Skip(j) \/ Renew(j) \/ Release(j))
            /\ UNCHANGED <<data, faults, unrenewed>>
RedisFails(j) ==
    /\ \/ RenewFails(j) /\ unrenewed' = TRUE
       \/ (Unanswered(j) \/ ReleaseFails(j)) /\ UNCHANGED unrenewed
    /\ Fault /\ UNCHANGED data
Tick == Elapse /\ UNCHANGED <<data, faults, unrenewed>>

Attempt(j) == \/ Find(j) \/ Open(j) \/ List(j) \/ (\E i \in Items : Get(j, i))
              \/ Upsert(j) \/ Complete(j) \/ ServiceFails(j) \/ Raise(j)

Next ==
    \/ \E i \in Items : Change(i) \/ Drift(i) \/ Remove(i)
    \/ \E j \in Jobs : Start(j) \/ Crash(j) \/ Quiet(j) \/ RedisFails(j) \/ Attempt(j)
    \/ Tick

Spec == Init /\ [][Next]_vars

\* Beat keeps enqueueing, workers keep working, time passes, and of the
\* failures only MaxTroubles happen.
FairSpec ==
    /\ Spec /\ WF_vars(Tick)
    /\ \A j \in Jobs : WF_vars(Quiet(j)) /\ WF_vars(Start(j)) /\ WF_vars(Attempt(j))

-----------------------------------------------------------------------------
Versions == UNION {[S -> 1 .. MaxVersion] : S \in SUBSET Items}
Row == [status : {"missing", "running", "completed", "failed"}, success : BOOLEAN]
Work == [at : 0 .. Len(Services), step : {"find", "open", "list", "items", "close"},
         absent : BOOLEAN, window : SUBSET Items, during : SUBSET Items,
         page : Versions, more : BOOLEAN,
         held : {<<>>} \cup (Items \X (1 .. MaxVersion)), got : Versions]

TypeOK ==
    /\ source \in [Items -> 0 .. MaxVersion] /\ index \in [Items -> 0 .. MaxVersion]
    /\ gone \subseteq Items /\ listed \subseteq Items /\ missed \subseteq Items
    /\ pc \in [Jobs -> Places] /\ work \in [Jobs -> Work]
    /\ row \in [Range(Services) -> Row]
    /\ \A s \in Range(Services) :
          /\ row[s].success => row[s].status # "missing"
          /\ row[s].status = "completed" => row[s].success
    /\ \A j \in Jobs :
          /\ work[j].at > 0 <=> pc[j] = "syncing"
          /\ work[j].during \cup Counted(work[j]) \cup DOMAIN work[j].page
                \subseteq work[j].window
          /\ work[j].held # <<>> => work[j].held[1] \in DOMAIN work[j].page
    /\ faults \in 0 .. MaxTroubles /\ unrenewed \in BOOLEAN

(***************************************************************************)
(* Whatever fails, crashes or overlaps, an item whose index entry is not   *)
(* current is listed by the next attempt, because last_successful_sync     *)
(* moves only with the commit that indexed the window, or it is one of     *)
(* those the listings themselves leave out, which "missed" records: it     *)
(* changed while its tested date stayed before last_successful_sync, it    *)
(* changed during an attempt that completed, or a limit cut it off.        *)
(***************************************************************************)
ChangesStayListed ==
    \A i \in Live :
        \/ index[i] = source[i]
        \/ ServiceOf[i] \in Incremental /\ row[ServiceOf[i]].success
              => i \in listed \cup missed

(***************************************************************************)
(* As long as no renewal of the lock has failed, an item of the index      *)
(* never goes back to an older version: index_item upserts without         *)
(* comparing versions and relies on the lock for it.                       *)
(***************************************************************************)
IndexNeverRegresses ==
    [][~unrenewed' => \A i \in Items : index'[i] >= index[i]]_vars

(***************************************************************************)
(* Readers of the index see what IndexContract says, whatever jobs fail,   *)
(* crash or overlap: the rows of an attempt and its "completed" in one     *)
(* step, and nothing that was indexed gone.                                *)
(***************************************************************************)
KeepsContract == Contract!Spec

(***************************************************************************)
(* A service does not stay "running" forever, even when the worker that    *)
(* said so died: the lock expires and the next job visits it again.        *)
(***************************************************************************)
RunningSettles ==
    \A s \in Range(Services) : row[s].status = "running" ~> row[s].status # "running"

(***************************************************************************)
(* The calendar is asked for everything within its time bounds every time, *)
(* and not for what is new: the index catches up with every event that     *)
(* stops changing and stays within the bounds, whatever was missed.        *)
(***************************************************************************)
FullListingCatchesUp ==
    \A i \in Items :
        ServiceOf[i] \notin Incremental =>
            (<>[](i \in listed) => <>[](i \in Live => index[i] = source[i]))

(***************************************************************************)
(* README.md:198, "The local semantic index is eventually consistent":     *)
(* once the provider stops changing, the index catches up with every item. *)
(***************************************************************************)
EventuallyCurrent ==
    \A i \in Items : <>[](i \in Live => index[i] = source[i])
=============================================================================
