--------------------------- MODULE WorkspaceSearch ---------------------------
(***************************************************************************)
(* The workspace agent (src/app/agents/workspace.py) over the hybrid       *)
(* search (src/app/retrieval/search.py): searches read the index and then  *)
(* the sync_state of the services they cover, each in a statement of its   *)
(* own, judge how fresh the index is (src/app/retrieval/freshness.py), and *)
(* ask Gmail or Drive themselves when it is stale and nothing was found.   *)
(* The synchronisation goes on meanwhile, as IndexContract says.           *)
(*                                                                         *)
(* A search takes the best rows of the index, a limited number of chunks,  *)
(* and selects from their items (src/app/retrieval/relevance.py).  Scores  *)
(* are left open: any rows may be the best, and the relevant items are     *)
(* those that pass the threshold when one of their chunks is among them.   *)
(* Ages are counted in ticks, cut off above StaleAfter.  The embedding of  *)
(* the query is EmbeddingFlight's.                                         *)
(***************************************************************************)
EXTENDS Integers, FiniteSets

CONSTANTS Searches, None,
          Kinds,       \* the three services
          Native,      \* those with an agent for the fallback
          Items, ServiceOf, MaxVersion,
          Relevant,    \* the items that pass the relevance threshold
          ChunksOf,    \* the number of chunks of an item
          ThreadOf,    \* what a result stands for: a message's thread, or itself
          TopK,        \* top_k, and how many rows are read for each of them
          Oversample,
          StaleAfter,  \* index_stale_after_minutes
          MaxFaults    \* bound of the model

ASSUME SearchAssumption ==
    /\ Native \subseteq Kinds /\ ServiceOf \in [Items -> Kinds]
    /\ None \notin Kinds /\ IsFiniteSet(Items) /\ Relevant \subseteq Items
    /\ ChunksOf \in [Items -> Nat \ {0}] /\ ThreadOf \in [Items -> Items]
    /\ TopK \in Nat \ {0} /\ Oversample \in Nat \ {0}
    /\ StaleAfter \in Nat /\ MaxFaults \in Nat /\ MaxVersion \in Nat \ {0}

VARIABLES index, row,  \* see IndexContract
          age,         \* ticks since last_successful_sync
          search, faults

vars == <<index, row, age, search, faults>>

Contract == INSTANCE IndexContract

Idle == [place |-> "idle", services |-> {}, known |-> {},
         found |-> {}, cut |-> FALSE, fresh |-> {}, todo |-> {}, failed |-> {},
         performed |-> FALSE, error |-> None]

Init ==
    /\ Contract!Init
    /\ age = [s \in Kinds |-> 0]
    /\ search = [r \in Searches |-> Idle] /\ faults = 0

Fault == faults < MaxFaults /\ faults' = faults + 1
Set(r, w) == search' = [search EXCEPT ![r] = w]

-----------------------------------------------------------------------------
\* The environment: the synchronisation and the clock.

Sync(s) ==
    /\ \/ (Contract!Begin(s) \/ Contract!FailSync(s)) /\ UNCHANGED age
       \/ Contract!Finish(s) /\ age' = [age EXCEPT ![s] = 0]
    /\ UNCHANGED <<search, faults>>

Tick ==
    /\ age' = [s \in Kinds |-> IF age[s] > StaleAfter THEN age[s] ELSE age[s] + 1]
    /\ UNCHANGED <<index, row, search, faults>>

-----------------------------------------------------------------------------
\* A search.

\* "services" is a list, or {} for none given: then all are covered.
Scope(w) == IF w.services = {} THEN Kinds ELSE w.services
Indexed(S) == {i \in Items : index[i] > 0 /\ ServiceOf[i] \in S}

\* evaluate_service_freshness.
Fresh(s) == row[s].status = "completed" /\ age[s] <= StaleAfter

\* The services whose agents a stale, empty search asks: of those it was
\* given, not of those it covers.
Asked(w) == w.services \cap Native

\* "known" are the relevant items indexed when the search began.
Ask(r, S) ==
    /\ search[r].place = "idle"
    /\ Set(r, [Idle EXCEPT !.place = "embedding", !.services = S,
                           !.known = Relevant \cap
                               Indexed(Scope([Idle EXCEPT !.services = S]))])
    /\ UNCHANGED <<index, row, age, faults>>

\* The rows of the join: one for each chunk.
RowLimit == TopK * Oversample
Rows(S) == UNION {{i} \X (1 .. ChunksOf[i]) : i \in S}
IsCut(S) == Cardinality(Rows(S)) > RowLimit

\* The items of the best rows, all of them or as many as the limit.
Best(S) ==
    {T \in SUBSET Rows(S) :
        Cardinality(T) = IF IsCut(S) THEN RowLimit ELSE Cardinality(Rows(S))}
Hits(S) == {{c[1] : c \in T} : T \in Best(S)}

\* select_relevant_candidates: of each thread the best, and TopK in all.
Threads(S) == {ThreadOf[i] : i \in S}
Selections(S) ==
    {R \in SUBSET S :
        /\ Cardinality(R) = Cardinality(Threads(R))
        /\ Cardinality(R) <= TopK
        /\ Cardinality(R) < TopK => Threads(R) = Threads(S)}

\* The rows, and what search makes of them once it has the states as well.
ReadChunks(r) ==
    LET S == Indexed(Scope(search[r])) IN
    /\ search[r].place = "embedding"
    /\ \E H \in Hits(S) : \E R \in Selections(H \cap Relevant) :
          Set(r, [search[r] EXCEPT !.place = "chunks", !.found = R,
                                   !.cut = IsCut(S)])
    /\ UNCHANGED <<index, row, age, faults>>

\* The states, read after the chunks, and at once what the agent makes of them.
ReadStates(r) ==
    LET w == search[r]
        fresh == {s \in Scope(w) : Fresh(s)}
        stale == fresh # Scope(w)
    IN
    /\ w.place = "chunks"
    /\ Set(r, [w EXCEPT !.place = "judged", !.fresh = fresh,
                        !.todo = IF stale /\ w.found = {} THEN Asked(w) ELSE {}])
    /\ UNCHANGED <<index, row, age, faults>>

\* One service of the fallback, which finds what it finds; a failure is
\* remembered and the loop goes on.  Mutants: a failure that counts as
\* performed, and one that does not end the loop's turn.
Answers(w, s, R) ==
    [w EXCEPT !.todo = @ \ {s}, !.performed = TRUE, !.found = @ \cup R]
MutRefuses(w, s) ==
    [w EXCEPT !.todo = @ \ {s}, !.failed = @ \cup {s}, !.error = s, !.performed = TRUE]
MutRefusesAgain(w, s) == [w EXCEPT !.failed = @ \cup {s}, !.error = s]
Refuses(w, s) ==
    [w EXCEPT !.todo = @ \ {s}, !.failed = @ \cup {s}, !.error = s]

Fallback(r, s) ==
    /\ search[r].place = "judged" /\ s \in search[r].todo
    /\ \/ \E R \in SUBSET {i \in Items : ServiceOf[i] = s} :
             Set(r, Answers(search[r], s, R)) /\ UNCHANGED faults
       \/ Set(r, Refuses(search[r], s)) /\ Fault
    /\ UNCHANGED <<index, row, age>>

Return(r) ==
    /\ search[r].place = "judged" /\ search[r].todo = {}
    /\ Set(r, [search[r] EXCEPT !.place = "completed"])
    /\ UNCHANGED <<index, row, age, faults>>

\* An exception of the embedding, of the database or, of a kind safely_execute
\* lets through, of an agent of the fallback: the step fails, and what was
\* found is lost with it.
SearchFails(r) ==
    /\ search[r].place \in {"embedding", "chunks"} \/ search[r].todo # {}
    /\ Fault
    /\ Set(r, [Idle EXCEPT !.place = "failed"])
    /\ UNCHANGED <<index, row, age>>

Work(r) == ReadChunks(r) \/ ReadStates(r) \/ Return(r)
           \/ \E s \in Native : Fallback(r, s)

Next ==
    \/ \E s \in Kinds : Sync(s)
    \/ Tick
    \/ \E r \in Searches :
          (\E S \in SUBSET Kinds : Ask(r, S)) \/ Work(r) \/ SearchFails(r)

Spec == Init /\ [][Next]_vars

-----------------------------------------------------------------------------
Places == {"idle", "embedding", "chunks", "judged", "completed", "failed"}

Searching ==
    [place : Places, services : SUBSET Kinds, known : SUBSET Items,
     found : SUBSET Items, cut : BOOLEAN, fresh : SUBSET Kinds, todo : SUBSET Kinds,
     failed : SUBSET Kinds, performed : BOOLEAN, error : Kinds \cup {None}]
Statuses == {"missing", "running", "completed", "failed"}

TypeOK ==
    /\ index \in [Items -> 0 .. MaxVersion]
    /\ row \in [Kinds -> [status : Statuses, success : BOOLEAN]]
    /\ age \in [Kinds -> 0 .. StaleAfter + 1]
    /\ search \in [Searches -> Searching]
    /\ \A r \in Searches :
          LET w == search[r] IN
          /\ w.fresh \subseteq Scope(w)
          /\ w.todo \subseteq Asked(w) /\ w.failed \subseteq Asked(w) \ w.todo
    /\ faults \in 0 .. MaxFaults

(***************************************************************************)
(* A relevant item that was indexed when a search began is among its       *)
(* results, whatever attempts of the synchronisation begin, fail or finish *)
(* meanwhile, unless a message of its thread is, TopK others are, or more  *)
(* chunks were indexed than the statement reads: a few long documents may  *)
(* then leave no row for it.                                               *)
(***************************************************************************)
IndexedIsFound ==
    \A r \in Searches :
        LET w == search[r] IN
        w.place \in {"chunks", "judged", "completed"} =>
            \A i \in w.known :
                \/ ThreadOf[i] \in Threads(w.found)
                \/ Cardinality(w.found \cap Relevant) >= TopK
                \/ w.cut

(***************************************************************************)
(* DESIGN.md:65, "native_fallback_performed is true only when that Google  *)
(* API call actually ran": it is true exactly when a service that was      *)
(* asked answered, and an error is reported exactly when one that was      *)
(* asked failed, although the loop goes on after either.                   *)
(***************************************************************************)
FallbackIsReported ==
    \A r \in Searches :
        LET w == search[r] IN
        w.place = "completed" =>
            /\ (w.error # None) = (w.failed # {})
            /\ w.performed => /\ w.fresh # Scope(w)
                              /\ Asked(w) \ w.failed # {}
            /\ ~w.performed => Asked(w) = w.failed \/ w.found # {} \/ w.fresh = Scope(w)
=============================================================================
