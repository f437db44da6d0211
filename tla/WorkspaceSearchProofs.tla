------------------------ MODULE WorkspaceSearchProofs ------------------------
(***************************************************************************)
(* What WorkspaceSearch checks on a small instance, proved for any items,  *)
(* chunks, threads, services and searches.                                 *)
(***************************************************************************)
EXTENDS WorkspaceSearch, FiniteSetTheorems, TLAPS

\* What a search knew is still indexed: IndexContract lets nothing disappear.
Remembers(w) == w.known \subseteq Relevant \cap Indexed(Scope(w))

\* IndexedIsFound, of one search.
Covers(w) ==
    w.place \in {"chunks", "judged", "completed"} =>
        \A i \in w.known :
            \/ ThreadOf[i] \in Threads(w.found)
            \/ Cardinality(w.found \cap Relevant) >= TopK
            \/ w.cut

\* What the fallback has left to ask, and what it will report.
Reports(w) ==
    /\ (w.error # None) = (w.failed # {})
    /\ w.place \notin {"judged", "completed"} =>
          w.todo = {} /\ w.failed = {} /\ ~ w.performed
    /\ w.place = "completed" => w.todo = {}
    /\ w.todo # {} => w.fresh # Scope(w)
    /\ w.performed => /\ w.fresh # Scope(w)
                      /\ Asked(w) \ (w.failed \cup w.todo) # {}
    /\ ~ w.performed /\ w.place \in {"judged", "completed"} =>
          \/ Asked(w) = w.failed \cup w.todo
          \/ w.found # {} \/ w.fresh = Scope(w)

Asks(w) ==
    /\ w.fresh \subseteq Scope(w)
    /\ w.todo \subseteq Asked(w) /\ w.failed \subseteq Asked(w) \ w.todo

Good(w) == w \in Searching /\ Remembers(w) /\ Covers(w) /\ Reports(w) /\ Asks(w)

IInv ==
    /\ index \in [Items -> 0 .. MaxVersion]
    /\ row \in [Kinds -> [status : Statuses, success : BOOLEAN]]
    /\ age \in [Kinds -> 0 .. StaleAfter + 1]
    /\ faults \in 0 .. MaxFaults
    /\ search \in [Searches -> Searching]
    /\ \A r \in Searches : Good(search[r])

LEMMA Consequences == IInv => TypeOK /\ IndexedIsFound /\ FallbackIsReported
<1> SUFFICES ASSUME IInv PROVE TypeOK /\ IndexedIsFound /\ FallbackIsReported
    OBVIOUS
<1>1. TypeOK
    BY DEF IInv, Good, Asks, TypeOK
<1>2. IndexedIsFound
    BY DEF IInv, Good, Covers, IndexedIsFound
<1>3. FallbackIsReported
    BY DEF IInv, Good, Reports, FallbackIsReported
<1> QED BY <1>1, <1>2, <1>3

-----------------------------------------------------------------------------
\* Rows.

LEMMA RowsAreFinite ==
    ASSUME NEW S, S \subseteq Items PROVE IsFiniteSet(Rows(S))
<1> DEFINE chunks == [i \in S |-> {i} \X (1 .. ChunksOf[i])]
           family == {chunks[i] : i \in S}
<1>1. IsFiniteSet(S)
    BY SearchAssumption, FS_Subset
<1>2. IsFiniteSet(family)
  <2>1. chunks \in [S -> family]
      OBVIOUS
  <2>2. \A t \in family : \E i \in S : chunks[i] = t
      OBVIOUS
  <2>3. chunks \in Surjection(S, family)
    <3> HIDE DEF chunks, family
    <3> QED BY <2>1, <2>2 DEF Surjection
  <2> QED BY <1>1, <2>3, FS_Surjection
<1>3. ASSUME NEW i \in S PROVE IsFiniteSet(chunks[i])
  <2>1. IsFiniteSet({i})
      BY FS_Singleton
  <2>2. ChunksOf[i] \in Nat
      BY SearchAssumption
  <2>3. IsFiniteSet(1 .. ChunksOf[i])
      BY <2>2, FS_Interval
  <2> QED BY <2>1, <2>3, FS_Product
<1>4. IsFiniteSet(UNION family)
    BY <1>2, <1>3, FS_UNION
<1>5. Rows(S) = UNION family
    BY DEF Rows
<1> QED BY <1>4, <1>5

\* Every item has a chunk: what no limit cuts off is hit.
LEMMA NothingCutIsHit ==
    ASSUME NEW S, S \subseteq Items, ~ IsCut(S), NEW H \in Hits(S) PROVE H = S
<1>1. PICK T \in Best(S) : H = {c[1] : c \in T}
    BY DEF Hits
<1>2. T = Rows(S)
    BY <1>1, RowsAreFinite, FS_Subset DEF Best
<1>3. ASSUME NEW i \in S PROVE i \in H
  <2>1. <<i, 1>> \in Rows(S)
      BY SearchAssumption DEF Rows
  <2> QED BY <1>1, <1>2, <2>1
<1>4. H \subseteq S
    BY <1>1, <1>2 DEF Rows
<1> QED BY <1>3, <1>4

LEMMA HitsAreItems ==
    ASSUME NEW S, NEW H \in Hits(S) PROVE H \subseteq S
<1>1. PICK T \in Best(S) : H = {c[1] : c \in T}
    BY DEF Hits
<1>2. \A c \in Rows(S) : c[1] \in S
    BY DEF Rows
<1> QED BY <1>1, <1>2 DEF Best

-----------------------------------------------------------------------------
\* A relevant item that was there is accounted for by what the rows leave.
LEMMA SelectionCovers ==
    ASSUME NEW S, S \subseteq Items, NEW H \in Hits(S),
           NEW R \in Selections(H \cap Relevant), NEW i \in Relevant \cap S
    PROVE  \/ ThreadOf[i] \in Threads(R)
           \/ Cardinality(R \cap Relevant) >= TopK
           \/ IsCut(S)
<1>1. H \subseteq Items /\ R \subseteq H \cap Relevant
    BY HitsAreItems DEF Selections
<1>2. R \cap Relevant = R /\ IsFiniteSet(R)
    BY <1>1, SearchAssumption, FS_Subset
<1>3. Cardinality(R) \in Nat /\ TopK \in Nat
    BY <1>2, SearchAssumption, FS_CardinalityType
<1>4. CASE ~ IsCut(S) /\ Cardinality(R) < TopK
  <2>1. Threads(R) = Threads(H \cap Relevant)
      BY <1>4 DEF Selections
  <2>2. H = S
      BY <1>4, NothingCutIsHit
  <2> QED BY <2>1, <2>2 DEF Threads
<1> QED BY <1>2, <1>3, <1>4

LEMMA IdleIsGood == Good(Idle)
<1>1. Idle \in Searching
    BY DEF Idle, Searching, Places
<1>2. Remembers(Idle) /\ Covers(Idle) /\ Reports(Idle) /\ Asks(Idle)
    BY DEF Idle, Remembers, Covers, Reports, Asks
<1> QED BY <1>1, <1>2 DEF Good

LEMMA InitInv == Init => IInv
<1> SUFFICES ASSUME Init PROVE IInv
    OBVIOUS
<1>1. /\ index \in [Items -> 0 .. MaxVersion] /\ age \in [Kinds -> 0 .. StaleAfter + 1]
      /\ faults \in 0 .. MaxFaults
    BY SearchAssumption DEF Init, Contract!Init
<1>2. row \in [Kinds -> [status : Statuses, success : BOOLEAN]]
    BY DEF Init, Contract!Init, Statuses
<1>3. search \in [Searches -> Searching] /\ \A r \in Searches : Good(search[r])
    BY IdleIsGood DEF Init, Good
<1> QED BY <1>1, <1>2, <1>3 DEF IInv

\* The synchronisation only adds to the index; the clock does not touch it.
LEMMA EnvironmentInv ==
    ASSUME IInv, (\E s \in Kinds : Sync(s)) \/ Tick PROVE IInv'
<1> USE DEF IInv
<1>1. UNCHANGED <<search, faults>>
    BY DEF Sync, Tick
<1>2. /\ index' \in [Items -> 0 .. MaxVersion]
      /\ \A i \in Items : index[i] > 0 => index'[i] > 0
    BY DEF Sync, Tick, Contract!Begin, Contract!Finish, Contract!FailSync
<1>3. row' \in [Kinds -> [status : Statuses, success : BOOLEAN]]
  <2>1. CASE Tick
      BY <2>1 DEF Tick
  <2>2. ASSUME NEW s \in Kinds, Sync(s)
        PROVE  row' \in [Kinds -> [status : Statuses, success : BOOLEAN]]
    <3>1. CASE Contract!Begin(s)
        BY <3>1 DEF Contract!Begin, Statuses
    <3>2. CASE Contract!Finish(s)
        BY <3>2 DEF Contract!Finish, Statuses
    <3>3. CASE Contract!FailSync(s)
        BY <3>3 DEF Contract!FailSync, Statuses
    <3> QED BY <2>2, <3>1, <3>2, <3>3 DEF Sync
  <2> QED BY <2>1, <2>2
<1>4. age' \in [Kinds -> 0 .. StaleAfter + 1]
    BY SearchAssumption DEF Sync, Tick
<1>5. ASSUME NEW r \in Searches PROVE Good(search[r])'
  <2>1. Remembers(search[r])'
      BY <1>1, <1>2 DEF Good, Remembers, Indexed, Scope
  <2>2. (Covers(search[r]) /\ Reports(search[r]) /\ Asks(search[r]))'
      BY <1>1 DEF Good, Covers, Reports, Asks, Scope, Asked, Threads
  <2> QED BY <1>1, <2>1, <2>2 DEF Good
<1> QED BY <1>1, <1>2, <1>3, <1>4, <1>5

-----------------------------------------------------------------------------
\* A step of a search, which changes nothing else.
LEMMA StepInv ==
    ASSUME IInv, UNCHANGED <<index, row, age>>, faults' \in 0 .. MaxFaults,
           NEW r \in Searches, NEW w, Good(w), Set(r, w)
    PROVE  IInv'
<1>1. search' \in [Searches -> Searching]
    BY DEF IInv, Good, Set
<1>2. ASSUME NEW q \in Searches PROVE Good(search'[q])
    BY DEF IInv, Set
<1> QED BY <1>1, <1>2 DEF IInv, Good, Remembers, Covers, Reports, Asks, Indexed,
                          Scope, Asked, Threads

LEMMA AskInv ==
    ASSUME IInv, NEW r \in Searches, NEW S \in SUBSET Kinds, Ask(r, S) PROVE IInv'
<1> DEFINE w == [Idle EXCEPT !.place = "embedding", !.services = S,
                             !.known = Relevant \cap
                                 Indexed(Scope([Idle EXCEPT !.services = S]))]
<1>1. w \in Searching
    BY SearchAssumption DEF Idle, Searching, Places, Indexed
<1>2. Scope(w) = Scope([Idle EXCEPT !.services = S])
    BY DEF Scope, Idle
<1>3. Good(w)
    BY <1>1, <1>2 DEF Good, Remembers, Covers, Reports, Asks, Idle
<1>4. Set(r, w) /\ UNCHANGED <<index, row, age, faults>>
    BY DEF Ask
<1> HIDE DEF w
<1> QED BY <1>3, <1>4, StepInv DEF IInv

LEMMA ReadChunksInv ==
    ASSUME IInv, NEW r \in Searches, ReadChunks(r) PROVE IInv'
<1> DEFINE S == Indexed(Scope(search[r]))
<1>1. PICK H \in Hits(S) : \E R \in Selections(H \cap Relevant) :
          Set(r, [search[r] EXCEPT !.place = "chunks", !.found = R, !.cut = IsCut(S)])
    BY DEF ReadChunks
<1>2. PICK R \in Selections(H \cap Relevant) :
          Set(r, [search[r] EXCEPT !.place = "chunks", !.found = R, !.cut = IsCut(S)])
    BY <1>1
<1> DEFINE w == [search[r] EXCEPT !.place = "chunks", !.found = R, !.cut = IsCut(S)]
<1>3. S \subseteq Items /\ R \subseteq Items
    BY HitsAreItems DEF Indexed, Selections
<1>4. /\ Good(search[r]) /\ search[r] \in Searching /\ search[r].place = "embedding"
      /\ UNCHANGED <<index, row, age, faults>>
    BY DEF IInv, Good, ReadChunks
<1>5. /\ w \in Searching /\ w.place = "chunks" /\ w.found = R /\ w.cut = IsCut(S)
      /\ Scope(w) = Scope(search[r]) /\ Asked(w) = Asked(search[r])
      /\ w.known = search[r].known /\ w.fresh = search[r].fresh
      /\ w.todo = search[r].todo /\ w.failed = search[r].failed
      /\ w.performed = search[r].performed /\ w.error = search[r].error
  <2>1. IsCut(S) \in BOOLEAN
      BY DEF IsCut
  <2> HIDE DEF S
  <2> QED BY <1>3, <1>4, <2>1 DEF Searching, Places, Scope, Asked
<1>6. Covers(w)
  <2>1. w.known \subseteq Relevant \cap S
      BY <1>4, <1>5 DEF Good, Remembers
  <2> HIDE DEF w, S
  <2> QED BY <1>2, <1>3, <1>5, <2>1, SelectionCovers DEF Covers
<1>7. Remembers(w) /\ Reports(w) /\ Asks(w)
  <2> HIDE DEF w
  <2> QED BY <1>4, <1>5 DEF Good, Remembers, Reports, Asks
<1>8. Good(w) /\ Set(r, w)
    BY <1>2, <1>5, <1>6, <1>7 DEF Good
<1> HIDE DEF w
<1> QED BY <1>4, <1>8, StepInv DEF IInv

LEMMA ReadStatesInv ==
    ASSUME IInv, NEW r \in Searches, ReadStates(r) PROVE IInv'
<1> DEFINE v == search[r]
           fresh == {s \in Scope(v) : Fresh(s)}
           todo == IF fresh # Scope(v) /\ v.found = {} THEN Asked(v) ELSE {}
           w == [v EXCEPT !.place = "judged", !.fresh = fresh, !.todo = todo]
<1>1. /\ Good(v) /\ v \in Searching /\ v.place = "chunks" /\ Set(r, w)
      /\ UNCHANGED <<index, row, age, faults>>
    BY DEF IInv, Good, ReadStates
<1>2. fresh \subseteq Scope(v) /\ fresh \subseteq Kinds /\ todo \subseteq Asked(v)
      /\ todo \subseteq Kinds
    BY <1>1 DEF Scope, Asked, Searching
<1>3. /\ todo # {} => fresh # Scope(v)
      /\ \/ todo = Asked(v) \/ v.found # {} \/ fresh = Scope(v)
    OBVIOUS
<1> HIDE DEF fresh, todo
<1>4. /\ w \in Searching /\ w.place = "judged" /\ w.fresh = fresh /\ w.todo = todo
      /\ Scope(w) = Scope(v) /\ Asked(w) = Asked(v) /\ w.known = v.known
      /\ w.found = v.found /\ w.cut = v.cut /\ w.failed = v.failed
      /\ w.performed = v.performed /\ w.error = v.error
    BY <1>1, <1>2 DEF Searching, Places, Scope, Asked
<1> HIDE DEF v, w
<1>5. Remembers(w) /\ Covers(w) /\ Asks(w)
    BY <1>1, <1>2, <1>4 DEF Good, Remembers, Covers, Reports, Asks
<1>6. Reports(w)
    BY <1>1, <1>3, <1>4 DEF Good, Reports
<1> QED BY <1>1, <1>4, <1>5, <1>6, StepInv DEF IInv, Good

\* What more is found leaves what was found.
LEMMA FoundGrows ==
    ASSUME NEW S, NEW T, S \subseteq T, T \subseteq Items
    PROVE  /\ Threads(S) \subseteq Threads(T)
           /\ Cardinality(S \cap Relevant) >= TopK => Cardinality(T \cap Relevant) >= TopK
<1>1. IsFiniteSet(T \cap Relevant) /\ S \cap Relevant \in SUBSET (T \cap Relevant)
    BY SearchAssumption, FS_Subset
<1>2. IsFiniteSet(S \cap Relevant) /\ Cardinality(S \cap Relevant) <= Cardinality(T \cap Relevant)
    BY <1>1, FS_Subset
<1>3. Cardinality(S \cap Relevant) \in Nat /\ Cardinality(T \cap Relevant) \in Nat
    BY <1>1, <1>2, FS_CardinalityType
<1> QED BY <1>2, <1>3, SearchAssumption DEF Threads

LEMMA AnswersGood ==
    ASSUME NEW v, Good(v), v.place = "judged", NEW s \in v.todo,
           NEW R, R \subseteq Items
    PROVE  Good(Answers(v, s, R))
<1> DEFINE w == Answers(v, s, R)
<1>1. v \in Searching
    BY DEF Good
<1>2. /\ w \in Searching /\ w.place = v.place /\ w.todo = v.todo \ {s}
      /\ w.found = v.found \cup R /\ w.performed /\ w.known = v.known
      /\ w.cut = v.cut /\ w.fresh = v.fresh /\ w.failed = v.failed
      /\ w.error = v.error /\ Scope(w) = Scope(v) /\ Asked(w) = Asked(v)
    BY <1>1 DEF Answers, Searching, Scope, Asked
<1> HIDE DEF w
<1>3. Covers(w)
  <2>1. v.found \subseteq w.found /\ w.found \subseteq Items
      BY <1>1, <1>2 DEF Searching
  <2> QED BY <1>2, <2>1, FoundGrows DEF Good, Covers
<1>4. Reports(w)
  <2>1. s \in Asked(w) \ (w.failed \cup w.todo)
      BY <1>2 DEF Good, Asks
  <2> QED BY <1>2, <2>1 DEF Good, Reports
<1>5. Remembers(w) /\ Asks(w)
    BY <1>2 DEF Good, Remembers, Asks
<1> QED BY <1>2, <1>3, <1>4, <1>5 DEF Good, w

LEMMA RefusesGood ==
    ASSUME NEW v, Good(v), v.place = "judged", NEW s \in v.todo
    PROVE  Good(Refuses(v, s))
<1> DEFINE w == Refuses(v, s)
<1>1. v \in Searching /\ s \in Kinds
    BY DEF Good, Searching
<1>2. /\ w \in Searching /\ w.place = v.place /\ w.todo = v.todo \ {s}
      /\ w.failed = v.failed \cup {s} /\ w.error = s /\ w.performed = v.performed
      /\ w.found = v.found /\ w.known = v.known /\ w.cut = v.cut
      /\ w.fresh = v.fresh /\ Scope(w) = Scope(v) /\ Asked(w) = Asked(v)
    BY <1>1 DEF Refuses, Searching, Scope, Asked
<1> HIDE DEF w
<1>3. w.failed \cup w.todo = v.failed \cup v.todo /\ w.error # None /\ w.failed # {}
    BY <1>1, <1>2, SearchAssumption
<1>4. Reports(w)
    BY <1>2, <1>3 DEF Good, Reports
<1>5. Covers(w) /\ Remembers(w) /\ Asks(w)
    BY <1>2 DEF Good, Covers, Remembers, Asks
<1> QED BY <1>2, <1>4, <1>5 DEF Good, w

LEMMA FallbackInv ==
    ASSUME IInv, NEW r \in Searches, NEW s \in Native, Fallback(r, s) PROVE IInv'
<1>1. /\ Good(search[r]) /\ search[r].place = "judged" /\ s \in search[r].todo
      /\ UNCHANGED <<index, row, age>>
    BY DEF IInv, Fallback
<1>2. faults' \in 0 .. MaxFaults
    BY SearchAssumption DEF IInv, Fallback, Fault
<1>3. CASE \E R \in SUBSET {i \in Items : ServiceOf[i] = s} : Set(r, Answers(search[r], s, R))
  <2>1. PICK R \in SUBSET {i \in Items : ServiceOf[i] = s} : Set(r, Answers(search[r], s, R))
      BY <1>3
  <2>2. R \subseteq Items
      OBVIOUS
  <2> QED BY <1>1, <1>2, <2>1, <2>2, AnswersGood, StepInv
<1>4. CASE Set(r, Refuses(search[r], s))
    BY <1>1, <1>2, <1>4, RefusesGood, StepInv
<1> QED BY <1>3, <1>4 DEF Fallback

LEMMA ReturnInv ==
    ASSUME IInv, NEW r \in Searches, Return(r) PROVE IInv'
<1> DEFINE w == [search[r] EXCEPT !.place = "completed"]
<1>1. /\ Good(search[r]) /\ search[r] \in Searching /\ Set(r, w)
      /\ search[r].place = "judged" /\ search[r].todo = {}
      /\ UNCHANGED <<index, row, age, faults>>
    BY DEF IInv, Good, Return
<1>2. w \in Searching
    BY <1>1 DEF Searching, Places
<1>3. Remembers(w) /\ Covers(w) /\ Reports(w) /\ Asks(w)
    BY <1>1 DEF Good, Searching, Remembers, Covers, Reports, Asks, Scope, Asked
<1> HIDE DEF w
<1> QED BY <1>1, <1>2, <1>3, StepInv DEF IInv, Good

LEMMA SearchFailsInv ==
    ASSUME IInv, NEW r \in Searches, SearchFails(r) PROVE IInv'
<1> DEFINE w == [Idle EXCEPT !.place = "failed"]
<1>1. w \in Searching
    BY DEF Idle, Searching, Places
<1>2. Good(w)
    BY <1>1 DEF Idle, Good, Remembers, Covers, Reports, Asks
<1>3. faults' \in 0 .. MaxFaults
    BY SearchAssumption DEF IInv, SearchFails, Fault
<1>4. Set(r, w) /\ UNCHANGED <<index, row, age>>
    BY DEF SearchFails
<1> HIDE DEF w
<1> QED BY <1>2, <1>3, <1>4, StepInv

-----------------------------------------------------------------------------
THEOREM Invariance == Spec => []IInv
<1>1. Init => IInv
    BY InitInv
<1>2. IInv /\ [Next]_vars => IInv'
  <2> SUFFICES ASSUME IInv, [Next]_vars PROVE IInv'
      OBVIOUS
  <2>1. CASE UNCHANGED vars
      BY <2>1 DEF vars, IInv, Good, Remembers, Covers, Reports, Asks, Indexed,
                  Scope, Asked, Threads
  <2>2. CASE (\E s \in Kinds : Sync(s)) \/ Tick
      BY <2>2, EnvironmentInv
  <2>3. ASSUME NEW r \in Searches,
               (\E S \in SUBSET Kinds : Ask(r, S)) \/ Work(r) \/ SearchFails(r)
        PROVE  IInv'
      BY <2>3, AskInv, ReadChunksInv, ReadStatesInv, FallbackInv, ReturnInv,
         SearchFailsInv DEF Work
  <2> QED BY <2>1, <2>2, <2>3 DEF Next
<1> QED BY <1>1, <1>2, PTL DEF Spec

(***************************************************************************)
(* The types of the index, of the sync_state rows and of every search.     *)
(***************************************************************************)
THEOREM TypeCorrect == Spec => []TypeOK
    BY Invariance, Consequences, PTL

(***************************************************************************)
(* Whatever the index holds and whatever the synchronisation does, a       *)
(* search returns each relevant item it could have returned when it began, *)
(* or its thread, or as many others as were wanted, unless the row limit   *)
(* cut it off.                                                             *)
(***************************************************************************)
THEOREM IndexedItemsAreFound == Spec => []IndexedIsFound
    BY Invariance, Consequences, PTL

(***************************************************************************)
(* The report of the native fallback says what was asked and what failed,  *)
(* for any services and any failures.                                      *)
(***************************************************************************)
THEOREM FallbackReportIsTrue == Spec => []FallbackIsReported
    BY Invariance, Consequences, PTL

-----------------------------------------------------------------------------
(***************************************************************************)
(* The rows of a search and the states beside them are read in two         *)
(* statements, and attempts of the synchronisation may begin, fail or      *)
(* finish in between (search.py).  What the two can never show: a result   *)
(* of a service whose state is "missing" or has no successful run, and a   *)
(* "completed" state without one (the "never_succeeded" of freshness.py).  *)
(***************************************************************************)
StatesKeepPace ==
    /\ \A s \in Kinds : row[s].status = "completed" => row[s].success
    /\ \A s \in Kinds : row[s].success => row[s].status # "missing"
    /\ \A i \in Items : index[i] > 0 => row[ServiceOf[i]].success

\* What a search found before its fallback.
FromIndex(w) == IF w.place \in {"chunks", "judged", "completed"} /\ ~ w.performed
                THEN w.found ELSE {}

ResultsHaveStates ==
    \A r \in Searches : \A i \in FromIndex(search[r]) :
        /\ row[ServiceOf[i]].success /\ row[ServiceOf[i]].status # "missing"
        /\ ServiceOf[i] \in Scope(search[r])

\* The results of a search are indexed still, in the services it covers.
ResultsAreIndexed ==
    \A r \in Searches : FromIndex(search[r]) \subseteq Indexed(Scope(search[r]))

LEMMA SearchStepsRead ==
    ASSUME NEW r \in Searches,
           (\E S \in SUBSET Kinds : Ask(r, S)) \/ Work(r) \/ SearchFails(r)
    PROVE  UNCHANGED <<index, row, age>>
<1>1. ASSUME NEW S \in SUBSET Kinds, Ask(r, S) PROVE UNCHANGED <<index, row, age>>
    BY <1>1, Zenon DEF Ask
<1>2. CASE ReadChunks(r)
    BY <1>2, Zenon DEF ReadChunks
<1>3. CASE ReadStates(r)
    BY <1>3, Zenon DEF ReadStates
<1>4. CASE Return(r) \/ SearchFails(r)
    BY <1>4, Zenon DEF Return, SearchFails
<1>5. ASSUME NEW s \in Native, Fallback(r, s) PROVE UNCHANGED <<index, row, age>>
    BY <1>5, Zenon DEF Fallback
<1> QED BY <1>1, <1>2, <1>3, <1>4, <1>5 DEF Work

LEMMA OnlySyncWrites ==
    ASSUME [Next]_vars
    PROVE  (\E s \in Kinds : Sync(s)) \/ UNCHANGED <<index, row>>
<1>1. CASE Tick \/ UNCHANGED vars
    BY <1>1 DEF Tick, vars
<1> QED BY <1>1, SearchStepsRead DEF Next

LEMMA StatesStay ==
    ASSUME IInv, StatesKeepPace, [Next]_vars PROVE StatesKeepPace'
<1>1. ASSUME NEW s \in Kinds, Sync(s) PROVE StatesKeepPace'
  <2>1. CASE Contract!Begin(s)
      BY <2>1 DEF Contract!Begin, StatesKeepPace, IInv
  <2>2. CASE Contract!FailSync(s)
      BY <2>2 DEF Contract!FailSync, StatesKeepPace, IInv
  <2>3. CASE Contract!Finish(s)
      BY <2>3 DEF Contract!Finish, StatesKeepPace, IInv
  <2> QED BY <1>1, <2>1, <2>2, <2>3 DEF Sync
<1>2. CASE UNCHANGED <<index, row>>
    BY <1>2 DEF StatesKeepPace
<1> QED
    BY <1>1, <1>2, OnlySyncWrites

LEMMA IndexStays ==
    ASSUME [Next]_vars, NEW i \in Items, index[i] > 0 PROVE index'[i] > 0
<1>1. ASSUME NEW s \in Kinds, Sync(s) PROVE index'[i] > 0
    BY <1>1 DEF Sync, Contract!Begin, Contract!FailSync, Contract!Finish
<1> QED BY <1>1, OnlySyncWrites

\* A step of a search that leaves what it found in the index as it was, or
\* forgets it.
LEMMA ResultsKeep ==
    ASSUME IInv, ResultsAreIndexed, [Next]_vars, NEW r \in Searches, NEW w, Set(r, w),
           FromIndex(w) \subseteq Indexed(Scope(w))
    PROVE  ResultsAreIndexed'
<1>1. \A S : Indexed(S) \subseteq Indexed(S)'
    BY IndexStays DEF Indexed
<1>2. \A q \in Searches : search'[q] = IF q = r THEN w ELSE search[q]
    BY DEF Set, IInv
<1>3. \A q \in Searches : FromIndex(search'[q]) \subseteq Indexed(Scope(search'[q]))
    BY <1>2 DEF ResultsAreIndexed
<1> QED BY <1>1, <1>3 DEF ResultsAreIndexed, FromIndex, Scope

LEMMA ResultsStay ==
    ASSUME IInv, ResultsAreIndexed, [Next]_vars PROVE ResultsAreIndexed'
<1>1. CASE search' = search
  <2>1. \A S : Indexed(S) \subseteq Indexed(S)'
      BY IndexStays DEF Indexed
  <2> QED BY <1>1, <2>1 DEF ResultsAreIndexed, FromIndex, Scope
<1>2. ASSUME NEW r \in Searches, NEW S \in SUBSET Kinds, Ask(r, S)
      PROVE  ResultsAreIndexed'
  <2> DEFINE w == [Idle EXCEPT !.place = "embedding", !.services = S,
                               !.known = Relevant \cap
                                   Indexed(Scope([Idle EXCEPT !.services = S]))]
  <2>1. Set(r, w)
      BY <1>2 DEF Ask
  <2>2. FromIndex(w) = {}
      BY DEF FromIndex, Idle
  <2> HIDE DEF w
  <2> QED BY <2>1, <2>2, ResultsKeep
<1>3. ASSUME NEW r \in Searches, ReadChunks(r) PROVE ResultsAreIndexed'
  <2>1. PICK S : S = Indexed(Scope(search[r]))
      OBVIOUS
  <2>2. \E H \in Hits(S) : \E R \in Selections(H \cap Relevant) :
            Set(r, [search[r] EXCEPT !.place = "chunks", !.found = R, !.cut = IsCut(S)])
      BY <1>3, <2>1 DEF ReadChunks
  <2>3. PICK R \in SUBSET S :
            Set(r, [search[r] EXCEPT !.place = "chunks", !.found = R, !.cut = IsCut(S)])
    <3>1. PICK H \in Hits(S) : \E R \in Selections(H \cap Relevant) :
              Set(r, [search[r] EXCEPT !.place = "chunks", !.found = R, !.cut = IsCut(S)])
        BY <2>2
    <3>2. \A R \in Selections(H \cap Relevant) : R \subseteq S
        BY HitsAreItems DEF Selections
    <3> QED BY <3>1, <3>2
  <2>4. PICK v : v = search[r]
      OBVIOUS
  <2>5. v \in Searching
      BY <2>4 DEF IInv
  <2> DEFINE w == [v EXCEPT !.place = "chunks", !.found = R, !.cut = IsCut(S)]
  <2>6. w.found = R /\ w.services = v.services
      BY <2>5 DEF Searching
  <2>7. Set(r, w)
      BY <2>3, <2>4
  <2> HIDE DEF w
  <2>8. FromIndex(w) \subseteq Indexed(Scope(w))
      BY <2>1, <2>4, <2>6 DEF FromIndex, Scope
  <2> QED BY <2>7, <2>8, ResultsKeep
<1>4. ASSUME NEW r \in Searches,
             ReadStates(r) \/ Return(r) \/ (\E s \in Native : Fallback(r, s))
      PROVE  ResultsAreIndexed'
  <2>1. PICK v : v = search[r]
      OBVIOUS
  <2>2. v \in Searching /\ v.place \in {"chunks", "judged"}
      BY <1>4, <2>1 DEF IInv, ReadStates, Return, Fallback
  <2> DEFINE Keeps(w) == /\ w.services = v.services
                         /\ w.performed \/ (w.found = v.found /\ w.performed = v.performed)
  <2>3. ASSUME NEW w, Set(r, w), Keeps(w) PROVE ResultsAreIndexed'
    <3>1. FromIndex(w) \subseteq FromIndex(v) /\ Scope(w) = Scope(v)
        BY <2>2, <2>3 DEF FromIndex, Scope
    <3> QED BY <2>1, <2>3, <3>1, ResultsKeep DEF ResultsAreIndexed
  <2>4. CASE ReadStates(r)
    <3>1. \E fresh, todo :
             Set(r, [v EXCEPT !.place = "judged", !.fresh = fresh, !.todo = todo])
        BY <2>1, <2>4, Zenon DEF ReadStates
    <3>2. PICK fresh, todo :
             Set(r, [v EXCEPT !.place = "judged", !.fresh = fresh, !.todo = todo])
        BY <3>1
    <3>3. Keeps([v EXCEPT !.place = "judged", !.fresh = fresh, !.todo = todo])
        BY <2>2 DEF Searching
    <3> QED BY <2>3, <3>2, <3>3
  <2>5. CASE Return(r)
    <3>1. Keeps([v EXCEPT !.place = "completed"])
        BY <2>2 DEF Searching
    <3> QED BY <2>1, <2>3, <2>5, <3>1 DEF Return
  <2>6. ASSUME NEW s \in Native, Fallback(r, s) PROVE ResultsAreIndexed'
    <3>1. \A R : Keeps(Answers(v, s, R))
        BY <2>2 DEF Answers, Searching
    <3>2. Keeps(Refuses(v, s))
        BY <2>2 DEF Refuses, Searching
    <3>3. Set(r, Refuses(v, s)) \/ \E R : Set(r, Answers(v, s, R))
        BY <2>1, <2>6 DEF Fallback
    <3> HIDE DEF Keeps
    <3> QED BY <2>3, <3>1, <3>2, <3>3
  <2> QED BY <1>4, <2>4, <2>5, <2>6
<1>5. ASSUME NEW r \in Searches, SearchFails(r) PROVE ResultsAreIndexed'
  <2> DEFINE w == [Idle EXCEPT !.place = "failed"]
  <2>1. Set(r, w)
      BY <1>5 DEF SearchFails
  <2>2. FromIndex(w) = {}
      BY DEF FromIndex, Idle
  <2> HIDE DEF w
  <2> QED BY <2>1, <2>2, ResultsKeep
<1> QED
    BY <1>1, <1>2, <1>3, <1>4, <1>5 DEF Next, Sync, Tick, Work, vars

(***************************************************************************)
(* Whatever attempts come between the two reads, every result a search has *)
(* from the index belongs to a service it covers whose state, read later,  *)
(* tells of a successful synchronisation, for any items and services.      *)
(***************************************************************************)
THEOREM ResultsComeWithStates == Spec => []ResultsHaveStates
<1>1. Init => StatesKeepPace /\ ResultsAreIndexed
    BY DEF Init, Contract!Init, StatesKeepPace, ResultsAreIndexed, FromIndex, Idle
<1>2. IInv /\ StatesKeepPace /\ ResultsAreIndexed /\ [Next]_vars
         => StatesKeepPace' /\ ResultsAreIndexed'
    BY StatesStay, ResultsStay
<1>3. IInv /\ StatesKeepPace /\ ResultsAreIndexed => ResultsHaveStates
    BY SearchAssumption DEF StatesKeepPace, ResultsAreIndexed, ResultsHaveStates,
                            Indexed, Scope, IInv, Searching
<1> QED BY <1>1, <1>2, <1>3, Invariance, PTL DEF Spec

(***************************************************************************)
(* Searches only read: to the index and the states, WorkspaceSearch is     *)
(* what IndexContract says and WorkspaceSync keeps (ReadersSeeContract).   *)
(***************************************************************************)
THEOREM SearchesOnlyRead == Spec => Contract!Spec
<1>1. Init => Contract!Init
    BY DEF Init
<1>2. [Next]_vars => [Contract!Next]_<<index, row>>
  <2> SUFFICES ASSUME [Next]_vars, ~ UNCHANGED <<index, row>> PROVE Contract!Next
      OBVIOUS
  <2>1. PICK s \in Kinds : Sync(s)
      BY OnlySyncWrites
  <2> QED BY <2>1 DEF Sync, Contract!Next
<1> QED BY <1>1, <1>2, PTL DEF Spec, Contract!Spec
=============================================================================
