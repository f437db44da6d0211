--------------------------- MODULE EmbeddingFlight ---------------------------
(***************************************************************************)
(* Query embeddings of one process (src/app/retrieval/search.py,           *)
(* _query_embedding_with_metadata).  A request looks in the process cache  *)
(* (least recently used out first), then in Redis, then joins the flight   *)
(* of its key: an asyncio.Lock registered under the key, inside which it   *)
(* looks again before it computes the embedding in a thread.               *)
(*                                                                         *)
(* One event loop runs the requests, so a step lasts from one suspension   *)
(* to the next: an answer of Redis, the lock, the end of the thread.  An   *)
(* asyncio.Lock is the queue of the requests that asked for it, and its    *)
(* holder is the first.  flight_state.guard is never held across a         *)
(* suspension, so it is always free and taking it does not suspend.        *)
(* Redis raises when it cannot be reached, and RedisCache lets it.         *)
(***************************************************************************)
EXTENDS Integers, Sequences, SequencesExt

CONSTANTS Requests, Keys, Locks,
          None,       \* no lock, no key
          Capacity    \* _MAX_PROCESS_EMBEDDINGS

ASSUME FlightAssumption ==
    /\ Capacity \in Nat \ {0}
    /\ None \notin Locks \cup Keys

VARIABLES pc, key,    \* where each request is, and the embedding it wants
          lock,       \* the lock it asked for
          memory,     \* _PROCESS_EMBEDDINGS, the oldest key first
          redis,      \* the keys Redis holds
          flights,    \* flight_state.flights
          queue,      \* the requests holding or awaiting each lock
          calls,      \* computations started per key, counted up to 2
          disturbed   \* keys evicted, or whose flight failed before its value

vars == <<pc, key, lock, memory, redis, flights, queue, calls, disturbed>>

Places == {"idle", "cache", "hit", "miss", "wait", "recheck", "rehit", "remiss",
           "embed", "store"}

Init ==
    /\ pc = [r \in Requests |-> "idle"]
    /\ key = [r \in Requests |-> None]
    /\ lock = [r \in Requests |-> None]
    /\ memory = <<>> /\ redis \in SUBSET Keys   \* Redis outlives the process
    /\ flights = [k \in Keys |-> None]
    /\ queue = [l \in Locks |-> <<>>]
    /\ calls = [k \in Keys |-> 0]
    /\ disturbed = {}

Goto(r, place) == pc' = [pc EXCEPT ![r] = place]
Cached(k) == Contains(memory, k)
Touched(k) == Append(RemoveFirst(memory, k), k)

\* _process_embedding: a hit becomes the most recent.
Hit(k) == Cached(k) /\ memory' = Touched(k) /\ UNCHANGED disturbed

\* _remember_process_embedding
Remember(k) ==
    LET full == Len(Touched(k)) > Capacity
    IN /\ memory' = IF full THEN Tail(Touched(k)) ELSE Touched(k)
       /\ disturbed' = IF full THEN disturbed \cup {Head(Touched(k))} ELSE disturbed

\* The finally block: leave the lock and, if it is still the registered one,
\* unregister it.  Mutants: one keeps it registered, one keeps it locked.
MutDequeue(r) == queue' = queue
Dequeue(r) == queue' = [queue EXCEPT ![lock[r]] = Tail(@)]
MutUnregister(r) == UNCHANGED flights
Unregister(r) ==
    flights' = IF flights[key[r]] = lock[r]
               THEN [flights EXCEPT ![key[r]] = None] ELSE flights
Leave(r) ==
    /\ Dequeue(r) /\ Unregister(r)
    /\ Goto(r, "idle")
    /\ lock' = [lock EXCEPT ![r] = None]
    /\ key' = [key EXCEPT ![r] = None]

Return(r) ==
    /\ Goto(r, "idle") /\ key' = [key EXCEPT ![r] = None]
    /\ UNCHANGED <<lock, flights, queue>>

-----------------------------------------------------------------------------
Ask(r, k) ==
    /\ pc[r] = "idle"
    /\ \/ Hit(k) /\ UNCHANGED <<pc, key>>
       \/ /\ ~Cached(k)
          /\ Goto(r, "cache") /\ key' = [key EXCEPT ![r] = k]
          /\ UNCHANGED <<memory, disturbed>>
    /\ UNCHANGED <<lock, redis, flights, queue, calls>>

\* Redis looks the key up; its answer is read later.
Serve(r) ==
    /\ \/ pc[r] = "cache" /\ Goto(r, IF key[r] \in redis THEN "hit" ELSE "miss")
       \/ pc[r] = "recheck" /\ Goto(r, IF key[r] \in redis THEN "rehit" ELSE "remiss")
    /\ UNCHANGED <<key, lock, memory, redis, flights, queue, calls, disturbed>>

\* The first answer: an embedding, or an exception.
Answered(r) ==
    /\ \/ pc[r] = "hit" /\ Remember(key[r])
       \/ pc[r] = "cache" /\ UNCHANGED <<memory, disturbed>>
    /\ Return(r)
    /\ UNCHANGED <<redis, calls>>

\* _embedding_flight: setdefault(cache_key, asyncio.Lock()).
Fresh(l) == queue[l] = <<>> /\ \A k \in Keys : flights[k] # l
Join(r) ==
    LET k == key[r] IN
    /\ pc[r] = "miss"
    /\ \E l \in Locks :
         /\ IF flights[k] = None THEN Fresh(l) ELSE l = flights[k]
         /\ flights' = [flights EXCEPT ![k] = l]
         /\ queue' = [queue EXCEPT ![l] = Append(@, r)]
         /\ lock' = [lock EXCEPT ![r] = l]
    /\ Goto(r, "wait")
    /\ UNCHANGED <<key, memory, redis, calls, disturbed>>

\* The lock is ours: look in the process cache again.  A mutant does not.
MutFound(k) == FALSE
Found(k) == Cached(k)
Enter(r) ==
    /\ pc[r] = "wait" /\ Head(queue[lock[r]]) = r
    /\ IF Found(key[r])
       THEN Hit(key[r]) /\ Leave(r)
       ELSE /\ Goto(r, "recheck")
            /\ UNCHANGED <<key, lock, memory, flights, queue, disturbed>>
    /\ UNCHANGED <<redis, calls>>

\* The second answer: an embedding, nothing, or an exception.
Recheck(r) ==
    LET k == key[r] IN
    /\ \/ pc[r] = "rehit" /\ Remember(k) /\ Leave(r) /\ UNCHANGED calls
       \/ /\ pc[r] = "remiss"
          /\ Goto(r, "embed")
          /\ calls' = [calls EXCEPT ![k] = IF @ < 2 THEN @ + 1 ELSE @]
          /\ UNCHANGED <<key, lock, memory, flights, queue, disturbed>>
       \/ /\ pc[r] = "recheck"
          /\ Leave(r)
          /\ disturbed' = disturbed \cup {k}
          /\ UNCHANGED <<memory, calls>>
    /\ UNCHANGED redis

\* The thread returns the embedding, or the model raises.
Embed(r) ==
    /\ pc[r] = "embed"
    /\ \/ /\ Remember(key[r])
          /\ Goto(r, "store")
          /\ UNCHANGED <<key, lock, flights, queue>>
       \/ /\ Leave(r)
          /\ disturbed' = disturbed \cup {key[r]}
          /\ UNCHANGED memory
    /\ UNCHANGED <<redis, calls>>

\* set_json succeeds or raises: the embedding is remembered all the same.
Store(r) ==
    /\ pc[r] = "store"
    /\ redis' \in {redis, redis \cup {key[r]}}
    /\ Leave(r)
    /\ UNCHANGED <<memory, calls, disturbed>>

\* The time to live of the Redis key is over, or another process stores it.
Elsewhere(k) ==
    /\ redis' \in {redis \ {k}, redis \cup {k}}
    /\ UNCHANGED <<pc, key, lock, memory, flights, queue, calls, disturbed>>

Proceed(r) == \/ Serve(r) \/ Answered(r) \/ Join(r) \/ Enter(r)
              \/ Recheck(r) \/ Embed(r) \/ Store(r)

Next ==
    \/ \E r \in Requests : Proceed(r) \/ \E k \in Keys : Ask(r, k)
    \/ \E k \in Keys : Elsewhere(k)

Spec == Init /\ [][Next]_vars

-----------------------------------------------------------------------------
TypeOK ==
    /\ pc \in [Requests -> Places]
    /\ key \in [Requests -> Keys \cup {None}]
    /\ lock \in [Requests -> Locks \cup {None}]
    /\ memory \in Seq(Keys) /\ redis \subseteq Keys
    /\ flights \in [Keys -> Locks \cup {None}]
    /\ queue \in [Locks -> Seq(Requests)]
    /\ calls \in [Keys -> 0 .. 2] /\ disturbed \subseteq Keys
    /\ \A r \in Requests :
          /\ pc[r] = "idle" <=> key[r] = None
          /\ lock[r] # None <=> pc[r] \notin {"idle", "cache", "hit", "miss"}
    /\ Len(memory) <= Capacity /\ IsInjective(memory)
    /\ \A l \in Locks :
          IsInjective(queue[l]) /\ ToSet(queue[l]) = {r \in Requests : lock[r] = l}

(***************************************************************************)
(* Requests for one embedding, however they interleave, compute it once:   *)
(* it is computed again only after it was evicted or after a flight for it *)
(* failed (the lock and the second look in _query_embedding_with_metadata, *)
(* and a Redis failure after the computation does not count).              *)
(***************************************************************************)
EmbeddedOnce == \A k \in Keys : k \notin disturbed => calls[k] <= 1

(***************************************************************************)
(* A flight is registered only while one of its requests is under way: the *)
(* dictionary does not grow with the queries ever asked.                   *)
(***************************************************************************)
FlightsDrain ==
    \A k \in Keys : flights[k] # None
        => \E r \in Requests : lock[r] = flights[k] /\ key[r] = k
=============================================================================
