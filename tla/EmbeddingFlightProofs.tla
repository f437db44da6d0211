------------------------ MODULE EmbeddingFlightProofs ------------------------
(***************************************************************************)
(* Theorems about EmbeddingFlight, for any requests, keys and locks and    *)
(* every capacity of the process cache.                                    *)
(***************************************************************************)
EXTENDS EmbeddingFlight, SequenceTheorems, TLAPS

-----------------------------------------------------------------------------
(***************************************************************************)
(* The process cache.                                                      *)
(***************************************************************************)

\* A sequence without repetitions and without its i-th element.
LEMMA RemovedAt ==
    ASSUME NEW S, NEW s \in Seq(S), IsInjective(s), NEW i \in 1 .. Len(s)
    PROVE  /\ RemoveAt(s, i) \in Seq(S)
           /\ Len(RemoveAt(s, i)) = Len(s) - 1
           /\ IsInjective(RemoveAt(s, i))
           /\ \A x : Contains(RemoveAt(s, i), x) <=> Contains(s, x) /\ x # s[i]
<1> DEFINE f == SubSeq(s, 1, i - 1)
           b == SubSeq(s, i + 1, Len(s))
           t == RemoveAt(s, i)
<1>0. Len(s) \in Nat /\ DOMAIN s = 1 .. Len(s) /\ \A n \in 1 .. Len(s) : s[n] \in S
  BY LenProperties, ElementOfSeq
<1>1. /\ f \in Seq(S) /\ Len(f) = i - 1
      /\ \A n \in 1 .. i - 1 : f[n] = s[n]
  <2>1. \A n \in 1 .. i - 1 : s[n] \in S
    BY <1>0
  <2> QED BY <1>0, <2>1, SubSeqProperties
<1>2. /\ b \in Seq(S) /\ Len(b) = Len(s) - i
      /\ \A n \in 1 .. Len(s) - i : b[n] = s[i + n]
  <2>1. \A n \in i + 1 .. Len(s) : s[n] \in S
    BY <1>0
  <2>2. /\ b \in Seq(S)
        /\ Len(b) = IF i + 1 <= Len(s) THEN Len(s) - (i + 1) + 1 ELSE 0
        /\ \A n \in 1 .. Len(s) - (i + 1) + 1 : b[n] = s[(i + 1) + n - 1]
    BY <1>0, <2>1, SubSeqProperties
  <2> HIDE DEF b
  <2>3. Len(b) = Len(s) - i /\ Len(s) - (i + 1) + 1 = Len(s) - i
    <3>1. \A l \in Nat : \A j \in 1 .. l :
             /\ l - (j + 1) + 1 = l - j
             /\ (IF j + 1 <= l THEN l - (j + 1) + 1 ELSE 0) = l - j
      OBVIOUS
    <3> QED BY <1>0, <2>2, <3>1
  <2>4. \A n \in 1 .. Len(s) - i : (i + 1) + n - 1 = i + n
    BY <1>0
  <2> QED BY <2>2, <2>3, <2>4
<1> HIDE DEF f, b, t
<1>3. /\ t \in Seq(S) /\ Len(t) = Len(s) - 1
      /\ \A n \in 1 .. Len(s) - 1 : t[n] = IF n < i THEN s[n] ELSE s[n + 1]
  <2>1. t = f \o b
    BY DEF RemoveAt, f, b, t
  <2>2. /\ t \in Seq(S) /\ Len(t) = Len(f) + Len(b)
        /\ \A n \in 1 .. Len(f) + Len(b) : t[n] = IF n <= Len(f) THEN f[n] ELSE b[n - Len(f)]
    BY <1>1, <1>2, <2>1, ConcatProperties
  <2>3. Len(f) + Len(b) = Len(s) - 1
    BY <1>0, <1>1, <1>2
  <2>4. ASSUME NEW n \in 1 .. Len(s) - 1 PROVE t[n] = IF n < i THEN s[n] ELSE s[n + 1]
    <3>1. CASE n < i
      BY <1>0, <1>1, <2>2, <2>3, <2>4, <3>1
    <3>2. CASE n >= i
      <4>1. n - Len(f) = n - i + 1 /\ n - i + 1 \in 1 .. Len(s) - i /\ ~(n <= Len(f))
        BY <1>0, <1>1, <2>4, <3>2
      <4>2. t[n] = b[n - i + 1] /\ b[n - i + 1] = s[i + (n - i + 1)]
        BY <1>2, <2>2, <2>3, <2>4, <4>1
      <4> QED BY <1>0, <3>2, <4>2
    <3> QED BY <1>0, <3>1, <3>2
  <2> QED BY <2>2, <2>3, <2>4
<1>4. DOMAIN t = 1 .. Len(s) - 1
  BY <1>3, LenProperties
<1>5. IsInjective(t)
  BY <1>0, <1>3, <1>4 DEF IsInjective
<1>6. ASSUME NEW x PROVE Contains(t, x) <=> Contains(s, x) /\ x # s[i]
  <2>1. ASSUME NEW n \in 1 .. Len(t), t[n] = x PROVE Contains(s, x) /\ x # s[i]
    <3>1. n \in 1 .. Len(s) - 1 /\ n + 1 \in 1 .. Len(s) /\ n \in 1 .. Len(s)
      BY <1>0, <1>3
    <3>2. x = IF n < i THEN s[n] ELSE s[n + 1]
      BY <1>3, <2>1, <3>1
    <3>3. PICK m \in 1 .. Len(s) : m # i /\ s[m] = x
      BY <1>0, <3>1, <3>2
    <3> QED BY <1>0, <3>3 DEF Contains, IsInjective
  <2>2. ASSUME NEW n \in 1 .. Len(s), s[n] = x, x # s[i] PROVE Contains(t, x)
    <3>1. CASE n < i
      BY <1>0, <1>3, <2>2, <3>1 DEF Contains
    <3>2. CASE n > i
      <4>1. n - 1 \in 1 .. Len(t) /\ t[n - 1] = x
        BY <1>0, <1>3, <2>2, <3>2
      <4> QED BY <4>1 DEF Contains
    <3> QED BY <1>0, <2>2, <3>1, <3>2
  <2> QED BY <2>1, <2>2 DEF Contains
<1> QED BY <1>3, <1>5, <1>6 DEF t

\* A sequence without repetitions that gets a new last element.
LEMMA Appended ==
    ASSUME NEW S, NEW s \in Seq(S), IsInjective(s), NEW e \in S, ~Contains(s, e)
    PROVE  /\ Append(s, e) \in Seq(S)
           /\ Len(Append(s, e)) = Len(s) + 1
           /\ IsInjective(Append(s, e))
           /\ \A x : Contains(Append(s, e), x) <=> Contains(s, x) \/ x = e
           /\ Append(s, e)[Len(s) + 1] = e
<1> DEFINE t == Append(s, e)
<1>0. Len(s) \in Nat /\ DOMAIN s = 1 .. Len(s)
  BY LenProperties
<1>1. /\ t \in Seq(S) /\ Len(t) = Len(s) + 1
      /\ \A n \in 1 .. Len(s) : t[n] = s[n]
      /\ t[Len(s) + 1] = e
  BY AppendProperties
<1> HIDE DEF t
<1>2. DOMAIN t = 1 .. Len(s) + 1
  BY <1>1, LenProperties
<1>3. IsInjective(t)
  BY <1>0, <1>1, <1>2 DEF IsInjective, Contains
<1>4. ASSUME NEW x PROVE Contains(t, x) <=> Contains(s, x) \/ x = e
  BY <1>0, <1>1 DEF Contains
<1> QED BY <1>1, <1>3, <1>4 DEF t

\* A sequence without repetitions and without its first element.
LEMMA Tailed ==
    ASSUME NEW S, NEW s \in Seq(S), IsInjective(s), s # <<>>
    PROVE  /\ Tail(s) \in Seq(S)
           /\ Len(Tail(s)) = Len(s) - 1
           /\ IsInjective(Tail(s))
           /\ \A x : Contains(Tail(s), x) <=> Contains(s, x) /\ x # Head(s)
<1> DEFINE t == Tail(s)
<1>0. Len(s) \in Nat \ {0} /\ DOMAIN s = 1 .. Len(s) /\ Head(s) = s[1]
  BY LenProperties, EmptySeq
<1>1. /\ t \in Seq(S) /\ Len(t) = Len(s) - 1
      /\ \A n \in 1 .. Len(t) : t[n] = s[n + 1]
  BY HeadTailProperties
<1> HIDE DEF t
<1>2. DOMAIN t = 1 .. Len(t)
  BY <1>1, LenProperties
<1>3. IsInjective(t)
  <2> SUFFICES ASSUME NEW m \in 1 .. Len(t), NEW n \in 1 .. Len(t), t[m] = t[n]
               PROVE  m = n
    BY <1>2 DEF IsInjective
  <2>1. /\ m + 1 \in DOMAIN s /\ n + 1 \in DOMAIN s
        /\ s[m + 1] = s[n + 1]
    BY <1>0, <1>1
  <2>2. m + 1 = n + 1
    BY <2>1 DEF IsInjective
  <2> QED BY <2>2
<1>4. ASSUME NEW x PROVE Contains(t, x) <=> Contains(s, x) /\ x # Head(s)
  <2>1. ASSUME NEW n \in 1 .. Len(t), t[n] = x PROVE Contains(s, x) /\ x # Head(s)
    <3>1. n + 1 \in 1 .. Len(s) /\ s[n + 1] = x /\ n + 1 # 1
      BY <1>0, <1>1, <2>1
    <3> QED BY <1>0, <3>1 DEF Contains, IsInjective
  <2>2. ASSUME NEW n \in 1 .. Len(s), s[n] = x, x # Head(s) PROVE Contains(t, x)
    <3>1. n - 1 \in 1 .. Len(t) /\ t[n - 1] = x
      BY <1>0, <1>1, <2>2
    <3> QED BY <3>1 DEF Contains
  <2> QED BY <2>1, <2>2 DEF Contains
<1> QED BY <1>1, <1>3, <1>4 DEF t

\* move_to_end, of a key that is there or not.
LEMMA TouchedMemory ==
    ASSUME memory \in Seq(Keys), IsInjective(memory), NEW k \in Keys
    PROVE  /\ Touched(k) \in Seq(Keys) /\ IsInjective(Touched(k))
           /\ Len(Touched(k)) = IF Cached(k) THEN Len(memory) ELSE Len(memory) + 1
           /\ \A x : Contains(Touched(k), x) <=> Cached(x) \/ x = k
           /\ Touched(k)[Len(Touched(k))] = k
<1>0. Len(memory) \in Nat
  BY LenProperties
<1>1. CASE Cached(k)
  <2> DEFINE I == {i \in 1 .. Len(memory) : memory[i] = k}
             i == Min(I)
  <2>1. PICK n \in 1 .. Len(memory) : memory[n] = k
    BY <1>1 DEF Cached, Contains
  <2>2. I = {n}
    BY <1>0, <2>1, LenProperties DEF IsInjective
  <2>3. i = n
    BY <2>2 DEF Min
  <2>4. RemoveFirst(memory, k) = RemoveAt(memory, i)
    BY <1>1, <2>1 DEF RemoveFirst, SelectInSeq
  <2>5. Touched(k) = Append(RemoveAt(memory, n), k)
    BY <2>3, <2>4 DEF Touched
  <2> QED BY <1>0, <2>1, <2>5, RemovedAt, Appended, <1>1 DEF Cached
<1>2. CASE ~Cached(k)
  <2>1. Touched(k) = Append(memory, k)
    BY <1>2 DEF Touched, RemoveFirst, Cached, Contains
  <2> QED BY <1>0, <1>2, <2>1, Appended DEF Cached
<1> QED BY <1>1, <1>2

\* What the cache still knows after a hit or a value to remember.
LEMMA MemoryAfter ==
    ASSUME TypeOK, NEW k \in Keys, Hit(k) \/ Remember(k)
    PROVE  /\ memory' \in Seq(Keys) /\ IsInjective(memory') /\ Len(memory') <= Capacity
           /\ disturbed \subseteq disturbed' /\ disturbed' \subseteq Keys
           /\ Cached(k)'
           /\ \A x : x \notin disturbed' /\ Cached(x) => Cached(x)'
           /\ \A x : Cached(x)' => Cached(x) \/ x = k
<1> DEFINE T == Touched(k)
<1>0. /\ memory \in Seq(Keys) /\ IsInjective(memory) /\ disturbed \subseteq Keys
      /\ Len(memory) \in Nat /\ Len(memory) <= Capacity /\ Capacity \in Nat \ {0}
  BY FlightAssumption, LenProperties DEF TypeOK, FlightAssumption
<1>1. /\ T \in Seq(Keys) /\ IsInjective(T)
      /\ Len(T) = IF Cached(k) THEN Len(memory) ELSE Len(memory) + 1
      /\ \A x : Contains(T, x) <=> Cached(x) \/ x = k
      /\ T[Len(T)] = k
  BY <1>0, TouchedMemory
<1>2. CASE memory' = T /\ disturbed' = disturbed /\ Len(T) <= Capacity
  BY <1>0, <1>1, <1>2 DEF Cached
<1>3. CASE memory' = Tail(T) /\ disturbed' = disturbed \cup {Head(T)} /\ Len(T) > Capacity
  <2>1. Len(T) > 1 /\ Len(T) = Capacity + 1 /\ T # <<>> /\ Head(T) = T[1] /\ Head(T) \in Keys
    BY <1>0, <1>1, <1>3, EmptySeq, HeadTailProperties
  <2>2. Head(T) # k
    BY <1>1, <2>1, LenProperties DEF IsInjective
  <2>3. /\ Tail(T) \in Seq(Keys) /\ IsInjective(Tail(T)) /\ Len(Tail(T)) = Len(T) - 1
        /\ \A x : Contains(Tail(T), x) <=> Contains(T, x) /\ x # Head(T)
    BY <1>1, <2>1, Tailed
  <2> HIDE DEF T
  <2> QED BY <1>0, <1>1, <1>3, <2>1, <2>2, <2>3 DEF Cached
<1> QED
  BY <1>0, <1>1, <1>2, <1>3 DEF Hit, Remember

-----------------------------------------------------------------------------
(***************************************************************************)
(* The queue of a lock.                                                    *)
(***************************************************************************)
LEMMA ToSetIsContains ==
    ASSUME NEW S, NEW s \in Seq(S) PROVE \A x : x \in ToSet(s) <=> Contains(s, x)
  BY LenProperties DEF ToSet, Contains

Queues ==
    /\ queue \in [Locks -> Seq(Requests)]
    /\ \A l \in Locks :
          IsInjective(queue[l]) /\ ToSet(queue[l]) = {r \in Requests : lock[r] = l}

\* A request that joins a queue is behind whoever was first.
LEMMA Joining ==
    ASSUME Queues, lock \in [Requests -> Locks \cup {None}],
           NEW r \in Requests, lock[r] = None, NEW l \in Locks,
           lock' = [lock EXCEPT ![r] = l], queue' = [queue EXCEPT ![l] = Append(@, r)]
    PROVE  /\ Queues'
           /\ \A m \in Locks : queue[m] # <<>> => /\ queue'[m] # <<>>
                                                 /\ Head(queue'[m]) = Head(queue[m])
<1>0. None \notin Locks
  BY FlightAssumption DEF FlightAssumption
<1>1. /\ queue[l] \in Seq(Requests) /\ IsInjective(queue[l])
      /\ ~Contains(queue[l], r)
  BY <1>0, ToSetIsContains DEF Queues
<1>2. /\ queue'[l] \in Seq(Requests) /\ IsInjective(queue'[l])
      /\ \A x : Contains(queue'[l], x) <=> Contains(queue[l], x) \/ x = r
  BY <1>1, Appended DEF Queues
<1>3. \A m \in Locks : m # l => queue'[m] = queue[m]
  BY DEF Queues
<1>4. queue' \in [Locks -> Seq(Requests)]
  <2>1. \A m \in Locks : queue'[m] \in Seq(Requests)
    BY <1>2, <1>3 DEF Queues
  <2>2. queue' = [m \in Locks |-> queue'[m]]
    BY DEF Queues
  <2> QED BY <2>1, <2>2
<1>5. \A x \in Requests : lock'[x] = IF x = r THEN l ELSE lock[x]
  OBVIOUS
<1>6. ASSUME NEW m \in Locks
      PROVE  IsInjective(queue'[m]) /\ ToSet(queue'[m]) = {x \in Requests : lock'[x] = m}
  <2>1. CASE m = l
    <3>1. \A x : x \in ToSet(queue'[l]) <=> x \in ToSet(queue[l]) \/ x = r
      BY <1>1, <1>2, ToSetIsContains
    <3>2. ToSet(queue[l]) = {x \in Requests : lock[x] = l}
      BY DEF Queues
    <3>3. \A x : x \in ToSet(queue'[l]) <=> x \in Requests /\ lock'[x] = l
      BY <1>5, <3>1, <3>2
    <3> QED BY <1>2, <2>1, <3>3
  <2>2. CASE m # l
    <3>1. queue'[m] = queue[m] /\ IsInjective(queue[m])
          /\ ToSet(queue[m]) = {x \in Requests : lock[x] = m}
      BY <1>3, <2>2 DEF Queues
    <3>2. \A x \in Requests : lock'[x] = m <=> lock[x] = m
      BY <1>0, <1>5, <2>2
    <3> QED BY <3>1, <3>2
  <2> QED BY <2>1, <2>2
<1>7. ASSUME NEW m \in Locks, queue[m] # <<>>
      PROVE  queue'[m] # <<>> /\ Head(queue'[m]) = Head(queue[m])
  <2>1. CASE m = l
    <3>1. queue'[l] = Append(queue[l], r)
      BY DEF Queues
    <3> QED BY <1>1, <1>7, <2>1, <3>1, HeadTailAppend, AppendProperties
  <2> QED BY <1>3, <1>7, <2>1
<1> QED BY <1>4, <1>6, <1>7 DEF Queues

\* The first leaves: the others keep their places.
LEMMA Leaving ==
    ASSUME Queues, lock \in [Requests -> Locks \cup {None}],
           NEW r \in Requests, lock[r] \in Locks,
           queue[lock[r]] # <<>>, Head(queue[lock[r]]) = r,
           lock' = [lock EXCEPT ![r] = None], Dequeue(r)
    PROVE  /\ Queues'
           /\ \A m \in Locks : m # lock[r] => queue'[m] = queue[m]
<1>0. None \notin Locks
  BY FlightAssumption DEF FlightAssumption
<1> DEFINE l == lock[r]
<1>1. /\ queue[l] \in Seq(Requests) /\ IsInjective(queue[l])
      /\ queue'[l] = Tail(queue[l])
  BY DEF Queues, Dequeue
<1>2. /\ queue'[l] \in Seq(Requests) /\ IsInjective(queue'[l])
      /\ \A x : Contains(queue'[l], x) <=> Contains(queue[l], x) /\ x # r
  BY <1>1, Tailed
<1>3. \A m \in Locks : m # l => queue'[m] = queue[m]
  BY DEF Queues, Dequeue
<1>4. queue' \in [Locks -> Seq(Requests)]
  <2>1. \A m \in Locks : queue'[m] \in Seq(Requests)
    BY <1>2, <1>3 DEF Queues
  <2>2. queue' = [m \in Locks |-> queue'[m]]
    BY DEF Queues, Dequeue
  <2> QED BY <2>1, <2>2
<1>5. \A x \in Requests : lock'[x] = IF x = r THEN None ELSE lock[x]
  OBVIOUS
<1>6. ASSUME NEW m \in Locks
      PROVE  IsInjective(queue'[m]) /\ ToSet(queue'[m]) = {x \in Requests : lock'[x] = m}
  <2>1. CASE m = l
    <3>1. \A x : x \in ToSet(queue'[l]) <=> x \in ToSet(queue[l]) /\ x # r
      BY <1>1, <1>2, ToSetIsContains
    <3>2. ToSet(queue[l]) = {x \in Requests : lock[x] = l}
      BY DEF Queues
    <3>3. \A x : x \in ToSet(queue'[l]) <=> x \in Requests /\ lock'[x] = l
      BY <1>0, <1>5, <3>1, <3>2
    <3> QED BY <1>2, <2>1, <3>3
  <2>2. CASE m # l
    <3>1. queue'[m] = queue[m] /\ IsInjective(queue[m])
          /\ ToSet(queue[m]) = {x \in Requests : lock[x] = m}
      BY <1>3, <2>2 DEF Queues
    <3>2. \A x \in Requests : lock'[x] = m <=> lock[x] = m
      BY <1>0, <1>5, <2>2
    <3> QED BY <3>1, <3>2
  <2> QED BY <2>1, <2>2
<1> QED BY <1>3, <1>4, <1>6 DEF Queues

-----------------------------------------------------------------------------
(***************************************************************************)
(* The requests and their flights, whatever the caches hold.  Only the     *)
(* first of a queue is past the lock.                                      *)
(***************************************************************************)
Outside == {"idle", "cache", "hit", "miss"}
Looking == {"recheck", "rehit", "remiss"}
Inside == Looking \cup {"embed", "store"}

Placed ==
    /\ pc \in [Requests -> Places]
    /\ key \in [Requests -> Keys \cup {None}]
    /\ lock \in [Requests -> Locks \cup {None}]
    /\ flights \in [Keys -> Locks \cup {None}]
    /\ \A r \in Requests : /\ pc[r] = "idle" <=> key[r] = None
                           /\ lock[r] # None <=> pc[r] \notin Outside

Remembered ==
    /\ memory \in Seq(Keys) /\ Len(memory) <= Capacity /\ IsInjective(memory)
    /\ redis \subseteq Keys
    /\ calls \in [Keys -> 0 .. 2] /\ disturbed \subseteq Keys

First(r) == queue[lock[r]] # <<>> /\ Head(queue[lock[r]]) = r
Holders == \A r \in Requests : pc[r] \in Inside => First(r)

Flying == Placed /\ Queues /\ Holders /\ FlightsDrain

LEMMA TypeParts == TypeOK <=> Placed /\ Queues /\ Remembered
  BY DEF TypeOK, Placed, Queues, Remembered, Outside

LEMMA PlacesAre == Places = Outside \cup {"wait"} \cup Inside
  BY DEF Places, Outside, Inside, Looking

LEMMA Distinct == None \notin Locks /\ None \notin Keys
  BY FlightAssumption DEF FlightAssumption

\* One request goes on and keeps its key, its lock and its turn.
LEMMA Moves ==
    ASSUME Flying, NEW r \in Requests, NEW p \in Places, Goto(r, p),
           UNCHANGED <<key, lock, flights, queue>>,
           p # "idle" /\ pc[r] # "idle", p \in Outside <=> pc[r] \in Outside,
           p \in Inside => First(r)
    PROVE  Flying'
<1>1. /\ pc' \in [Requests -> Places]
      /\ \A q \in Requests : pc'[q] = IF q = r THEN p ELSE pc[q]
  BY DEF Flying, Placed, Goto
<1>2. Placed'
  BY <1>1 DEF Flying, Placed
<1>3. Holders'
  BY <1>1 DEF Flying, Holders, First
<1> QED BY <1>2, <1>3 DEF Flying, Queues, FlightsDrain

\* One request without a lock begins or ends.
LEMMA Turns ==
    ASSUME Flying, NEW r \in Requests, NEW p \in {"idle", "cache"}, NEW k \in Keys \cup {None},
           pc[r] \in Outside, p = "idle" <=> k = None,
           Goto(r, p), key' = [key EXCEPT ![r] = k], UNCHANGED <<lock, flights, queue>>
    PROVE  Flying'
<1>0. p \in Places /\ p \in Outside /\ p \notin Inside
  BY DEF Places, Outside, Inside, Looking
<1>1. /\ pc' \in [Requests -> Places] /\ key' \in [Requests -> Keys \cup {None}]
      /\ \A q \in Requests : /\ pc'[q] = IF q = r THEN p ELSE pc[q]
                             /\ key'[q] = IF q = r THEN k ELSE key[q]
  BY <1>0 DEF Flying, Placed, Goto
<1>2. Placed'
  BY <1>0, <1>1 DEF Flying, Placed
<1>3. Holders'
  BY <1>0, <1>1 DEF Flying, Holders, First
<1>4. FlightsDrain'
  BY <1>1 DEF Flying, Placed, FlightsDrain
<1> QED BY <1>2, <1>3, <1>4 DEF Flying, Queues

LEMMA Joins ==
    ASSUME Flying, NEW r \in Requests, Join(r) PROVE Flying'
<1>1. PICK l \in Locks :
         /\ IF flights[key[r]] = None THEN Fresh(l) ELSE l = flights[key[r]]
         /\ flights' = [flights EXCEPT ![key[r]] = l]
         /\ queue' = [queue EXCEPT ![l] = Append(@, r)]
         /\ lock' = [lock EXCEPT ![r] = l]
  BY DEF Join
<1>2. /\ pc[r] = "miss" /\ key' = key /\ Goto(r, "wait")
      /\ key[r] \in Keys /\ lock[r] = None
  BY DEF Join, Flying, Placed, Outside
<1>3. /\ Queues'
      /\ \A m \in Locks : queue[m] # <<>> => /\ queue'[m] # <<>>
                                            /\ Head(queue'[m]) = Head(queue[m])
  BY <1>1, <1>2, Joining DEF Flying, Placed
<1>4. /\ \A q \in Requests : /\ pc'[q] = IF q = r THEN "wait" ELSE pc[q]
                             /\ lock'[q] = IF q = r THEN l ELSE lock[q]
      /\ \A k \in Keys : flights'[k] = IF k = key[r] THEN l ELSE flights[k]
      /\ pc' \in [Requests -> Places] /\ lock' \in [Requests -> Locks \cup {None}]
      /\ flights' \in [Keys -> Locks \cup {None}]
  BY <1>1, <1>2 DEF Goto, Flying, Placed, Places
<1>5. Placed'
  BY <1>2, <1>4, Distinct DEF Flying, Placed, Outside
<1>6. Holders'
  <2> SUFFICES ASSUME NEW q \in Requests, pc'[q] \in Inside PROVE First(q)'
    BY DEF Holders
  <2>1. q # r /\ pc[q] \in Inside /\ lock'[q] = lock[q]
    BY <1>4 DEF Inside, Looking
  <2>2. lock[q] \in Locks /\ First(q)
    BY <2>1, Distinct DEF Flying, Placed, Holders, Inside, Looking, Outside
  <2> QED BY <1>3, <2>1, <2>2 DEF First
<1>7. FlightsDrain'
  BY <1>2, <1>4 DEF Flying, FlightsDrain
<1> QED BY <1>3, <1>5, <1>6, <1>7 DEF Flying

LEMMA Leaves ==
    ASSUME Flying, NEW r \in Requests, pc[r] \notin Outside, First(r), Leave(r)
    PROVE  Flying'
<1>1. key[r] \in Keys /\ lock[r] \in Locks
  BY Distinct DEF Flying, Placed, Outside
<1>2. Queues' /\ \A m \in Locks : m # lock[r] => queue'[m] = queue[m]
  BY <1>1, Leaving DEF Flying, Placed, First, Leave
<1>3. /\ \A q \in Requests : /\ pc'[q] = IF q = r THEN "idle" ELSE pc[q]
                             /\ key'[q] = IF q = r THEN None ELSE key[q]
                             /\ lock'[q] = IF q = r THEN None ELSE lock[q]
      /\ pc' \in [Requests -> Places] /\ key' \in [Requests -> Keys \cup {None}]
      /\ lock' \in [Requests -> Locks \cup {None}]
  BY DEF Leave, Goto, Flying, Placed, Places
<1>4. /\ flights' \in [Keys -> Locks \cup {None}]
      /\ \A k \in Keys : flights'[k] = IF k = key[r] /\ flights[k] = lock[r]
                                      THEN None ELSE flights[k]
  BY <1>1 DEF Leave, Unregister, Flying, Placed
<1>5. Placed'
  BY <1>3, <1>4 DEF Flying, Placed, Outside
<1>6. Holders'
  <2> SUFFICES ASSUME NEW q \in Requests, pc'[q] \in Inside PROVE First(q)'
    BY DEF Holders
  <2>1. q # r /\ pc[q] \in Inside /\ lock'[q] = lock[q]
    BY <1>3 DEF Inside, Looking
  <2>2. lock[q] \in Locks /\ First(q)
    BY <2>1, Distinct DEF Flying, Placed, Holders, Inside, Looking, Outside
  <2>3. lock[q] # lock[r]
    BY <2>1, <2>2 DEF First
  <2> QED BY <1>2, <2>1, <2>2, <2>3 DEF First
<1>7. FlightsDrain'
  <2> SUFFICES ASSUME NEW k \in Keys, flights'[k] # None
               PROVE  \E q \in Requests : lock'[q] = flights'[k] /\ key'[q] = k
    BY DEF FlightsDrain
  <2>1. flights[k] # None /\ flights'[k] = flights[k]
    BY <1>4
  <2>2. PICK q \in Requests : lock[q] = flights[k] /\ key[q] = k
    BY <2>1 DEF Flying, FlightsDrain
  <2>3. q # r
    BY <1>4, <2>1, <2>2
  <2> QED BY <1>3, <2>1, <2>2, <2>3
<1> QED BY <1>2, <1>5, <1>6, <1>7 DEF Flying

-----------------------------------------------------------------------------
(***************************************************************************)
(* One embedding, as long as it is neither evicted nor a flight for it     *)
(* fails.  Before it is cached, all who want it queue for one lock, and    *)
(* whoever is past that lock is registered; once it is computed, nobody is *)
(* still looking for it.  None of this depends on what Redis holds.        *)
(***************************************************************************)
Single(k) ==
    /\ ~Cached(k) => \A r \in Requests : key[r] = k /\ lock[r] # None => lock[r] = flights[k]
    /\ \A r \in Requests : key[r] = k /\ pc[r] \in Inside => lock[r] = flights[k]
    /\ \A r \in Requests : key[r] = k /\ pc[r] = "store" => Cached(k)
    /\ calls[k] <= 1
    /\ calls[k] = 1 => /\ \/ Cached(k)
                          \/ \E r \in Requests : key[r] = k /\ pc[r] = "embed"
                       /\ \A r \in Requests : key[r] = k => pc[r] \notin Looking

IInv == Flying /\ Remembered /\ \A k \in Keys \ disturbed : Single(k)

\* Two who are past a lock for the same embedding are one.
LEMMA OneInside ==
    ASSUME Flying, NEW k \in Keys, Single(k), NEW q \in Requests, NEW r \in Requests,
           key[q] = k, pc[q] \in Inside, key[r] = k, lock[r] = flights[k], First(r)
    PROVE  q = r
<1>1. lock[q] = lock[r]
  BY DEF Single
<1>2. First(q)
  BY DEF Flying, Holders
<1> QED BY <1>1, <1>2 DEF First

LEMMA SingleMoves ==
    ASSUME Flying, NEW k \in Keys, Single(k), NEW r \in Requests, NEW p \in Places,
           Goto(r, p), UNCHANGED <<key, lock, flights>>, calls'[k] = calls[k],
           Cached(k) => Cached(k)',
           key[r] = k /\ p \in Inside => lock[r] = flights[k],
           key[r] = k /\ p = "store" => Cached(k)',
           key[r] = k /\ p \in Looking => calls[k] # 1,
           key[r] = k /\ pc[r] = "embed" => Cached(k)'
    PROVE  Single(k)'
<1>1. \A q \in Requests : pc'[q] = IF q = r THEN p ELSE pc[q]
  BY DEF Flying, Placed, Goto
<1>2. ~Cached(k)' => \A q \in Requests : key'[q] = k /\ lock'[q] # None => lock'[q] = flights'[k]
  BY DEF Single
<1>3. \A q \in Requests : key'[q] = k /\ pc'[q] \in Inside => lock'[q] = flights'[k]
  BY <1>1 DEF Single
<1>4. \A q \in Requests : key'[q] = k /\ pc'[q] = "store" => Cached(k)'
  BY <1>1 DEF Single
<1>5. calls'[k] = 1 => Cached(k)' \/ \E q \in Requests : key'[q] = k /\ pc'[q] = "embed"
  BY <1>1 DEF Single
<1>6. calls'[k] = 1 => \A q \in Requests : key'[q] = k => pc'[q] \notin Looking
  BY <1>1 DEF Single
<1>7. calls'[k] <= 1
  BY DEF Single
<1> QED BY <1>2, <1>3, <1>4, <1>5, <1>6, <1>7 DEF Single

LEMMA SingleTurns ==
    ASSUME Flying, NEW k \in Keys, Single(k), NEW r \in Requests, NEW p \in Outside, NEW x,
           pc[r] \in Outside, Goto(r, p), key' = [key EXCEPT ![r] = x],
           UNCHANGED <<lock, flights>>, calls'[k] = calls[k], Cached(k) => Cached(k)'
    PROVE  Single(k)'
<1>0. "embed" \notin Outside /\ "store" \notin Outside /\ Outside \cap Inside = {}
      /\ Outside \cap Looking = {} /\ lock[r] = None
  BY DEF Outside, Inside, Looking, Flying, Placed
<1>1. \A q \in Requests : /\ pc'[q] = IF q = r THEN p ELSE pc[q]
                         /\ key'[q] = IF q = r THEN x ELSE key[q]
  BY DEF Flying, Placed, Goto
<1>2. ~Cached(k)' => \A q \in Requests : key'[q] = k /\ lock'[q] # None => lock'[q] = flights'[k]
  BY <1>0, <1>1 DEF Single
<1>3. \A q \in Requests : key'[q] = k /\ pc'[q] \in Inside => lock'[q] = flights'[k]
  BY <1>0, <1>1 DEF Single
<1>4. \A q \in Requests : key'[q] = k /\ pc'[q] = "store" => Cached(k)'
  BY <1>0, <1>1 DEF Single
<1>5. calls'[k] = 1 => Cached(k)' \/ \E q \in Requests : key'[q] = k /\ pc'[q] = "embed"
  BY <1>0, <1>1 DEF Single
<1>6. calls'[k] = 1 => \A q \in Requests : key'[q] = k => pc'[q] \notin Looking
  BY <1>0, <1>1 DEF Single
<1>7. calls'[k] <= 1
  BY DEF Single
<1> QED BY <1>2, <1>3, <1>4, <1>5, <1>6, <1>7 DEF Single

LEMMA SingleJoins ==
    ASSUME Flying, NEW k \in Keys, Single(k), NEW r \in Requests, Join(r)
    PROVE  Single(k)'
<1>1. PICK l \in Locks :
         /\ IF flights[key[r]] = None THEN Fresh(l) ELSE l = flights[key[r]]
         /\ flights' = [flights EXCEPT ![key[r]] = l]
         /\ lock' = [lock EXCEPT ![r] = l]
  BY DEF Join
<1>2. /\ pc[r] = "miss" /\ key' = key /\ calls' = calls /\ Cached(k)' = Cached(k)
      /\ key[r] \in Keys /\ lock[r] = None
  BY DEF Join, Flying, Placed, Outside, Cached
<1>3. /\ \A q \in Requests : /\ pc'[q] = IF q = r THEN "wait" ELSE pc[q]
                             /\ lock'[q] = IF q = r THEN l ELSE lock[q]
      /\ flights'[k] = IF k = key[r] THEN l ELSE flights[k]
  BY <1>1, <1>2 DEF Join, Goto, Flying, Placed
\* A lock is registered anew only when no request has one for this key.
<1>4. ASSUME NEW q \in Requests, q # r, key[q] = k, lock[q] = flights[k], lock[q] # None
      PROVE  lock'[q] = flights'[k]
  BY <1>1, <1>3, <1>4
<1>5. ~Cached(k)' => \A q \in Requests : key'[q] = k /\ lock'[q] # None => lock'[q] = flights'[k]
  BY <1>2, <1>3, <1>4 DEF Single
<1>6. ASSUME NEW q \in Requests, key'[q] = k, pc'[q] \in Inside
      PROVE  lock'[q] = flights'[k]
  <2>1. q # r /\ pc[q] \in Inside /\ pc[q] \notin Outside
    BY <1>3, <1>6 DEF Inside, Looking, Outside
  <2>2. key[q] = k /\ lock[q] # None /\ lock[q] = flights[k]
    BY <1>2, <1>6, <2>1 DEF Flying, Placed, Single
  <2> QED BY <1>4, <2>1, <2>2
<1>7. /\ \A q \in Requests : key'[q] = k /\ pc'[q] = "store" => Cached(k)'
      /\ calls'[k] <= 1
      /\ calls'[k] = 1 =>
            /\ Cached(k)' \/ \E q \in Requests : key'[q] = k /\ pc'[q] = "embed"
            /\ \A q \in Requests : key'[q] = k => pc'[q] \notin Looking
  BY <1>2, <1>3 DEF Single, Looking
<1> QED BY <1>5, <1>6, <1>7 DEF Single

LEMMA SingleLeaves ==
    ASSUME Flying, NEW k \in Keys, Single(k), NEW r \in Requests, pc[r] \notin Outside,
           First(r), Leave(r), calls'[k] = calls[k],
           Cached(k) => Cached(k)', key[r] = k => Cached(k)'
    PROVE  Single(k)'
<1>1. key[r] \in Keys /\ lock[r] \in Locks
  BY Distinct DEF Flying, Placed, Outside
<1>2. /\ \A q \in Requests : /\ pc'[q] = IF q = r THEN "idle" ELSE pc[q]
                             /\ key'[q] = IF q = r THEN None ELSE key[q]
                             /\ lock'[q] = IF q = r THEN None ELSE lock[q]
      /\ flights'[k] = IF k = key[r] /\ flights[k] = lock[r] THEN None ELSE flights[k]
  BY <1>1 DEF Leave, Goto, Unregister, Flying, Placed
<1>3. ~Cached(k)' => \A q \in Requests : key'[q] = k /\ lock'[q] # None => lock'[q] = flights'[k]
  BY <1>2 DEF Single
<1>4. ASSUME NEW q \in Requests, key'[q] = k, pc'[q] \in Inside
      PROVE  lock'[q] = flights'[k]
  <2>1. q # r /\ key[q] = k /\ pc[q] \in Inside
    BY <1>2, <1>4 DEF Inside, Looking
  <2>2. ~(k = key[r] /\ flights[k] = lock[r])
    BY <2>1, OneInside
  <2> QED BY <1>2, <2>1, <2>2 DEF Single
<1>5. \A q \in Requests : key'[q] = k /\ pc'[q] = "store" => Cached(k)'
  BY <1>2 DEF Single
<1>6. calls'[k] = 1 => Cached(k)' \/ \E q \in Requests : key'[q] = k /\ pc'[q] = "embed"
  BY <1>2 DEF Single
<1>7. calls'[k] = 1 => \A q \in Requests : key'[q] = k => pc'[q] \notin Looking
  BY <1>2 DEF Single, Looking
<1>8. calls'[k] <= 1
  BY DEF Single
<1> QED BY <1>3, <1>4, <1>5, <1>6, <1>7, <1>8 DEF Single

-----------------------------------------------------------------------------
(***************************************************************************)
(* Every step keeps it.                                                    *)
(***************************************************************************)
LEMMA Initially == Init => IInv
<1> SUFFICES ASSUME Init PROVE IInv
  OBVIOUS
<1>1. ToSet(<<>>) = {} /\ <<>> \in Seq(Requests) /\ <<>> \in Seq(Keys) /\ Len(<<>>) = 0
      /\ IsInjective(<<>>)
  BY EmptySeq DEF ToSet, IsInjective
<1>2. Placed
  BY DEF Init, Placed, Places, Outside
<1>3. Queues
  BY <1>1, Distinct DEF Init, Queues
<1>4. Remembered
  BY <1>1, FlightAssumption DEF Init, Remembered, FlightAssumption
<1>5. Holders /\ FlightsDrain
  BY DEF Init, Holders, FlightsDrain, Inside, Looking
<1>6. \A k \in Keys : Single(k)
  BY Distinct DEF Init, Single, Inside, Looking
<1> QED BY <1>2, <1>3, <1>4, <1>5, <1>6 DEF IInv, Flying

\* What the cache of a key outside disturbed' knew, it still knows.
LEMMA RememberedAfter ==
    ASSUME IInv, NEW k \in Keys, Hit(k) \/ Remember(k), UNCHANGED <<calls>>,
           redis' \subseteq Keys
    PROVE  /\ Remembered'
           /\ Cached(k)'
           /\ \A x \in Keys \ disturbed' : x \notin disturbed /\ (Cached(x) => Cached(x)')
<1>1. TypeOK
  BY TypeParts DEF IInv, Flying
<1> QED BY <1>1, MemoryAfter DEF IInv, Remembered

LEMMA AskKeeps ==
    ASSUME IInv, NEW r \in Requests, NEW k \in Keys, Ask(r, k) PROVE IInv'
<1>1. CASE Hit(k) /\ UNCHANGED <<pc, key>>
  <2>1. /\ Remembered'
        /\ \A x \in Keys \ disturbed' : x \notin disturbed /\ (Cached(x) => Cached(x)')
    BY <1>1, RememberedAfter DEF Ask, IInv, Remembered
  <2>2. Flying'
    BY <1>1 DEF Ask, IInv, Flying, Placed, Queues, Holders, First, FlightsDrain
  <2>3. ASSUME NEW x \in Keys \ disturbed' PROVE Single(x)'
    <3>1. Single(x) /\ (Cached(x) => Cached(x)')
      BY <2>1 DEF IInv
    <3> QED BY <1>1, <3>1 DEF Ask, Single
  <2> QED BY <2>1, <2>2, <2>3 DEF IInv
<1>2. CASE /\ ~Cached(k) /\ Goto(r, "cache") /\ key' = [key EXCEPT ![r] = k]
           /\ UNCHANGED <<memory, disturbed>>
  <2>1. pc[r] \in Outside /\ "cache" \in Outside
    BY DEF Ask, Outside
  <2>2. Flying'
    BY <1>2, <2>1, Turns, Distinct DEF Ask, IInv
  <2>3. ASSUME NEW x \in Keys \ disturbed' PROVE Single(x)'
    BY <1>2, <2>1, <2>3, SingleTurns DEF Ask, IInv, Cached
  <2> QED BY <1>2, <2>2, <2>3 DEF Ask, IInv, Remembered
<1> QED BY <1>1, <1>2 DEF Ask

LEMMA ServeKeeps ==
    ASSUME IInv, NEW r \in Requests, Serve(r) PROVE IInv'
<1>1. PICK p \in Places :
         /\ Goto(r, p) /\ p # "idle" /\ p # "store" /\ pc[r] # "idle" /\ pc[r] # "embed"
         /\ p \in Outside <=> pc[r] \in Outside
         /\ p \in Inside <=> pc[r] \in Inside
         /\ p \in Looking <=> pc[r] \in Looking
  <2>1. CASE pc[r] = "cache"
    BY <2>1 DEF Serve, Places, Outside, Inside, Looking
  <2>2. CASE pc[r] = "recheck"
    BY <2>2 DEF Serve, Places, Outside, Inside, Looking
  <2> QED BY <2>1, <2>2 DEF Serve
<1>2. Flying'
  BY <1>1, Moves DEF Serve, IInv, Flying, Holders
<1>3. ASSUME NEW k \in Keys \ disturbed' PROVE Single(k)'
  <2>1. Single(k) /\ calls'[k] = calls[k] /\ (Cached(k) => Cached(k)')
    BY DEF Serve, IInv, Cached
  <2>2. /\ key[r] = k /\ p \in Inside => lock[r] = flights[k]
        /\ key[r] = k /\ p \in Looking => calls[k] # 1
    BY <1>1, <2>1 DEF Single
  <2> QED BY <1>1, <2>1, <2>2, SingleMoves DEF Serve, IInv
<1> QED BY <1>2, <1>3 DEF Serve, IInv, Remembered

LEMMA AnsweredKeeps ==
    ASSUME IInv, NEW r \in Requests, Answered(r) PROVE IInv'
<1>1. /\ pc[r] \in Outside /\ "idle" \in Outside /\ key[r] \in Keys
      /\ Goto(r, "idle") /\ key' = [key EXCEPT ![r] = None]
      /\ UNCHANGED <<lock, flights, queue, redis, calls>>
  BY DEF Answered, Return, Outside, IInv, Flying, Placed
<1>2. Flying'
  BY <1>1, Turns DEF IInv
<1>3. /\ Remembered'
      /\ \A x \in Keys \ disturbed' : x \notin disturbed /\ (Cached(x) => Cached(x)')
  <2>1. CASE Remember(key[r])
    BY <1>1, <2>1, RememberedAfter DEF IInv, Remembered
  <2>2. CASE UNCHANGED <<memory, disturbed>>
    BY <1>1, <2>2 DEF IInv, Remembered, Cached
  <2> QED BY <2>1, <2>2 DEF Answered
<1>4. ASSUME NEW x \in Keys \ disturbed' PROVE Single(x)'
  <2>1. Single(x) /\ calls'[x] = calls[x] /\ (Cached(x) => Cached(x)')
    BY <1>1, <1>3 DEF IInv
  <2> QED BY <1>1, <2>1, SingleTurns DEF IInv
<1> QED BY <1>2, <1>3, <1>4 DEF IInv

LEMMA JoinKeeps ==
    ASSUME IInv, NEW r \in Requests, Join(r) PROVE IInv'
<1>1. Flying'
  BY Joins DEF IInv
<1>2. ASSUME NEW k \in Keys \ disturbed' PROVE Single(k)'
  BY SingleJoins DEF Join, IInv
<1> QED BY <1>1, <1>2 DEF Join, IInv, Remembered

\* Leaving the lock after a hit, after a value to remember, or with nothing
\* to remember, when the key is cached or disturbed.
LEMMA LeaveKeeps ==
    ASSUME IInv, NEW r \in Requests, pc[r] \notin Outside, First(r), Leave(r),
           UNCHANGED calls, redis' \subseteq Keys,
           \/ Hit(key[r]) \/ Remember(key[r])
           \/ /\ UNCHANGED memory /\ disturbed \subseteq disturbed' /\ disturbed' \subseteq Keys
              /\ key[r] \notin disturbed' => Cached(key[r])
    PROVE  IInv'
<1>1. PICK k \in Keys : key[r] = k
  BY DEF IInv, Flying, Placed, Outside
<1>2. Flying'
  BY Leaves DEF IInv
<1>3. /\ Remembered'
      /\ \A x \in Keys \ disturbed' : x \notin disturbed /\ (Cached(x) => Cached(x)')
      /\ k \notin disturbed' => Cached(k)'
  <2>1. CASE Hit(k) \/ Remember(k)
    BY <2>1, RememberedAfter
  <2>2. CASE /\ UNCHANGED memory /\ disturbed \subseteq disturbed' /\ disturbed' \subseteq Keys
             /\ k \notin disturbed' => Cached(k)
    BY <2>2 DEF IInv, Remembered, Cached
  <2> QED BY <1>1, <2>1, <2>2
<1>4. ASSUME NEW x \in Keys \ disturbed' PROVE Single(x)'
  <2>1. x \notin disturbed /\ (Cached(x) => Cached(x)')
    BY <1>3
  <2>2. key[r] = x => Cached(x)'
    BY <1>1, <1>3
  <2>3. Single(x) /\ calls'[x] = calls[x]
    BY <2>1 DEF IInv
  <2> QED BY <2>1, <2>2, <2>3, SingleLeaves DEF IInv
<1> QED BY <1>2, <1>3, <1>4 DEF IInv

LEMMA EnterKeeps ==
    ASSUME IInv, NEW r \in Requests, Enter(r) PROVE IInv'
<1>1. /\ pc[r] = "wait" /\ pc[r] \notin Outside /\ pc[r] \notin Inside
      /\ key[r] \in Keys /\ lock[r] \in Locks /\ lock[r] # None
  BY Distinct DEF Enter, IInv, Flying, Placed, Outside, Inside, Looking
<1>2. First(r)
  <2>1. r \in ToSet(queue[lock[r]])
    BY <1>1 DEF IInv, Flying, Queues
  <2>2. queue[lock[r]] # <<>>
    BY <2>1 DEF ToSet
  <2> QED BY <2>2 DEF Enter, First
<1>3. CASE Found(key[r])
  BY <1>1, <1>2, <1>3, LeaveKeeps DEF Enter, IInv, Remembered
<1>4. CASE ~Found(key[r])
  <2>1. /\ Goto(r, "recheck") /\ ~Cached(key[r])
        /\ UNCHANGED <<key, lock, memory, flights, queue, disturbed, redis, calls>>
    BY <1>4 DEF Enter, Found
  <2>2. "recheck" \in Inside /\ "recheck" \notin Outside /\ "recheck" \in Places
    BY DEF Inside, Looking, Outside, Places
  <2>3. Flying'
    BY <1>1, <1>2, <2>1, <2>2, Moves DEF IInv
  <2>4. ASSUME NEW k \in Keys \ disturbed' PROVE Single(k)'
    <3>1. Single(k) /\ calls'[k] = calls[k] /\ (Cached(k) => Cached(k)')
      BY <2>1 DEF IInv, Cached
    <3>2. key[r] = k => lock[r] = flights[k]
      BY <1>1, <2>1, <3>1 DEF Single
    <3>3. key[r] = k => calls[k] # 1
      <4> SUFFICES ASSUME key[r] = k, calls[k] = 1 PROVE FALSE
        OBVIOUS
      <4>1. PICK q \in Requests : key[q] = k /\ pc[q] = "embed"
        BY <2>1, <3>1 DEF Single
      <4>2. q = r
        BY <1>2, <3>1, <3>2, <4>1, OneInside DEF IInv, Inside
      <4> QED BY <1>1, <4>1, <4>2
    <3> QED BY <1>1, <2>1, <2>2, <3>1, <3>2, <3>3, SingleMoves DEF IInv
  <2> QED BY <2>1, <2>3, <2>4 DEF IInv, Remembered
<1> QED BY <1>3, <1>4

LEMMA RecheckKeeps ==
    ASSUME IInv, NEW r \in Requests, Recheck(r) PROVE IInv'
<1>1. /\ pc[r] \in Looking /\ pc[r] \in Inside /\ pc[r] \notin Outside
      /\ key[r] \in Keys /\ First(r)
  BY DEF Recheck, IInv, Flying, Placed, Holders, Outside, Inside, Looking
<1>2. CASE Remember(key[r]) /\ Leave(r) /\ UNCHANGED calls
  BY <1>1, <1>2, LeaveKeeps DEF Recheck, IInv, Remembered
<1>3. CASE /\ Leave(r) /\ disturbed' = disturbed \cup {key[r]}
           /\ UNCHANGED <<memory, calls>>
  BY <1>1, <1>3, LeaveKeeps DEF Recheck, IInv, Remembered
<1>4. CASE /\ pc[r] = "remiss" /\ Goto(r, "embed")
           /\ calls' = [calls EXCEPT ![key[r]] = IF @ < 2 THEN @ + 1 ELSE @]
           /\ UNCHANGED <<key, lock, memory, flights, queue, disturbed>>
  <2>1. Flying'
    BY <1>1, <1>4, Moves DEF IInv, Places, Outside, Inside, Looking
  <2>2. Remembered'
    <3>1. calls[key[r]] \in 0 .. 2
      BY <1>1 DEF IInv, Remembered
    <3>2. (IF calls[key[r]] < 2 THEN calls[key[r]] + 1 ELSE calls[key[r]]) \in 0 .. 2
      BY <3>1
    <3> QED BY <1>4, <3>2 DEF Recheck, IInv, Remembered
  <2>3. ASSUME NEW k \in Keys \ disturbed' PROVE Single(k)'
    <3>1. Single(k) /\ Cached(k)' = Cached(k)
      BY <1>4 DEF IInv, Cached
    <3>2. CASE key[r] # k
      <4>1. calls'[k] = calls[k]
        BY <1>4, <3>2
      <4> QED BY <1>4, <3>1, <3>2, <4>1, SingleMoves DEF IInv, Places
    <3>3. CASE key[r] = k
      \* It is the first: had it been computed, nobody would be looking.
      <4>1. calls[k] = 0 /\ calls'[k] = 1
        <5>1. calls[k] \in 0 .. 2 /\ calls[k] <= 1 /\ calls[k] # 1
          BY <1>1, <3>1, <3>3 DEF IInv, Remembered, Single
        <5> QED BY <1>4, <3>3, <5>1 DEF IInv, Remembered
      <4>2. \A q \in Requests : pc'[q] = IF q = r THEN "embed" ELSE pc[q]
        BY <1>4 DEF Goto, IInv, Flying, Placed
      <4>3. lock[r] = flights[k]
        BY <1>1, <3>1, <3>3 DEF Single
      <4>4. ASSUME NEW q \in Requests, key'[q] = k PROVE pc'[q] \notin Looking
        <5>1. CASE q = r
          BY <4>2, <5>1 DEF Looking
        <5>2. CASE q # r
          <6>1. pc[q] \notin Inside
            BY <1>1, <1>4, <3>1, <3>3, <4>3, <4>4, <5>2, OneInside DEF IInv
          <6> QED BY <4>2, <5>2, <6>1 DEF Inside
        <5> QED BY <5>1, <5>2
      <4>5. ~Cached(k)' => \A q \in Requests : key'[q] = k /\ lock'[q] # None => lock'[q] = flights'[k]
        BY <1>4, <3>1 DEF Single
      <4>6. \A q \in Requests : key'[q] = k /\ pc'[q] \in Inside => lock'[q] = flights'[k]
        BY <1>4, <3>1, <4>2, <4>3 DEF Single
      <4>7. \A q \in Requests : key'[q] = k /\ pc'[q] = "store" => Cached(k)'
        BY <1>4, <3>1, <4>2 DEF Single
      <4>8. \E q \in Requests : key'[q] = k /\ pc'[q] = "embed"
        BY <1>4, <3>3, <4>2
      <4> QED BY <4>1, <4>4, <4>5, <4>6, <4>7, <4>8 DEF Single
    <3> QED BY <3>2, <3>3
  <2> QED BY <2>1, <2>2, <2>3 DEF IInv
<1> QED BY <1>2, <1>3, <1>4 DEF Recheck

LEMMA EmbedKeeps ==
    ASSUME IInv, NEW r \in Requests, Embed(r) PROVE IInv'
<1>1. /\ pc[r] = "embed" /\ pc[r] \in Inside /\ pc[r] \notin Outside
      /\ key[r] \in Keys /\ First(r) /\ UNCHANGED <<redis, calls>>
  BY DEF Embed, IInv, Flying, Placed, Holders, Outside, Inside, Looking
<1>2. CASE /\ Remember(key[r]) /\ Goto(r, "store")
           /\ UNCHANGED <<key, lock, flights, queue>>
  <2>1. "store" \in Places /\ "store" \in Inside /\ "store" \notin Outside /\ "store" \notin Looking
    BY DEF Places, Inside, Outside, Looking
  <2>2. Flying'
    BY <1>1, <1>2, <2>1, Moves DEF IInv
  <2> PICK x \in Keys : x = key[r]
    BY <1>1
  <2>3. /\ Remembered' /\ Cached(x)'
        /\ \A k \in Keys \ disturbed' : k \notin disturbed /\ (Cached(k) => Cached(k)')
    BY <1>1, <1>2, RememberedAfter DEF IInv, Remembered
  <2>4. ASSUME NEW k \in Keys \ disturbed' PROVE Single(k)'
    <3>1. k \notin disturbed /\ (Cached(k) => Cached(k)')
      BY <2>3
    <3>2. Single(k) /\ calls'[k] = calls[k]
      BY <1>1, <3>1 DEF IInv
    <3>3. key[r] = k => Cached(k)'
      BY <2>3
    <3>4. key[r] = k => lock[r] = flights[k]
      BY <1>1, <3>2 DEF Single
    <3> QED BY <1>2, <2>1, <3>1, <3>2, <3>3, <3>4, SingleMoves DEF IInv
  <2> QED BY <2>2, <2>3, <2>4 DEF IInv
<1>3. CASE Leave(r) /\ disturbed' = disturbed \cup {key[r]} /\ UNCHANGED memory
  BY <1>1, <1>3, LeaveKeeps DEF IInv, Remembered
<1> QED BY <1>2, <1>3 DEF Embed

LEMMA StoreKeeps ==
    ASSUME IInv, NEW r \in Requests, Store(r) PROVE IInv'
<1>1. /\ pc[r] = "store" /\ pc[r] \notin Outside /\ key[r] \in Keys /\ First(r)
  BY DEF Store, IInv, Flying, Placed, Holders, Outside, Inside, Looking
<1>2. key[r] \notin disturbed => Cached(key[r])
  BY <1>1 DEF IInv, Single
<1>3. redis' \subseteq Keys /\ disturbed \subseteq Keys
  BY <1>1 DEF Store, IInv, Remembered
<1> QED BY <1>1, <1>2, <1>3, LeaveKeeps DEF Store

LEMMA ElsewhereKeeps ==
    ASSUME IInv, NEW k \in Keys, Elsewhere(k) PROVE IInv'
<1>1. Flying'
  BY DEF Elsewhere, IInv, Flying, Placed, Queues, Holders, First, FlightsDrain
<1>2. Remembered'
  BY DEF Elsewhere, IInv, Remembered
<1>3. \A x \in Keys \ disturbed' : Single(x)'
  BY DEF Elsewhere, IInv, Single, Cached
<1> QED BY <1>1, <1>2, <1>3 DEF IInv

LEMMA StutterKeeps == ASSUME IInv, UNCHANGED vars PROVE IInv'
<1>1. Flying'
  BY DEF vars, IInv, Flying, Placed, Queues, Holders, First, FlightsDrain
<1>2. Remembered'
  BY DEF vars, IInv, Remembered
<1>3. \A x \in Keys \ disturbed' : Single(x)'
  BY DEF vars, IInv, Single, Cached
<1> QED BY <1>1, <1>2, <1>3 DEF IInv

LEMMA Inductive == IInv /\ [Next]_vars => IInv'
<1> SUFFICES ASSUME IInv, [Next]_vars PROVE IInv'
  OBVIOUS
<1>1. ASSUME NEW r \in Requests, Proceed(r) PROVE IInv'
  BY <1>1, ServeKeeps, AnsweredKeeps, JoinKeeps, EnterKeeps, RecheckKeeps, EmbedKeeps,
     StoreKeeps DEF Proceed
<1>2. ASSUME NEW r \in Requests, NEW k \in Keys, Ask(r, k) PROVE IInv'
  BY <1>2, AskKeeps
<1>3. ASSUME NEW k \in Keys, Elsewhere(k) PROVE IInv'
  BY <1>3, ElsewhereKeeps
<1>4. CASE UNCHANGED vars
  BY <1>4, StutterKeeps
<1> QED BY <1>1, <1>2, <1>3, <1>4 DEF Next

LEMMA Invariance == Spec => []IInv
  BY Initially, Inductive, PTL DEF Spec

-----------------------------------------------------------------------------
(***************************************************************************)
(* The types, and that the cache never exceeds its capacity and holds each *)
(* key once, and that the queues of the locks hold who asked for them.     *)
(***************************************************************************)
THEOREM TypeCorrect == Spec => []TypeOK
<1>1. IInv => TypeOK
  BY TypeParts DEF IInv, Flying
<1> QED BY <1>1, Invariance, PTL

(***************************************************************************)
(* However the requests for one embedding interleave, and whatever Redis   *)
(* answers, loses or gets from other processes, it is computed at most     *)
(* once until it is evicted or a flight for it fails: the lock and the     *)
(* second look inside it in _query_embedding_with_metadata.                *)
(***************************************************************************)
THEOREM ComputedOnce == Spec => []EmbeddedOnce
<1>1. IInv => EmbeddedOnce
  BY DEF IInv, Single, EmbeddedOnce
<1> QED BY <1>1, Invariance, PTL

(***************************************************************************)
(* A registered flight has a request under way: the dictionary never keeps *)
(* the lock of a query that is over.                                       *)
(***************************************************************************)
THEOREM FlightsAreInUse == Spec => []FlightsDrain
<1>1. IInv => FlightsDrain
  BY DEF IInv, Flying
<1> QED BY <1>1, Invariance, PTL
=============================================================================
