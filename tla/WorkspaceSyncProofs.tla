------------------------ MODULE WorkspaceSyncProofs ------------------------
(***************************************************************************)
(* Proofs about WorkspaceSync for any number of jobs, services and items,  *)
(* every page size, limit, expiry and lateness: no change is forgotten, no *)
(* item goes back to an older version while the lock is renewed, and       *)
(* readers of the index see what IndexContract says.                       *)
(*                                                                         *)
(* The argument follows an attempt from its listing to its commit.  What   *)
(* the attempt has in hand (page, item, transaction) is what the provider  *)
(* has, unless the provider changed it meanwhile (during); what it does    *)
(* not have in hand, and has no more page to find in, was cut off or is    *)
(* already in the index.  That only one job is at work while renewals      *)
(* succeed comes from the lock, which is proved first about by itself.     *)
(***************************************************************************)
EXTENDS WorkspaceSync, FiniteSetTheorems, TLAPS

\* The record of an attempt fits its place in the code, and it has nothing
\* before it begins.
Placed(w) ==
    /\ w \in Work
    /\ w.during \cup Counted(w) \cup DOMAIN w.page \subseteq w.window
    /\ w.held # <<>> => w.held[1] \in DOMAIN w.page /\ w.step = "items"
    /\ w.step = "find" => w = At(w.at)
    /\ w.step # "find" => w.at > 0 /\ w.window \subseteq Of(Services[w.at])
    /\ w.step \in {"list", "items", "close"} => row[Services[w.at]].status # "missing"

\* What an attempt has in hand is a version the item had.
Bounds(w) ==
    /\ \A i \in DOMAIN w.page : w.page[i] <= source[i]
    /\ \A i \in DOMAIN w.got : w.got[i] <= source[i]
    /\ w.held # <<>> => w.held[2] <= source[w.held[1]]

\* It is the current version, or the item changed during the attempt.
Fresh(w) ==
    /\ \A i \in DOMAIN w.page : w.page[i] = source[i] \/ i \in w.during
    /\ \A i \in DOMAIN w.got : w.got[i] = source[i] \/ i \in w.during
    /\ w.held # <<>> => w.held[2] = source[w.held[1]] \/ w.held[1] \in w.during

\* A matching item it will not get was cut off or changed during the attempt,
\* and what a since filter leaves out is indexed or missed; whatever the next
\* attempt would list is in the window.
Exhausted(w) ==
    /\ w.step = "items" /\ ~w.more
          => w.window \cap Live \subseteq Counted(w) \cup DOMAIN w.page \cup w.during
    /\ w.step = "close"
          => w.window \cap Live \subseteq Counted(w) \cup CutOff(w) \cup w.during
Outside(w) ==
    w.step # "find" /\ Services[w.at] \in Incremental =>
        \A i \in Live : ServiceOf[i] = Services[w.at] /\ i \notin w.window
                            => i \in missed \/ index[i] = source[i]
Covers(w) ==
    w.step # "find" /\ Services[w.at] \in Incremental
        => Window(Services[w.at]) \subseteq w.window

Sound(w) == /\ Placed(w) /\ Bounds(w) /\ Fresh(w) /\ Exhausted(w)
            /\ Outside(w) /\ Covers(w)

IInv == /\ TypeOK
        /\ \A i \in Items : index[i] <= source[i]
        /\ \A j \in Jobs : Sound(work[j])
        /\ ChangesStayListed

-----------------------------------------------------------------------------
(***************************************************************************)
(* Data.                                                                   *)
(***************************************************************************)
LEMMA InVersions ==
    ASSUME NEW S \in SUBSET Items, NEW f \in [S -> 1 .. MaxVersion]
    PROVE  f \in Versions /\ DOMAIN f = S
  BY DEF Versions

LEMMA VersionsAre ==
    ASSUME NEW f \in Versions
    PROVE  DOMAIN f \subseteq Items /\ \A i \in DOMAIN f : f[i] \in 1 .. MaxVersion
  BY DEF Versions

LEMMA NoneIsVersions == None \in Versions /\ DOMAIN None = {}
<1>1. None \in [{} -> 1 .. MaxVersion] BY DEF None
<1> QED BY <1>1, InVersions

\* The services are visited in a sequence with at least one member.
LEMMA Visited ==
    /\ Len(Services) \in Nat /\ Len(Services) >= 1
    /\ \A n \in 1 .. Len(Services) : Services[n] \in Range(Services)
  BY SyncAssumption DEF SyncAssumption, Range

\* An attempt that has not begun is sound.
LEMMA NewAttempt ==
    ASSUME NEW n \in 0 .. Len(Services) PROVE Sound(At(n)) /\ At(n).at = n
<1> DEFINE w == At(n)
<1>1. /\ w.at = n /\ w.step = "find" /\ w.during = {} /\ w.window = {}
      /\ w.page = None /\ w.got = None /\ w.held = <<>> /\ w.more = TRUE
      /\ w.absent = FALSE
  BY DEF At
<1>2. w \in Work
  BY NoneIsVersions, Visited DEF At, Work
<1>3. Placed(w)
  <2>1. w = At(w.at) BY <1>1
  <2> HIDE DEF w
  <2> QED BY <1>1, <1>2, <2>1, NoneIsVersions DEF Placed, Counted
<1> HIDE DEF w
<1>4. Bounds(w) /\ Fresh(w) /\ Exhausted(w) /\ Outside(w) /\ Covers(w)
  BY <1>1, NoneIsVersions DEF Bounds, Fresh, Exhausted, Outside, Covers
<1>5. Sound(w) /\ w.at = n
  BY <1>1, <1>3, <1>4 DEF Sound
<1> QED BY <1>5 DEF w

\* What a step of a job leaves of the data the other attempts rely on.
Retains ==
    /\ UNCHANGED <<source, gone>>
    /\ \A s \in Range(Services) : row[s].status # "missing" => row'[s].status # "missing"
    /\ \A i \in Items : i \in missed \/ index[i] = source[i]
                         => i \in missed' \/ index'[i] = source[i]
    /\ \A s \in Incremental : Window(s)' \subseteq Window(s)

LEMMA SoundStays ==
    ASSUME NEW w, Sound(w), Retains PROVE Sound(w)'
<1>1. w.step # "find" => Services[w.at] \in Range(Services)
  BY Visited DEF Sound, Placed, Work
<1>2. Placed(w)'
  BY <1>1 DEF Sound, Placed, Retains, Counted, Of, At
<1>3. Bounds(w)' /\ Fresh(w)' /\ Exhausted(w)'
  BY DEF Sound, Bounds, Fresh, Exhausted, Retains, Live, CutOff, Room, Counted
<1>4. Outside(w)'
  BY DEF Sound, Outside, Retains, Live
<1>5. Covers(w)'
  <2> SUFFICES ASSUME w.step # "find", Services[w.at] \in Incremental
               PROVE  Window(Services[w.at])' \subseteq w.window
    BY DEF Covers
  <2> QED BY DEF Sound, Covers, Retains
<1> QED BY <1>2, <1>3, <1>4, <1>5 DEF Sound

LEMMA JobsStay ==
    ASSUME IInv, Retains, NEW j \in Jobs, NEW w, Sound(w)', Set(j, w)
    PROVE  /\ work' \in [Jobs -> Work] /\ work'[j] = w
           /\ \A k \in Jobs \ {j} : work'[k] = work[k]
           /\ \A k \in Jobs : Sound(work[k])'
<1>1. work' \in [Jobs -> Work] /\ work'[j] = w
      /\ \A k \in Jobs \ {j} : work'[k] = work[k]
  BY DEF Set, IInv, TypeOK, Sound, Placed
<1>2. ASSUME NEW k \in Jobs PROVE Sound(work[k])'
  <2>1. PICK v : v = work'[k] OBVIOUS
  <2>2. Sound(v)'
    <3>1. CASE k = j
      BY <1>1, <2>1, <3>1
    <3>2. CASE k # j
      BY <1>1, <2>1, <3>2, SoundStays DEF IInv
    <3> QED BY <3>1, <3>2
  <2> QED
    BY <2>1, <2>2 DEF Sound, Placed, Bounds, Fresh, Exhausted, Outside, Covers, CutOff,
                      Room, Counted, Live, Window
<1> QED BY <1>1, <1>2

\* The places of the jobs in SyncLock and in their attempts agree.
Elsewhere(j) ==
    /\ pc' \in [Jobs -> Places]
    /\ \A k \in Jobs \ {j} : pc'[k] = "syncing" <=> pc[k] = "syncing"

LEMMA TypeStays ==
    ASSUME IInv, Retains, NEW j \in Jobs, NEW w, Sound(w)', Set(j, w), Elsewhere(j),
           w.at > 0 <=> pc'[j] = "syncing",
           index' \in [Items -> 0 .. MaxVersion],
           listed' \subseteq Items, missed' \subseteq Items,
           row' \in [Range(Services) -> Row],
           \A s \in Range(Services) :
              /\ row'[s].success => row'[s].status # "missing"
              /\ row'[s].status = "completed" => row'[s].success,
           faults' \in 0 .. MaxTroubles, unrenewed' \in BOOLEAN
    PROVE  TypeOK' /\ \A k \in Jobs : Sound(work[k])'
<1>1. /\ work' \in [Jobs -> Work] /\ work'[j] = w
      /\ \A k \in Jobs \ {j} : work'[k] = work[k]
      /\ \A k \in Jobs : Sound(work[k])'
  BY JobsStay
<1>2. \A k \in Jobs : work'[k].at > 0 <=> pc'[k] = "syncing"
  BY <1>1 DEF Elsewhere, IInv, TypeOK
<1>3. \A k \in Jobs :
         /\ work'[k].during \cup Counted(work'[k]) \cup DOMAIN work'[k].page
               \subseteq work'[k].window
         /\ work'[k].held # <<>> => work'[k].held[1] \in DOMAIN work'[k].page
  BY <1>1 DEF Sound, Placed, Counted
<1>4. TypeOK'
  BY <1>1, <1>2, <1>3 DEF IInv, TypeOK, Elsewhere, Retains, Counted
<1> QED BY <1>1, <1>4

(***************************************************************************)
(* A step that changes nothing but one attempt.                            *)
(***************************************************************************)
LEMMA OneAttempt ==
    ASSUME IInv, NEW j \in Jobs, NEW w, Sound(w), Set(j, w), Elsewhere(j),
           UNCHANGED <<source, gone, listed, index, row, missed>>,
           w.at > 0 <=> pc'[j] = "syncing",
           faults' \in 0 .. MaxTroubles, unrenewed' \in BOOLEAN
    PROVE  IInv'
<1>1. Retains
  BY DEF Retains, Window
<1>2. TypeOK' /\ \A k \in Jobs : Sound(work[k])'
  BY <1>1, SoundStays, TypeStays DEF IInv, TypeOK
<1>3. (\A i \in Items : index[i] <= source[i])' /\ ChangesStayListed'
  BY DEF IInv, ChangesStayListed, Live
<1> QED BY <1>2, <1>3 DEF IInv

-----------------------------------------------------------------------------
(***************************************************************************)
(* The steps of an attempt before its commit.                              *)
(***************************************************************************)

\* What an attempt lists with a timestamp leaves out only what the index has,
\* or what was missed.
LEMMA FindKeeps ==
    ASSUME IInv, NEW j \in Jobs, Find(j) PROVE IInv'
<1> DEFINE w == work[j]
           s == Services[w.at]
           v == [w EXCEPT !.step = "open", !.absent = row[s].status = "missing",
                          !.window = Window(s)]
<1>1. w \in Work /\ w.at > 0 /\ w.step = "find" /\ w = At(w.at)
  BY DEF Find, IInv, Sound, Placed
<1>2. w.during = {} /\ w.page = None /\ w.got = None /\ w.held = <<>>
  BY <1>1 DEF At
<1>3. s \in Range(Services)
  BY <1>1, Visited DEF Work
<1>4. Window(s) \subseteq Of(s) /\ Of(s) \subseteq Items
  BY DEF Window, Of
<1>5. Set(j, v) /\ UNCHANGED <<source, gone, listed, index, row, missed, pc, faults, unrenewed>>
  BY DEF Find, Service
<1> HIDE DEF w
<1>6. /\ v \in Work /\ v.at = w.at /\ v.step = "open" /\ v.window = Window(s)
      /\ v.during = {} /\ v.page = None /\ v.got = None /\ v.held = <<>>
  BY <1>1, <1>2, <1>4 DEF Work
<1> HIDE DEF v, s
<1>7. Placed(v)
  BY <1>1, <1>4, <1>6, NoneIsVersions DEF Placed, Counted, s
<1>8. Bounds(v) /\ Fresh(v) /\ Exhausted(v)
  BY <1>6, NoneIsVersions DEF Bounds, Fresh, Exhausted
<1>9. Outside(v) /\ Covers(v)
  <2> SUFFICES ASSUME NEW i \in Live, ServiceOf[i] = s, i \notin Window(s), s \in Incremental
               PROVE  i \in missed \/ index[i] = source[i]
    BY <1>6 DEF Outside, Covers, s
  <2>1. i \in Items /\ i \in Of(s)
    BY DEF Live, Of
  <2>2. row[s].success /\ i \notin listed
    BY <2>1 DEF Window
  <2> QED BY <2>2 DEF IInv, ChangesStayListed
<1>10. IInv'
  <2>1. v.at > 0 <=> pc[j] = "syncing"
    BY <1>6, <1>1 DEF IInv, TypeOK, w
  <2>2. Sound(v)
    BY <1>7, <1>8, <1>9 DEF Sound
  <2> QED BY <1>5, <2>1, <2>2, OneAttempt DEF IInv, TypeOK, Elsewhere
<1> QED BY <1>10

\* A page holds current versions, and it is the last one when it holds all
\* that match.
LEMMA ListKeeps ==
    ASSUME IInv, NEW j \in Jobs, List(j) PROVE IInv'
<1> DEFINE w == work[j]
           matching == (w.window \cap Live) \ Counted(w)
<1>1. Placed(w) /\ Bounds(w) /\ Fresh(w) /\ Outside(w) /\ Covers(w) /\ w.step = "list" /\ w.held = <<>>
  BY DEF List, IInv, Sound, Placed
<1>2. PICK P \in SUBSET matching :
         /\ P = {} => matching = {}
         /\ Set(j, [w EXCEPT !.page = [i \in P |-> source[i]], !.more = P # matching,
                             !.step = IF P = {} THEN "close" ELSE "items"])
  BY DEF List
<1> DEFINE v == [w EXCEPT !.page = [i \in P |-> source[i]], !.more = P # matching,
                          !.step = IF P = {} THEN "close" ELSE "items"]
<1>3. UNCHANGED <<source, gone, listed, index, row, missed, pc, faults, unrenewed>>
  BY DEF List
<1>4. P \subseteq w.window /\ P \subseteq Items
      /\ \A i \in P : source[i] \in 1 .. MaxVersion
  BY SyncAssumption DEF Live, IInv, TypeOK, SyncAssumption
<1>5. [i \in P |-> source[i]] \in Versions
  BY <1>4, InVersions
<1>6. w.at > 0 <=> pc[j] = "syncing"
  BY DEF IInv, TypeOK
<1> HIDE DEF w
<1>7. /\ v \in Work /\ v.at = w.at /\ v.window = w.window /\ v.during = w.during
      /\ v.got = w.got /\ v.held = <<>> /\ v.page = [i \in P |-> source[i]]
      /\ v.more = (P # matching) /\ v.step = IF P = {} THEN "close" ELSE "items"
  BY <1>1, <1>5 DEF Placed, Work
<1> HIDE DEF v
<1>8. Placed(v)
  BY <1>1, <1>4, <1>7 DEF Placed, Counted
<1>9. Bounds(v) /\ Fresh(v)
  BY <1>1, <1>4, <1>7 DEF Bounds, Fresh, IInv, TypeOK
<1>10. Exhausted(v)
  BY <1>2, <1>7 DEF Exhausted, Counted
<1>11. Outside(v) /\ Covers(v)
  BY <1>1, <1>7 DEF Outside, Covers
<1>12. Sound(v) /\ Set(j, v) /\ (v.at > 0 <=> pc[j] = "syncing")
  BY <1>2, <1>6, <1>7, <1>8, <1>9, <1>10, <1>11 DEF Sound, v
<1> QED BY <1>3, <1>12, OneAttempt DEF IInv, TypeOK, Elsewhere

\* An item in hand has the version of the page or the one the provider has now.
LEMMA GetKeeps ==
    ASSUME IInv, NEW j \in Jobs, NEW i \in Items, Get(j, i) PROVE IInv'
<1> DEFINE w == work[j]
<1>1. Sound(w) /\ w.step = "items" /\ w.held = <<>> /\ i \in DOMAIN w.page
  BY DEF Get, IInv
<1>2. PICK x \in {w.page[i], source[i]} : Set(j, [w EXCEPT !.held = <<i, x>>])
  <2>1. PICK r \in Reads[i] :
           Set(j, [w EXCEPT !.held = <<i, IF r = "page" THEN w.page[i] ELSE source[i]>>])
    BY DEF Get
  <2> QED BY <2>1
<1> DEFINE v == [w EXCEPT !.held = <<i, x>>]
<1>3. UNCHANGED <<source, gone, listed, index, row, missed, pc, faults, unrenewed>>
  BY DEF Get
<1>4. w.at > 0 <=> pc[j] = "syncing"
  BY DEF IInv, TypeOK
<1>5. /\ w.page[i] \in 1 .. MaxVersion /\ w.page[i] <= source[i]
      /\ w.page[i] = source[i] \/ i \in w.during
  BY <1>1, VersionsAre DEF Sound, Placed, Work, Bounds, Fresh
<1>6. x \in 1 .. MaxVersion /\ x <= source[i] /\ (x = source[i] \/ i \in w.during)
  BY <1>5, SyncAssumption DEF IInv, TypeOK, SyncAssumption
<1> HIDE DEF w
<1>7. /\ v \in Work /\ v.at = w.at /\ v.window = w.window /\ v.during = w.during
      /\ v.got = w.got /\ v.page = w.page /\ v.more = w.more /\ v.step = "items"
      /\ v.held[1] = i /\ v.held[2] = x
  BY <1>1, <1>6 DEF Sound, Placed, Work
<1> HIDE DEF v
<1>8. Placed(v)
  BY <1>1, <1>7 DEF Sound, Placed, Counted
<1>9. Bounds(v) /\ Fresh(v)
  BY <1>1, <1>6, <1>7 DEF Sound, Bounds, Fresh
<1>10. Exhausted(v) /\ Outside(v) /\ Covers(v)
  BY <1>1, <1>7 DEF Sound, Exhausted, Outside, Covers, Counted
<1>11. Sound(v) /\ Set(j, v) /\ (v.at > 0 <=> pc[j] = "syncing")
  BY <1>2, <1>4, <1>7, <1>8, <1>9, <1>10 DEF Sound, v
<1> QED BY <1>3, <1>11, OneAttempt DEF IInv, TypeOK, Elsewhere

\* An item moves from the page into the transaction; with the last item of the
\* last page, or at the limit, the listing ends.
LEMMA UpsertKeeps ==
    ASSUME IInv, NEW j \in Jobs, Upsert(j) PROVE IInv'
<1> DEFINE w == work[j]
           i == w.held[1]
           page == Restrict(w.page, DOMAIN w.page \ {i})
           got == [k \in DOMAIN w.got \cup {i} |-> IF k = i THEN w.held[2] ELSE w.got[k]]
           u == [w EXCEPT !.held = <<>>, !.page = page, !.got = got]
           v == [u EXCEPT !.step = NextStep(u)]
<1>1. Sound(w) /\ w.step = "items" /\ w.held # <<>> /\ i \in DOMAIN w.page
  BY DEF Upsert, IInv, Sound, Placed
<1>2. Set(j, v)
  BY DEF Upsert
<1>3. UNCHANGED <<source, gone, listed, index, row, missed, pc, faults, unrenewed>>
  BY DEF Upsert
<1>4. w.at > 0 <=> pc[j] = "syncing"
  BY DEF IInv, TypeOK
<1> HIDE DEF w
<1>5. /\ DOMAIN w.page \subseteq Items /\ (\A k \in DOMAIN w.page : w.page[k] \in 1 .. MaxVersion)
      /\ DOMAIN w.got \subseteq Items /\ (\A k \in DOMAIN w.got : w.got[k] \in 1 .. MaxVersion)
      /\ w.held[2] \in 1 .. MaxVersion
  BY <1>1, VersionsAre DEF Sound, Placed, Work
<1>6. page \in Versions /\ DOMAIN page = DOMAIN w.page \ {i}
      /\ \A k \in DOMAIN page : page[k] = w.page[k]
  BY <1>5, InVersions DEF Restrict
<1>7. got \in Versions /\ DOMAIN got = DOMAIN w.got \cup {i} /\ got[i] = w.held[2]
      /\ \A k \in DOMAIN w.got : k # i => got[k] = w.got[k]
  <2>1. got \in [DOMAIN w.got \cup {i} -> 1 .. MaxVersion]
    BY <1>5
  <2>2. DOMAIN w.got \cup {i} \in SUBSET Items
    BY <1>1, <1>5
  <2> HIDE DEF got
  <2>3. got \in Versions /\ DOMAIN got = DOMAIN w.got \cup {i}
    BY <2>1, <2>2, InVersions
  <2> QED BY <2>3 DEF got
<1> HIDE DEF page, got, i
<1>8. /\ u \in Work /\ u.at = w.at /\ u.window = w.window /\ u.during = w.during
      /\ u.got = got /\ u.page = page /\ u.more = w.more /\ u.held = <<>>
  BY <1>1, <1>6, <1>7 DEF Sound, Placed, Work
<1> HIDE DEF u
<1>9. NextStep(u) \in {"close", "items", "list"}
  BY DEF NextStep
<1>10. /\ v \in Work /\ v.at = w.at /\ v.window = w.window /\ v.during = w.during
       /\ v.got = got /\ v.page = page /\ v.more = w.more /\ v.held = <<>>
       /\ v.step = NextStep(u)
  BY <1>8, <1>9 DEF Work
<1> HIDE DEF v
<1>11. Placed(v)
  BY <1>1, <1>6, <1>7, <1>9, <1>10 DEF Sound, Placed, Counted
<1>12. Bounds(v) /\ Fresh(v)
  BY <1>1, <1>6, <1>7, <1>10 DEF Sound, Bounds, Fresh, i
<1>13. Exhausted(v)
  <2>1. ~w.more => w.window \cap Live \subseteq Counted(w) \cup DOMAIN w.page \cup w.during
    BY <1>1 DEF Sound, Exhausted
  <2>2. Counted(v) = Counted(w) \cup {i} /\ DOMAIN v.page = DOMAIN w.page \ {i}
    BY <1>6, <1>7, <1>10 DEF Counted
  <2>3. ~v.more => v.window \cap Live \subseteq Counted(v) \cup DOMAIN v.page \cup v.during
    BY <1>10, <2>1, <2>2
  <2>4. Room(v) = Room(u)
    BY <1>8, <1>10 DEF Room, Counted
  <2>5. CASE Room(u) = 0
    <3>1. CutOff(v) = v.window \ Counted(v) /\ v.step = "close"
      BY <1>10, <2>4, <2>5 DEF CutOff, NextStep
    <3> QED BY <3>1 DEF Exhausted
  <2>6. CASE Room(u) # 0
    BY <1>8, <1>10, <2>3, <2>6 DEF NextStep, Exhausted
  <2> QED BY <2>5, <2>6
<1>14. Outside(v) /\ Covers(v)
  BY <1>1, <1>10 DEF Sound, Outside, Covers
<1>15. Sound(v) /\ (v.at > 0 <=> pc[j] = "syncing")
  BY <1>4, <1>10, <1>11, <1>12, <1>13, <1>14 DEF Sound
<1> QED BY <1>2, <1>3, <1>15, OneAttempt DEF IInv, TypeOK, Elsewhere

-----------------------------------------------------------------------------
(***************************************************************************)
(* The steps that write the row of a service, end an attempt or a job.     *)
(***************************************************************************)

\* Failures are counted up to their bound.
LEMMA FaultsBounded ==
    ASSUME IInv, Fault PROVE faults' \in 0 .. MaxTroubles
<1>1. Cardinality(gone) \in Nat
  BY SyncAssumption, FS_Subset, FS_CardinalityType DEF SyncAssumption, IInv, TypeOK
<1> QED BY <1>1, SyncAssumption DEF Fault, Bounded, IInv, TypeOK, SyncAssumption

LEMMA IdleAttempt == Sound(Idle) /\ Idle.at = 0
  BY NewAttempt, Visited DEF Idle

LEMMA RowStays ==
    ASSUME IInv, NEW s \in Range(Services),
           NEW status \in {"running", "completed", "failed"}, SetRow(s, status)
    PROVE  /\ row' \in [Range(Services) -> Row]
           /\ \A t \in Range(Services) \ {s} : row'[t] = row[t]
           /\ row'[s].status = status
           /\ row'[s].success <=> status = "completed" \/ row[s].success
           /\ \A t \in Range(Services) :
                 /\ row'[t].success => row'[t].status # "missing"
                 /\ row'[t].status = "completed" => row'[t].success
           /\ listed' \subseteq Items
<1>1. row \in [Range(Services) -> Row] /\ listed \subseteq Items
  BY DEF IInv, TypeOK
<1> DEFINE new == [status |-> status, success |-> status = "completed" \/ row[s].success]
<1>2. row' = [row EXCEPT ![s] = new] /\ listed' \subseteq Items
  BY <1>1 DEF SetRow
<1>3. new \in Row /\ new.status = status
      /\ (new.success <=> status = "completed" \/ row[s].success)
  BY <1>1 DEF Row
<1> HIDE DEF new
<1>4. /\ row' \in [Range(Services) -> Row] /\ row'[s] = new
      /\ \A t \in Range(Services) \ {s} : row'[t] = row[t]
  BY <1>1, <1>2, <1>3
<1> QED BY <1>2, <1>3, <1>4 DEF IInv, TypeOK

\* sync_user leaves the service: the next attempt, or the end of the job.
LEMMA AdvanceKeeps ==
    ASSUME IInv, NEW j \in Jobs, work[j].at > 0, Advance(j)
    PROVE  \E w : Sound(w) /\ Set(j, w) /\ Elsewhere(j) /\ (w.at > 0 <=> pc'[j] = "syncing")
<1>1. work[j].at \in 0 .. Len(Services) /\ pc[j] = "syncing" /\ pc \in [Jobs -> Places]
  BY DEF IInv, TypeOK, Work
<1>2. CASE work[j].at < Len(Services)
  <2> DEFINE n == work[j].at + 1
  <2>1. n \in 0 .. Len(Services) /\ n > 0
    BY <1>1, <1>2, Visited
  <2>2. Set(j, At(n)) /\ pc' = pc
    BY <1>2 DEF Advance
  <2> HIDE DEF n
  <2> QED BY <1>1, <2>1, <2>2, NewAttempt DEF Elsewhere
<1>3. CASE ~(work[j].at < Len(Services))
  <2>1. Set(j, Idle) /\ pc' = [pc EXCEPT ![j] = "releasing"]
    BY <1>3 DEF Advance, Finish, Goto
  <2>2. Elsewhere(j) /\ pc'[j] = "releasing"
    BY <1>1, <2>1 DEF Elsewhere, Places
  <2> QED BY <2>1, <2>2, IdleAttempt
<1> QED BY <1>2, <1>3

\* Other rows, listed and the rest of the data keep the invariant of the items
\* when no row is completed.
LEMMA RowOnly ==
    ASSUME IInv, NEW s \in Range(Services), NEW status \in {"running", "failed"},
           SetRow(s, status), UNCHANGED <<source, gone, index, missed>>
    PROVE  /\ Retains /\ listed' = listed
           /\ (\A i \in Items : index[i] <= source[i])' /\ ChangesStayListed'
<1>0. /\ row'[s].status = status /\ (row'[s].success <=> row[s].success)
      /\ \A t \in Range(Services) \ {s} : row'[t] = row[t]
  BY RowStays
<1>1. listed' = listed /\ \A t \in Range(Services) : row'[t].success <=> row[t].success
  BY <1>0 DEF SetRow
<1>2. Retains
  <2>1. \A t \in Incremental : Window(t)' = Window(t)
    BY <1>1, SyncAssumption DEF Window, SyncAssumption
  <2> QED BY <1>0, <2>1 DEF Retains
<1>3. \A i \in Items : ServiceOf[i] \in Range(Services)
  BY SyncAssumption DEF SyncAssumption
<1>4. ChangesStayListed'
  BY <1>1, <1>3 DEF IInv, ChangesStayListed, Live
<1> QED BY <1>1, <1>2, <1>4 DEF IInv

LEMMA OpenKeeps ==
    ASSUME IInv, NEW j \in Jobs, Open(j) PROVE IInv'
<1>1. PICK w : w = work[j] OBVIOUS
<1>2. PICK s : s = Services[w.at] OBVIOUS
<1> DEFINE v == [w EXCEPT !.step = "list"]
<1>3. Sound(w) /\ w.step = "open" /\ w.at > 0 /\ s \in Range(Services) /\ pc[j] = "syncing"
  BY <1>1, <1>2, Visited DEF Open, IInv, Sound, Placed, Work, TypeOK
<1>4. Set(j, v) /\ SetRow(s, "running")
      /\ UNCHANGED <<source, gone, index, missed, pc, faults, unrenewed>>
  BY <1>1, <1>2 DEF Open, Service
<1>5. Sound(w)' /\ row'[s].status = "running"
  <2>1. Retains BY <1>3, <1>4, RowOnly
  <2>2. row'[s].status = "running" BY <1>3, <1>4, RowStays
  <2> QED BY <1>3, <2>1, <2>2, SoundStays
<1>6. /\ v \in Work /\ v.at = w.at /\ v.window = w.window /\ v.during = w.during
      /\ v.got = w.got /\ v.page = w.page /\ v.held = w.held /\ v.step = "list"
      /\ w.held = <<>>
  BY <1>3 DEF Sound, Placed, Work
<1> HIDE DEF v
<1>7. Placed(v)'
  BY <1>2, <1>3, <1>5, <1>6 DEF Sound, Placed, Counted, Of
<1>8. Bounds(v)' /\ Fresh(v)' /\ Exhausted(v)' /\ Outside(v)' /\ Covers(v)'
  BY <1>3, <1>5, <1>6 DEF Sound, Bounds, Fresh, Exhausted, Outside, Covers
<1>9. Sound(v)' /\ (v.at > 0 <=> pc'[j] = "syncing") /\ Elsewhere(j)
  BY <1>3, <1>4, <1>6, <1>7, <1>8 DEF Sound, Elsewhere, IInv, TypeOK
<1>10. TypeOK' /\ \A k \in Jobs : Sound(work[k])'
  BY <1>3, <1>4, <1>9, RowOnly, RowStays, TypeStays DEF IInv, TypeOK
<1> QED BY <1>3, <1>4, <1>10, RowOnly DEF IInv

LEMMA ServiceFailsKeeps ==
    ASSUME IInv, NEW j \in Jobs, ServiceFails(j) PROVE IInv'
<1>1. PICK s : s = Service(j) OBVIOUS
<1>2. s \in Range(Services) /\ work[j].at > 0
  BY <1>1, Visited DEF ServiceFails, IInv, Sound, Placed, Work, Service
<1>3. Advance(j) /\ SetRow(s, "failed") /\ UNCHANGED <<source, gone, index, missed, unrenewed>>
  BY <1>1 DEF ServiceFails
<1>4. faults' \in 0 .. MaxTroubles
  BY FaultsBounded DEF ServiceFails, IInv, TypeOK
<1>5. PICK w : Sound(w) /\ Set(j, w) /\ Elsewhere(j) /\ (w.at > 0 <=> pc'[j] = "syncing")
  BY <1>2, <1>3, AdvanceKeeps
<1>6. Sound(w)'
  BY <1>2, <1>3, <1>5, RowOnly, SoundStays
<1>7. TypeOK' /\ \A k \in Jobs : Sound(work[k])'
  BY <1>2, <1>3, <1>4, <1>5, <1>6, RowOnly, RowStays, TypeStays DEF IInv, TypeOK
<1> QED BY <1>2, <1>3, <1>7, RowOnly DEF IInv

\* What the commit leaves out of the index is what missed records.
LEMMA CompleteKeeps ==
    ASSUME IInv, NEW j \in Jobs, Complete(j) PROVE IInv'
<1>1. PICK w : w = work[j] OBVIOUS
<1>2. PICK s : s = Services[w.at] OBVIOUS
<1>3. Sound(w) /\ w.step = "close" /\ w.at > 0 /\ s \in Range(Services)
  BY <1>1, <1>2, Visited DEF Complete, IInv, Sound, Placed, Work
<1>4. /\ index' = [i \in Items |-> IF i \in DOMAIN w.got THEN w.got[i] ELSE index[i]]
      /\ SetRow(s, "completed") /\ missed' = missed \cup w.during \cup CutOff(w)
      /\ Advance(j) /\ UNCHANGED <<source, gone, faults, unrenewed>>
  BY <1>1, <1>2 DEF Complete, Service
<1>5. /\ DOMAIN w.got \subseteq Items
      /\ \A i \in DOMAIN w.got : /\ w.got[i] \in 1 .. MaxVersion /\ w.got[i] <= source[i]
                                 /\ w.got[i] = source[i] \/ i \in w.during
  BY <1>3, VersionsAre DEF Sound, Placed, Work, Bounds, Fresh
<1>6. Retains
  <2>1. \A i \in Items : i \in missed \/ index[i] = source[i]
                         => i \in missed' \/ index'[i] = source[i]
    BY <1>4, <1>5
  <2>2. \A t \in Range(Services) : row[t].status # "missing" => row'[t].status # "missing"
    <3>1. row'[s].status = "completed" /\ \A t \in Range(Services) \ {s} : row'[t] = row[t]
      BY <1>3, <1>4, RowStays
    <3> QED BY <3>1
  <2>3. \A t \in Incremental : Window(t)' \subseteq Window(t)
    <3>1. \A t \in Range(Services) : row[t].success => row'[t].success
      BY <1>3, <1>4, RowStays
    <3>2. listed' \subseteq listed
      BY <1>4 DEF SetRow
    <3> QED BY <3>1, <3>2, SyncAssumption DEF Window, SyncAssumption
  <2> QED BY <1>4, <2>1, <2>2, <2>3 DEF Retains
<1>7. index' \in [Items -> 0 .. MaxVersion] /\ missed' \subseteq Items
  BY <1>3, <1>4, <1>5 DEF IInv, TypeOK, Sound, Placed, Work, CutOff
<1>8. PICK u : Sound(u) /\ Set(j, u) /\ Elsewhere(j) /\ (u.at > 0 <=> pc'[j] = "syncing")
  BY <1>1, <1>3, <1>4, AdvanceKeeps
<1>9. Sound(u)'
  BY <1>6, <1>8, SoundStays
<1>10. TypeOK' /\ \A k \in Jobs : Sound(work[k])'
  BY <1>3, <1>4, <1>6, <1>7, <1>8, <1>9, RowStays, TypeStays DEF IInv, TypeOK
<1>11. \A i \in Items : index'[i] <= source'[i]
  BY <1>4, <1>5 DEF IInv
<1>12. ChangesStayListed'
  <2> SUFFICES ASSUME NEW i \in Live, ServiceOf[i] \in Incremental,
                      row'[ServiceOf[i]].success, i \notin missed', index'[i] # source[i]
               PROVE  i \in listed'
    BY <1>4 DEF ChangesStayListed, Live
  <2>1. i \in Items /\ ServiceOf[i] \in Range(Services)
    BY SyncAssumption DEF Live, SyncAssumption
  <2>2. CASE ServiceOf[i] # s
    <3>1. row'[ServiceOf[i]] = row[ServiceOf[i]]
      BY <1>3, <1>4, <2>1, <2>2, RowStays
    <3>2. i \in listed
      BY <1>6, <2>1, <3>1 DEF IInv, ChangesStayListed, Retains
    <3> QED BY <1>4, <2>2, <3>2 DEF SetRow, Of
  <2>3. CASE ServiceOf[i] = s
    <3>1. i \notin DOMAIN w.got
      BY <1>4, <1>5, <2>1
    <3>2. i \in w.window
      BY <1>2, <1>3, <1>6, <2>1, <2>3 DEF Sound, Outside, Retains
    <3>3. i \in Counted(w) \cup CutOff(w) \cup w.during
      BY <1>3, <3>2 DEF Sound, Exhausted
    <3> QED BY <1>4, <3>1, <3>3 DEF Counted
  <2> QED BY <2>2, <2>3
<1> QED BY <1>10, <1>11, <1>12 DEF IInv

\* Jobs that start, die or give up.
LEMMA JobKeeps ==
    ASSUME IInv, NEW j \in Jobs, Start(j) \/ Crash(j) \/ Raise(j) PROVE IInv'
<1>1. pc \in [Jobs -> Places]
  BY DEF IInv, TypeOK
<1>2. CASE Start(j)
  <2>1. pc' = [pc EXCEPT ![j] = "syncing"] /\ Set(j, At(1))
        /\ UNCHANGED <<source, gone, listed, index, row, missed, faults, unrenewed>>
    BY <1>2 DEF Start, Acquire, Goto
  <2>2. Elsewhere(j) /\ pc'[j] = "syncing"
    BY <1>1, <2>1 DEF Elsewhere, Places
  <2>3. Sound(At(1)) /\ At(1).at = 1
    BY NewAttempt, Visited
  <2> QED BY <2>1, <2>2, <2>3, OneAttempt DEF IInv, TypeOK
<1>3. CASE Crash(j)
  <2>1. pc' = [pc EXCEPT ![j] = "idle"] /\ Set(j, Idle)
        /\ UNCHANGED <<source, gone, listed, index, row, missed, unrenewed>>
    BY <1>3 DEF Crash, Die, Goto
  <2>2. Elsewhere(j) /\ pc'[j] = "idle" /\ faults' \in 0 .. MaxTroubles
    BY <1>1, <1>3, <2>1, FaultsBounded DEF Crash, Elsewhere, Places
  <2> QED BY <2>1, <2>2, IdleAttempt, OneAttempt DEF IInv, TypeOK
<1>4. CASE Raise(j)
  <2>1. pc' = [pc EXCEPT ![j] = "releasing"] /\ Set(j, Idle)
        /\ UNCHANGED <<source, gone, listed, index, row, missed, unrenewed>>
    BY <1>4 DEF Raise, Finish, Goto
  <2>2. Elsewhere(j) /\ pc'[j] = "releasing"
    BY <1>1, <2>1 DEF Elsewhere, Places
  <2>3. faults' \in 0 .. MaxTroubles
    BY <1>4, FaultsBounded DEF Raise, IInv, TypeOK
  <2> QED BY <2>1, <2>2, <2>3, IdleAttempt, OneAttempt DEF IInv, TypeOK
<1> QED BY <1>2, <1>3, <1>4

\* Steps of the lock while no attempt begins or ends.
LEMMA LockKeeps ==
    ASSUME IInv, UNCHANGED data, pc' \in [Jobs -> Places],
           \A k \in Jobs : pc'[k] = "syncing" <=> pc[k] = "syncing",
           faults' \in 0 .. MaxTroubles, unrenewed' \in BOOLEAN
    PROVE  IInv'
<1>1. TypeOK'
  BY DEF IInv, TypeOK, data, Counted
<1>2. \A k \in Jobs : Sound(work[k])'
  BY DEF IInv, data, Sound, Placed, Bounds, Fresh, Exhausted, Outside, Covers, Window, Live,
         CutOff, Room, Counted, Of, At
<1>3. (\A i \in Items : index[i] <= source[i])' /\ ChangesStayListed'
  BY DEF IInv, data, ChangesStayListed, Live
<1> QED BY <1>1, <1>2, <1>3 DEF IInv

LEMMA QuietKeeps ==
    ASSUME IInv, Tick \/ \E j \in Jobs : Quiet(j) \/ RedisFails(j) PROVE IInv'
<1>1. pc \in [Jobs -> Places]
  BY DEF IInv, TypeOK
<1>2. CASE Tick
  <2>1. pc' = pc /\ UNCHANGED data /\ UNCHANGED <<faults, unrenewed>>
    BY <1>2 DEF Tick, Elapse
  <2> QED BY <1>1, <2>1, LockKeeps DEF IInv, TypeOK
<1>3. ASSUME NEW j \in Jobs, Quiet(j) \/ RedisFails(j) PROVE IInv'
  <2>1. \/ pc' = pc
        \/ /\ pc[j] # "syncing"
           /\ \E place \in {"idle", "queued"} : pc' = [pc EXCEPT ![j] = place]
    BY <1>3 DEF Quiet, RedisFails, Deliver, Skip, Renew, Release,
                RenewFails, Unanswered, ReleaseFails, Goto
  <2>2. pc' \in [Jobs -> Places] /\ \A k \in Jobs : pc'[k] = "syncing" <=> pc[k] = "syncing"
    BY <1>1, <2>1 DEF Places
  <2>3. UNCHANGED data /\ faults' \in 0 .. MaxTroubles /\ unrenewed' \in BOOLEAN
    BY <1>3, FaultsBounded DEF Quiet, RedisFails, IInv, TypeOK
  <2> QED BY <2>2, <2>3, LockKeeps
<1> QED BY <1>2, <1>3

-----------------------------------------------------------------------------
(***************************************************************************)
(* The provider.  A change is noticed by every attempt on its service and  *)
(* is no business of the others.                                           *)
(***************************************************************************)

\* What a change leaves of the attempts on its service: in the window it is the
\* changed item at most that comes or goes, and if it is there it is noted.
LEMMA NoticedIs ==
    ASSUME NEW w \in Work, NEW i \in Items, NEW match \in BOOLEAN,
           DOMAIN w.got \cup DOMAIN w.page \subseteq w.window
    PROVE  LET v == Noticed(w, i, match) IN
           /\ v \in Work /\ v.at = w.at /\ v.step = w.step /\ v.page = w.page
           /\ v.got = w.got /\ v.held = w.held /\ v.more = w.more
           /\ v.window \subseteq w.window \cup {i} /\ w.window \ {i} \subseteq v.window
           /\ DOMAIN w.got \cup DOMAIN w.page \subseteq v.window
           /\ ServiceOf[i] \in Incremental => w.window \subseteq v.window
           /\ match => i \in v.window
           /\ v.during = (w.during \cup {i}) \cap v.window
<1> DEFINE out == ~match /\ ServiceOf[i] \notin Incremental
                  /\ i \notin DOMAIN w.got \cup DOMAIN w.page
           window == IF match THEN w.window \cup {i}
                     ELSE IF out THEN w.window \ {i} ELSE w.window
           v == [w EXCEPT !.window = window, !.during = (w.during \cup {i}) \cap window]
<1>1. Noticed(w, i, match) = v
  BY DEF Noticed, Work
<1>2. /\ window \subseteq w.window \cup {i} /\ w.window \ {i} \subseteq window
      /\ DOMAIN w.got \cup DOMAIN w.page \subseteq window
      /\ ServiceOf[i] \in Incremental => w.window \subseteq window
      /\ match => i \in window
  OBVIOUS
<1>3. window \in SUBSET Items /\ (w.during \cup {i}) \cap window \in SUBSET Items
  BY <1>2 DEF Work
<1> HIDE DEF window
<1>4. /\ v \in Work /\ v.at = w.at /\ v.step = w.step /\ v.page = w.page
      /\ v.got = w.got /\ v.held = w.held /\ v.more = w.more
      /\ v.window = window /\ v.during = (w.during \cup {i}) \cap window
  BY <1>3 DEF Work
<1> QED BY <1>1, <1>2, <1>4

LEMMA ChangeIs ==
    ASSUME IInv, NEW i \in Items, Change(i)
    PROVE  \E match \in BOOLEAN :
              /\ source[i] < MaxVersion /\ source' = [source EXCEPT ![i] = source[i] + 1]
              /\ listed' \subseteq listed \cup {i} /\ listed \ {i} \subseteq listed'
              /\ ServiceOf[i] \in Incremental /\ i \in listed' => match \/ i \in listed
              /\ ServiceOf[i] \in Incremental /\ ~(match \/ i \in Window(ServiceOf[i]))
                    => i \in missed'
              /\ missed \ {i} \subseteq missed' /\ missed' \subseteq missed \cup {i}
              /\ ServiceOf[i] \in Incremental /\ (match \/ i \in listed) => i \in listed'
              /\ work' = [j \in Jobs |-> IF j \in Attempting(ServiceOf[i])
                                         THEN Noticed(work[j], i, match) ELSE work[j]]
              /\ UNCHANGED <<pc, gone, index, row, faults, unrenewed>>
  BY DEF Change

LEMMA NoticedIsSound ==
    ASSUME IInv, NEW i \in Items, Change(i), NEW k \in Jobs
    PROVE  /\ work'[k] \in Work /\ work'[k].at = work[k].at
           /\ Sound(work[k])'
<1>1. PICK w : w = work[k] OBVIOUS
<1>2. PICK v : v = work'[k] OBVIOUS
<1>3. Sound(w) /\ w \in Work /\ \A s : k \in Attempting(s) <=>
          w.at > 0 /\ Services[w.at] = s /\ w.step # "find"
  BY <1>1 DEF IInv, Sound, Placed, Attempting, Service
<1>4. PICK match \in BOOLEAN :
      /\ source[i] < MaxVersion /\ source' = [source EXCEPT ![i] = source[i] + 1]
      /\ listed' \subseteq listed \cup {i} /\ listed \ {i} \subseteq listed'
      /\ ServiceOf[i] \in Incremental /\ i \in listed' => match \/ i \in listed
      /\ ServiceOf[i] \in Incremental /\ ~(match \/ i \in Window(ServiceOf[i]))
            => i \in missed'
      /\ missed \ {i} \subseteq missed'
      /\ work' = [j \in Jobs |-> IF j \in Attempting(ServiceOf[i])
                                 THEN Noticed(work[j], i, match) ELSE work[j]]
      /\ UNCHANGED <<gone, index, row>>
  BY ChangeIs
<1>5. /\ Live' \subseteq Live \cup {i} /\ Live \subseteq Items
      /\ \A n \in Items : source[n] <= source'[n] /\ (n # i => source'[n] = source[n])
  BY <1>4 DEF Live, IInv, TypeOK
<1>6. /\ DOMAIN w.page \subseteq Items /\ (\A n \in DOMAIN w.page : w.page[n] \in 1 .. MaxVersion)
      /\ DOMAIN w.got \subseteq Items /\ (\A n \in DOMAIN w.got : w.got[n] \in 1 .. MaxVersion)
      /\ w.held # <<>> => w.held[1] \in Items /\ w.held[2] \in 1 .. MaxVersion
  BY <1>3, VersionsAre DEF Work
<1>7. CASE k \in Attempting(ServiceOf[i])
  <2>1. v = Noticed(w, i, match)
    BY <1>1, <1>2, <1>4, <1>7
  <2>2. DOMAIN w.got \cup DOMAIN w.page \subseteq w.window
    BY <1>3 DEF Sound, Placed, Counted
  <2>3. /\ v \in Work /\ v.at = w.at /\ v.step = w.step /\ v.page = w.page /\ v.got = w.got
        /\ v.held = w.held /\ v.more = w.more
        /\ v.window \subseteq w.window \cup {i} /\ w.window \ {i} \subseteq v.window
        /\ DOMAIN w.got \cup DOMAIN w.page \subseteq v.window
        /\ ServiceOf[i] \in Incremental => w.window \subseteq v.window
        /\ match => i \in v.window
        /\ v.during = (w.during \cup {i}) \cap v.window
    BY <1>3, <2>1, <2>2, NoticedIs
  <2>4. w.at > 0 /\ Services[w.at] = ServiceOf[i] /\ w.step # "find"
    BY <1>3, <1>7
  <2>5. Placed(v)'
    BY <1>3, <1>4, <2>3, <2>4 DEF Sound, Placed, Counted, Of
  <2>6. Bounds(v)'
    BY <1>3, <1>4, <1>5, <1>6, <2>3 DEF Sound, Bounds, IInv, TypeOK
  <2>7. Fresh(v)'
    <3>1. w.held # <<>> => w.held[1] \in v.window
      BY <1>3, <2>3 DEF Sound, Placed
    <3> QED BY <1>3, <1>5, <1>6, <2>3, <3>1 DEF Sound, Fresh
  <2>8. Exhausted(v)'
    <3>1. Counted(v) = Counted(w) /\ CutOff(w) \ {i} \subseteq CutOff(v)
      BY <2>3 DEF Counted, CutOff, Room
    <3>2. v.window \cap Live' \subseteq (w.window \cap Live) \cup {i}
      BY <1>5, <2>3
    <3>3. Exhausted(v)' <=>
            /\ v.step = "items" /\ ~v.more
                  => v.window \cap Live' \subseteq Counted(v) \cup DOMAIN v.page \cup v.during
            /\ v.step = "close"
                  => v.window \cap Live' \subseteq Counted(v) \cup CutOff(v) \cup v.during
      BY DEF Exhausted, Counted, CutOff, Room
    <3>4. Exhausted(w)
      BY <1>3 DEF Sound
    <3>5. i \in v.window => i \in v.during
      BY <2>3
    <3>6. w.during \cap v.window \subseteq v.during
      BY <2>3
    <3>7. ASSUME NEW n \in v.window \cap Live', v.step = "items", ~v.more
          PROVE  n \in Counted(v) \cup DOMAIN v.page \cup v.during
      BY <2>3, <3>1, <3>2, <3>4, <3>5, <3>6, <3>7 DEF Exhausted
    <3>8. ASSUME NEW n \in v.window \cap Live', v.step = "close"
          PROVE  n \in Counted(v) \cup CutOff(v) \cup v.during
      BY <2>3, <3>1, <3>2, <3>4, <3>5, <3>6, <3>8 DEF Exhausted
    <3> QED BY <3>3, <3>7, <3>8
  <2>9. ServiceOf[i] \in Incremental /\ i \notin v.window => i \in missed'
    BY <1>3, <1>4, <2>3, <2>4 DEF Sound, Covers
  <2>10. Outside(v)'
    BY <1>3, <1>4, <1>5, <2>3, <2>4, <2>9 DEF Sound, Outside
  <2>11. Covers(v)'
    BY <1>3, <1>4, <2>3, <2>4 DEF Sound, Covers, Window, Of
  <2> QED BY <1>1, <1>2, <2>3, <2>5, <2>6, <2>7, <2>8, <2>10, <2>11
          DEF Sound, Placed, Bounds, Fresh, Exhausted, Outside, Covers, CutOff, Room,
              Counted, Live, Window
<1>8. CASE k \notin Attempting(ServiceOf[i])
  <2>1. v = w
    BY <1>1, <1>2, <1>4, <1>8
  <2>2. i \notin w.window \cup w.during \cup DOMAIN w.page \cup DOMAIN w.got
    <3>1. CASE w.step = "find"
      <4>1. w = At(w.at)
        BY <1>3, <3>1 DEF Sound, Placed
      <4>2. w.window = {} /\ w.during = {} /\ w.page = None /\ w.got = None
        BY <4>1 DEF At
      <4> QED BY <4>2, NoneIsVersions
    <3>2. CASE w.step # "find"
      BY <1>3, <1>8, <3>2 DEF Sound, Placed, Of, Counted
    <3> QED BY <3>1, <3>2
  <2>3. w.held # <<>> => w.held[1] # i
    BY <1>3, <2>2 DEF Sound, Placed
  <2>4. Placed(w)'
    BY <1>3, <1>4 DEF Sound, Placed, Counted, Of, At
  <2>5. Bounds(w)' /\ Fresh(w)'
    BY <1>3, <1>5, <1>6, <2>2, <2>3 DEF Sound, Bounds, Fresh
  <2>6. Exhausted(w)'
    <3>1. w.window \cap Live' \subseteq w.window \cap Live
      BY <1>5, <2>2
    <3> QED BY <1>3, <3>1 DEF Sound, Exhausted, Counted, CutOff, Room
  <2>7. w.step # "find" => Services[w.at] # ServiceOf[i]
    BY <1>3, <1>8 DEF Sound, Placed
  <2>8. Outside(w)'
    BY <1>3, <1>4, <1>5, <2>7 DEF Sound, Outside
  <2>9. Covers(w)'
    BY <1>3, <1>4, <2>7 DEF Sound, Covers, Window, Of
  <2> QED BY <1>1, <1>2, <1>3, <2>1, <2>4, <2>5, <2>6, <2>8, <2>9
          DEF Sound, Placed, Bounds, Fresh, Exhausted, Outside, Covers, CutOff, Room,
              Counted, Live, Window
<1> QED BY <1>7, <1>8

LEMMA ChangeKeeps ==
    ASSUME IInv, NEW i \in Items, Change(i) PROVE IInv'
<1>1. PICK match \in BOOLEAN :
      /\ source[i] < MaxVersion /\ source' = [source EXCEPT ![i] = source[i] + 1]
      /\ listed' \subseteq listed \cup {i} /\ listed \ {i} \subseteq listed'
      /\ ServiceOf[i] \in Incremental /\ ~(match \/ i \in Window(ServiceOf[i]))
            => i \in missed'
      /\ missed \ {i} \subseteq missed' /\ missed' \subseteq missed \cup {i}
      /\ ServiceOf[i] \in Incremental /\ (match \/ i \in listed) => i \in listed'
      /\ work' = [j \in Jobs |-> IF j \in Attempting(ServiceOf[i])
                                 THEN Noticed(work[j], i, match) ELSE work[j]]
      /\ UNCHANGED <<pc, gone, index, row, faults, unrenewed>>
  BY ChangeIs
<1>2. source' \in [Items -> 0 .. MaxVersion]
      /\ \A n \in Items : source[n] <= source'[n] /\ (n # i => source'[n] = source[n])
  BY <1>1, SyncAssumption DEF SyncAssumption, IInv, TypeOK
<1>3. \A k \in Jobs : Sound(work[k])'
  BY NoticedIsSound
<1>4. TypeOK'
  <2>1. work' \in [Jobs -> Work] /\ \A k \in Jobs : work'[k].at = work[k].at
    BY <1>1, NoticedIsSound
  <2>2. \A k \in Jobs :
           /\ work'[k].during \cup Counted(work'[k]) \cup DOMAIN work'[k].page
                 \subseteq work'[k].window
           /\ work'[k].held # <<>> => work'[k].held[1] \in DOMAIN work'[k].page
    BY <1>3 DEF Sound, Placed, Counted
  <2> QED BY <1>1, <1>2, <2>1, <2>2 DEF IInv, TypeOK, Counted
<1>5. \A n \in Items : index'[n] <= source'[n]
  BY <1>1, <1>2 DEF IInv, TypeOK
<1>6. ChangesStayListed'
  <2>1. Live' \subseteq Live \cup {i} /\ Live' \subseteq Items
    BY <1>1, <1>2 DEF Live
  <2>2. ASSUME NEW n \in Live', n # i, ServiceOf[n] \in Incremental,
               row'[ServiceOf[n]].success, index'[n] # source'[n]
        PROVE  n \in listed' \cup missed'
    BY <1>1, <1>2, <2>1, <2>2 DEF IInv, ChangesStayListed
  <2>3. ASSUME ServiceOf[i] \in Incremental, row'[ServiceOf[i]].success
        PROVE  i \in listed' \cup missed'
    <3>1. i \in Window(ServiceOf[i]) => i \in listed
      BY <1>1, <2>3 DEF Window
    <3> QED BY <1>1, <2>3, <3>1
  <2> QED BY <2>2, <2>3 DEF ChangesStayListed
<1> QED BY <1>3, <1>4, <1>5, <1>6 DEF IInv

\* Time that goes by touches what is listed within time bounds only.
LEMMA DriftKeeps ==
    ASSUME IInv, NEW i \in Items, Drift(i) PROVE IInv'
<1>1. /\ ServiceOf[i] \notin Incremental
      /\ listed' \subseteq listed \cup {i} /\ listed \ {i} \subseteq listed'
      /\ UNCHANGED <<pc, source, gone, index, row, work, missed, faults, unrenewed>>
  BY DEF Drift
<1>2. \A s \in Incremental : Window(s)' = Window(s)
  BY <1>1 DEF Window, Of
<1>3. Retains
  BY <1>1, <1>2 DEF Retains
<1>4. \A k \in Jobs : Sound(work[k])'
  <2> SUFFICES ASSUME NEW k \in Jobs PROVE Sound(work[k])'
    OBVIOUS
  <2>1. PICK w : w = work[k] /\ w = work'[k]
    BY <1>1
  <2>2. Sound(w)'
    BY <1>3, <2>1, SoundStays DEF IInv
  <2> QED BY <2>1, <2>2 DEF Sound, Placed, Bounds, Fresh, Exhausted, Outside, Covers, CutOff,
                            Room, Counted, Live, Window
<1>5. TypeOK'
  BY <1>1 DEF IInv, TypeOK, Counted
<1>6. (\A n \in Items : index[n] <= source[n])' /\ ChangesStayListed'
  BY <1>1 DEF IInv, ChangesStayListed, Live
<1> QED BY <1>4, <1>5, <1>6 DEF IInv

LEMMA RemoveKeeps ==
    ASSUME IInv, NEW i \in Items, Remove(i) PROVE IInv'
<1>1. /\ gone' = gone \cup {i}
      /\ UNCHANGED <<pc, source, listed, index, row, work, missed, faults, unrenewed>>
  BY DEF Remove
<1>2. Live' \subseteq Live
  BY <1>1 DEF Live
<1>3. ASSUME NEW k \in Jobs PROVE Sound(work[k])'
  <2>1. Sound(work[k])
    BY DEF IInv
  <2>2. Placed(work[k])' /\ Bounds(work[k])' /\ Fresh(work[k])'
    BY <1>1, <2>1 DEF Sound, Placed, Bounds, Fresh, Counted, Of, At
  <2>3. Exhausted(work[k])'
    BY <1>1, <1>2, <2>1 DEF Sound, Exhausted, Counted, CutOff, Room
  <2>4. Outside(work[k])' /\ Covers(work[k])'
    BY <1>1, <1>2, <2>1 DEF Sound, Outside, Covers, Window
  <2> QED BY <2>2, <2>3, <2>4 DEF Sound
<1>4. TypeOK'
  BY <1>1 DEF IInv, TypeOK, Counted
<1>5. (\A n \in Items : index[n] <= source[n])' /\ ChangesStayListed'
  BY <1>1, <1>2 DEF IInv, ChangesStayListed
<1> QED BY <1>3, <1>4, <1>5 DEF IInv

-----------------------------------------------------------------------------
LEMMA Initially == Init => IInv
<1> SUFFICES ASSUME Init PROVE IInv
  OBVIOUS
<1>1. \A j \in Jobs : Sound(work[j]) /\ work[j] = Idle /\ Idle.at = 0
  BY IdleAttempt DEF Init
<1>2. TypeOK
  <2>1. work \in [Jobs -> Work]
    BY <1>1 DEF Init, Sound, Placed
  <2>2. pc \in [Jobs -> Places] /\ \A j \in Jobs : pc[j] = "idle"
    BY DEF Init, LockInit, Places
  <2>3. row \in [Range(Services) -> Row]
    BY DEF Init, Row
  <2>4. \A s \in Range(Services) : /\ row[s].success => row[s].status # "missing"
                                   /\ row[s].status = "completed" => row[s].success
    BY DEF Init
  <2>5. \A j \in Jobs :
           /\ work[j].at > 0 <=> pc[j] = "syncing"
           /\ work[j].during \cup Counted(work[j]) \cup DOMAIN work[j].page
                 \subseteq work[j].window
           /\ work[j].held # <<>> => work[j].held[1] \in DOMAIN work[j].page
    <3>1. \A j \in Jobs : work[j].at > 0 <=> pc[j] = "syncing"
      <4> SUFFICES ASSUME NEW j \in Jobs PROVE work[j].at > 0 <=> pc[j] = "syncing"
        OBVIOUS
      <4>1. work[j].at = 0
        BY <1>1
      <4>2. pc[j] # "syncing"
        BY <2>2
      <4> QED BY <4>1, <4>2
    <3>2. \A j \in Jobs : Placed(work[j])
      BY <1>1 DEF Sound
    <3> QED BY <3>1, <3>2 DEF Placed
  <2>6. /\ source \in [Items -> 0 .. MaxVersion] /\ index \in [Items -> 0 .. MaxVersion]
        /\ gone = {} /\ listed = {} /\ missed = {}
        /\ faults \in 0 .. MaxTroubles /\ unrenewed = FALSE
    BY SyncAssumption DEF Init, SyncAssumption
  <2> QED BY <2>1, <2>2, <2>3, <2>4, <2>5, <2>6 DEF TypeOK
<1>3. ChangesStayListed /\ \A i \in Items : index[i] <= source[i]
  BY DEF Init, ChangesStayListed, Live
<1> QED BY <1>1, <1>2, <1>3 DEF IInv

LEMMA Inductive == IInv /\ [Next]_vars => IInv'
<1> SUFFICES ASSUME IInv, [Next]_vars PROVE IInv'
  OBVIOUS
<1>1. CASE \E i \in Items : Change(i) \/ Drift(i) \/ Remove(i)
  BY <1>1, ChangeKeeps, DriftKeeps, RemoveKeeps
<1>2. CASE \E j \in Jobs : Attempt(j)
  <2>1. PICK j \in Jobs : Attempt(j)
    BY <1>2
  <2> QED
    BY <2>1, FindKeeps, OpenKeeps, ListKeeps, GetKeeps, UpsertKeeps, CompleteKeeps,
       ServiceFailsKeeps, JobKeeps DEF Attempt
<1>3. CASE \E j \in Jobs : Start(j) \/ Crash(j)
  BY <1>3, JobKeeps
<1>4. CASE Tick \/ \E j \in Jobs : Quiet(j) \/ RedisFails(j)
  BY <1>4, QuietKeeps
<1>5. CASE UNCHANGED vars
  BY <1>5, LockKeeps DEF vars, IInv, TypeOK
<1> QED BY <1>1, <1>2, <1>3, <1>4, <1>5 DEF Next

(***************************************************************************)
(* The strengthened invariant holds of every behaviour.                    *)
(***************************************************************************)
THEOREM Invariance == Spec => []IInv
  BY Initially, Inductive, PTL DEF Spec

(***************************************************************************)
(* The data of the synchronisation stays well-typed; a job has an attempt  *)
(* exactly while it holds or believes to hold the lock.                    *)
(***************************************************************************)
THEOREM TypeCorrect == Spec => []TypeOK
<1>1. IInv => TypeOK BY DEF IInv
<1> QED BY <1>1, Invariance, PTL

(***************************************************************************)
(* Whatever fails, crashes or overlaps, and for every page size and limit: *)
(* a change that the index lacks is listed by the next attempt, or was     *)
(* made where that listing does not look (the date of a message, the       *)
(* modifiedTime of a file), or during a completed attempt, or was cut off. *)
(***************************************************************************)
THEOREM ChangesAreNotForgotten == Spec => []ChangesStayListed
<1>1. IInv => ChangesStayListed BY DEF IInv
<1> QED BY <1>1, Invariance, PTL

-----------------------------------------------------------------------------
(***************************************************************************)
(* The lock by itself.  That two jobs exclude each other is not inductive: *)
(* it follows from what each renewal task knows about the key.  The        *)
(* strengthening says that the key of a job whose renewal task is alive is *)
(* that job's, and that its remaining life and the renewal's age add up to *)
(* TTL; since a renewal is never older than Interval + Lateness < TTL, the *)
(* key cannot expire under it.                                             *)
(***************************************************************************)
RenewersHold ==
    \A j \in renewers : lock = j /\ ttl + elapsed[j] = TTL

LInv == LockTypeOK /\ RenewersHold

\* A renewal falls due at a positive age and, however late, before the key
\* expires (interval = max(1, ttl_seconds // 3)).
LEMMA IntervalFits ==
    Interval \in Nat /\ Interval > 0 /\ Interval + Lateness < TTL
  BY LockAssumption DEF LockAssumption, Interval

LEMMA LockInitially == LockInit => LInv
  BY LockAssumption, IntervalFits
     DEF LockAssumption, LockInit, LInv, LockTypeOK, RenewersHold, Places

LEMMA LockInductive == LInv /\ [LockNext]_lockVars => LInv'
<1> SUFFICES ASSUME LInv, [LockNext]_lockVars PROVE LInv'
  OBVIOUS
<1> USE LockAssumption, IntervalFits DEF LockAssumption, LInv, LockTypeOK, Places
<1>1. CASE Elapse
  <2>1. lock' \in Jobs \cup {Nobody} /\ ttl' \in 0 .. TTL
    BY <1>1 DEF Elapse
  <2>2. elapsed' \in [Jobs -> 0 .. Interval + Lateness]
    BY <1>1 DEF Elapse
  <2>3. RenewersHold'
    BY <1>1 DEF Elapse, RenewersHold
  <2> QED BY <1>1, <2>1, <2>2, <2>3 DEF Elapse
<1>2. ASSUME NEW j \in Jobs, Deliver(j) PROVE LInv'
  BY <1>2 DEF Deliver, Goto, RenewersHold
<1>3. ASSUME NEW j \in Jobs, Acquire(j) PROVE LInv'
  \* No renewal task is alive while the key is absent.
  <2>1. renewers = {}
    BY <1>3 DEF Acquire, Take, Available, RenewersHold
  <2> QED
    BY <1>3, <2>1 DEF Acquire, Take, Available, Goto, Expiry, RenewersHold
<1>4. ASSUME NEW j \in Jobs, Skip(j) PROVE LInv'
  BY <1>4 DEF Skip, Goto, RenewersHold
<1>5. ASSUME NEW j \in Jobs, Unanswered(j) PROVE LInv'
  <2>1. renewers = {}
    BY <1>5 DEF Unanswered, Take, Available, RenewersHold
  <2> QED
    BY <1>5, <2>1 DEF Unanswered, Take, Available, Goto, Expiry, RenewersHold
<1>6. ASSUME NEW j \in Jobs, Renew(j) PROVE LInv'
  \* The key is ours: RenewersHold leaves only the first branch.
  <2>1. renewers = {j} /\ lock = j
    BY <1>6 DEF Renew, Due, RenewersHold
  <2> QED
    BY <1>6, <2>1 DEF Renew, Due, MayExtend, RenewersHold
<1>7. ASSUME NEW j \in Jobs, RenewFails(j) PROVE LInv'
  BY <1>7 DEF RenewFails, RenewersHold
<1>8. ASSUME NEW j \in Jobs, Finish(j) PROVE LInv'
  BY <1>8 DEF Finish, Goto, RenewersHold
<1>9. ASSUME NEW j \in Jobs, Release(j) PROVE LInv'
  \* Whoever releases is no longer renewing, so the deleted key is nobody's.
  BY <1>9 DEF Release, MayDelete, Goto, RenewersHold
<1>10. ASSUME NEW j \in Jobs, ReleaseFails(j) PROVE LInv'
  BY <1>10 DEF ReleaseFails, Goto, RenewersHold
<1>11. ASSUME NEW j \in Jobs, Die(j) PROVE LInv'
  BY <1>11 DEF Die, Goto, RenewersHold
<1>12. CASE UNCHANGED lockVars
  BY <1>12 DEF lockVars, RenewersHold
<1> QED
  BY <1>1, <1>2, <1>3, <1>4, <1>5, <1>6, <1>7, <1>8, <1>9, <1>10, <1>11,
     <1>12 DEF LockNext

THEOREM LockInvariance == LockSpec => []LInv
  BY LockInitially, LockInductive, PTL DEF LockSpec

(***************************************************************************)
(* The state of the lock and of its jobs stays well-typed; in particular   *)
(* only a synchronising job has a renewal task.                            *)
(***************************************************************************)
THEOREM LockTypeCorrect == LockSpec => []LockTypeOK
  BY LockInvariance, PTL DEF LInv

(***************************************************************************)
(* However many jobs are queued for a user, two of them synchronise at the *)
(* same time only after the renewal task of one of them has died.          *)
(***************************************************************************)
THEOREM JobsExclude == LockSpec => []Exclusive
<1>1. LInv => Exclusive
  BY DEF LInv, RenewersHold, Exclusive
<1> QED
  BY <1>1, LockInvariance, PTL

(***************************************************************************)
(* What makes OrphanedLockExpires come about, without the fairness: a key  *)
(* always carries an expiry (SET NX EX, EXPIRE), and once its job is gone  *)
(* nothing prolongs it, however many jobs are queued, renew or release:    *)
(* the job does not come back to it, and every tick takes a part of its    *)
(* life.                                                                   *)
(***************************************************************************)
KeysExpire == lock # Nobody => ttl > 0

Orphaned(j) == lock = j /\ pc[j] = "idle"
OrphansFade ==
    [][\A j \in Jobs : Orphaned(j) =>
          \/ lock' # j
          \/ /\ pc'[j] = "idle" /\ ttl' <= ttl
             /\ Elapse => ttl' < ttl]_lockVars

THEOREM KeysAlwaysExpire == LockSpec => []KeysExpire
<1>1. LockInit => KeysExpire
  BY DEF LockInit, KeysExpire
<1>2. LInv /\ KeysExpire /\ [LockNext]_lockVars => KeysExpire'
  <2> SUFFICES ASSUME LInv, KeysExpire, [LockNext]_lockVars PROVE KeysExpire'
    OBVIOUS
  <2> USE LockAssumption DEF LockAssumption, KeysExpire
  <2>1. CASE Elapse
    BY <2>1 DEF Elapse, LInv, LockTypeOK
  <2>2. ASSUME NEW j \in Jobs, Acquire(j) \/ Unanswered(j) \/ Renew(j) PROVE KeysExpire'
    BY <2>2 DEF Acquire, Unanswered, Take, Expiry, Renew
  <2>3. ASSUME NEW j \in Jobs, Release(j) PROVE KeysExpire'
    BY <2>3 DEF Release
  <2>4. CASE UNCHANGED <<lock, ttl>>
    BY <2>4
  <2>5. ASSUME NEW j \in Jobs,
               \/ Deliver(j) \/ Skip(j) \/ RenewFails(j)
               \/ Finish(j) \/ ReleaseFails(j) \/ Die(j)
        PROVE  UNCHANGED <<lock, ttl>>
    BY <2>5 DEF Deliver, Skip, RenewFails, Finish, ReleaseFails, Die
  <2> QED
    BY <2>1, <2>2, <2>3, <2>4, <2>5 DEF LockNext, lockVars
<1> QED
  BY <1>1, <1>2, LockInvariance, PTL DEF LockSpec

THEOREM OrphanedKeysFade == LockSpec => OrphansFade
<1> DEFINE Fades == \A j \in Jobs : Orphaned(j) =>
                       \/ lock' # j
                       \/ /\ pc'[j] = "idle" /\ ttl' <= ttl
                          /\ Elapse => ttl' < ttl
<1>1. ASSUME LInv, KeysExpire, [LockNext]_lockVars PROVE [Fades]_lockVars
  <2> SUFFICES ASSUME NEW j \in Jobs, Orphaned(j), lock' = j, ~UNCHANGED lockVars
               PROVE  /\ pc'[j] = "idle" /\ ttl' <= ttl
                      /\ Elapse => ttl' < ttl
    OBVIOUS
  <2> USE <1>1, LockAssumption DEF LockAssumption, Orphaned, LInv, LockTypeOK, Places
  <2>1. ttl \in Nat /\ ttl > 0 /\ renewers = {}
    BY DEF KeysExpire, RenewersHold
  <2>2. CASE Elapse
    BY <2>1, <2>2 DEF Elapse
  <2>3. ASSUME NEW k \in Jobs,
               \/ Acquire(k) \/ Unanswered(k) \/ Renew(k) \/ RenewFails(k)
        PROVE  FALSE
    BY <2>1, <2>3 DEF Acquire, Unanswered, Take, Available, Renew, RenewFails, Due
  <2>4. ASSUME NEW k \in Jobs,
               \/ Deliver(k) \/ Skip(k) \/ Finish(k) \/ Release(k)
               \/ ReleaseFails(k) \/ Die(k)
        PROVE  pc'[j] = "idle" /\ ttl' = ttl
    BY <2>4 DEF Deliver, Skip, Finish, Release, MayDelete, ReleaseFails, Die, Goto
  <2>5. ~Elapse => pc'[j] = "idle" /\ ttl' = ttl
    BY <2>3, <2>4 DEF LockNext
  <2> QED BY <2>1, <2>2, <2>5
<1> QED
  BY <1>1, LockInvariance, KeysAlwaysExpire, PTL DEF LockSpec, OrphansFade

(***************************************************************************)
(* No job ever deletes the lock another job holds, whatever expired,       *)
(* crashed or failed in between.                                           *)
(***************************************************************************)
THEOREM ReleaseIsOwnerSafe == LockSpec => OnlyOwnerReleases
<1> DEFINE Safe == \A j \in Jobs : lock = j /\ lock' # j =>
                      \/ pc[j] = "releasing" /\ pc'[j] = "idle"
                      \/ ttl = 1 /\ pc' = pc
<1>1. ASSUME LInv, [LockNext]_lockVars PROVE [Safe]_lockVars
  <2> SUFFICES ASSUME NEW j \in Jobs, lock = j, lock' # j
               PROVE  \/ pc[j] = "releasing" /\ pc'[j] = "idle"
                      \/ ttl = 1 /\ pc' = pc
    OBVIOUS
  <2> USE LockAssumption DEF LockAssumption
  <2>1. lock # Nobody
    OBVIOUS
  <2>2. CASE Elapse
    BY <2>2 DEF Elapse
  <2>3. ASSUME NEW k \in Jobs, Release(k)
        PROVE pc[j] = "releasing" /\ pc'[j] = "idle"
    <3>1. k = j
      BY <2>3 DEF Release, MayDelete
    <3> QED
      BY <2>3, <3>1, <1>1 DEF Release, Goto, LInv, LockTypeOK
  <2>4. ASSUME NEW k \in Jobs,
               Acquire(k) \/ Unanswered(k)
        PROVE FALSE
    BY <2>1, <2>4 DEF Acquire, Unanswered, Take, Available
  <2>5. ASSUME NEW k \in Jobs,
               \/ Deliver(k) \/ Skip(k) \/ Renew(k) \/ RenewFails(k)
               \/ Finish(k) \/ ReleaseFails(k) \/ Die(k)
        PROVE FALSE
    BY <2>5 DEF Deliver, Skip, Renew, RenewFails, Finish, ReleaseFails, Die
  <2>6. CASE UNCHANGED lockVars
    BY <2>6 DEF lockVars
  <2> QED
    BY <1>1, <2>2, <2>3, <2>4, <2>5, <2>6 DEF LockNext
<1> QED
  BY <1>1, LockInvariance, PTL DEF LockSpec, OnlyOwnerReleases

-----------------------------------------------------------------------------
(***************************************************************************)
(* The jobs follow SyncLock, so what is proved of the lock holds of them.  *)
(***************************************************************************)
LEMMA LockSteps == [Next]_vars => [LockNext]_lockVars
<1> SUFFICES ASSUME [Next]_vars, ~UNCHANGED <<lock, ttl, pc, renewers, elapsed>>
             PROVE  LockNext
  BY DEF lockVars
<1>1. CASE \E i \in Items : Change(i) \/ Drift(i) \/ Remove(i)
  BY <1>1 DEF Change, Drift, Remove
<1>2. ASSUME NEW j \in Jobs, Attempt(j) PROVE Finish(j)
  BY <1>2 DEF Attempt, Find, Open, List, Get, Upsert, Complete, ServiceFails, Raise, Advance
<1>3. ASSUME NEW j \in Jobs, Start(j) \/ Crash(j) \/ Quiet(j) \/ RedisFails(j) PROVE LockNext
  BY <1>3 DEF Start, Crash, Quiet, RedisFails, LockNext
<1>4. CASE Tick
  BY <1>4 DEF Tick, LockNext
<1>5. CASE UNCHANGED vars
  BY <1>5 DEF vars
<1> QED BY <1>1, <1>2, <1>3, <1>4, <1>5 DEF Next, LockNext

(***************************************************************************)
(* The synchronisation runs under the lock of tasks.py: seen from the      *)
(* lock, every step of it is one of SyncLock or none.                      *)
(***************************************************************************)
THEOREM RunsUnderLock == Spec => LockSpec
<1>1. Init => LockInit BY DEF Init
<1> QED BY <1>1, LockSteps, PTL DEF Spec, LockSpec, lockVars

-----------------------------------------------------------------------------
(***************************************************************************)
(* What readers of the index see (IndexContract).                          *)
(***************************************************************************)
LEMMA StatusAlone ==
    ASSUME NEW r \in Row, NEW status \in {"running", "failed"}
    PROVE  [status |-> status, success |-> status = "completed" \/ r.success]
              = [r EXCEPT !.status = status]
<1>1. r = [status |-> r.status, success |-> r.success] /\ r.success \in BOOLEAN
  BY DEF Row
<1>2. (status = "completed" \/ r.success) = r.success
  BY <1>1
<1> QED BY <1>1, <1>2

LEMMA ContractSteps ==
    ASSUME IInv, [Next]_vars PROVE [Contract!Next]_<<index, row>>
<1>0. IInv' BY Inductive
<1>1. CASE \E j \in Jobs : Open(j) \/ ServiceFails(j)
  <2>1. PICK j \in Jobs : Open(j) \/ ServiceFails(j) BY <1>1
  <2>2. PICK s : s = Service(j) OBVIOUS
  <2>3. s \in Range(Services) /\ row \in [Range(Services) -> Row]
        /\ (ServiceFails(j) => row[s].status # "missing")
    BY <2>1, <2>2, Visited
       DEF Open, ServiceFails, IInv, Sound, Placed, Work, Service, TypeOK
  <2>4. CASE Open(j)
    <3>1. row' = [row EXCEPT ![s] = [row[s] EXCEPT !.status = "running"]] /\ index' = index
      BY <2>2, <2>3, <2>4, StatusAlone DEF Open, SetRow
    <3> QED BY <2>3, <3>1 DEF Contract!Next, Contract!Begin
  <2>5. CASE ServiceFails(j)
    <3>1. row' = [row EXCEPT ![s] = [row[s] EXCEPT !.status = "failed"]] /\ index' = index
      BY <2>2, <2>3, <2>5, StatusAlone DEF ServiceFails, SetRow
    <3> QED BY <2>3, <2>5, <3>1 DEF Contract!Next, Contract!FailSync
  <2> QED BY <2>1, <2>4, <2>5
<1>2. CASE \E j \in Jobs : Complete(j)
  <2>1. PICK j \in Jobs : Complete(j) BY <1>2
  <2>2. PICK w : w = work[j] OBVIOUS
  <2>3. PICK s : s = Services[w.at] OBVIOUS
  <2>4. /\ Sound(w) /\ w.step = "close" /\ s \in Range(Services)
        /\ row[s].status # "missing" /\ w.window \subseteq Of(s)
    BY <2>1, <2>2, <2>3, Visited DEF Complete, IInv, Sound, Placed, Work
  <2>5. /\ index' = [i \in Items |-> IF i \in DOMAIN w.got THEN w.got[i] ELSE index[i]]
        /\ SetRow(s, "completed")
    BY <2>1, <2>2, <2>3 DEF Complete, Service
  <2>6. row' = [row EXCEPT ![s] = [status |-> "completed", success |-> TRUE]]
    BY <2>5 DEF SetRow
  <2>7. \A i \in DOMAIN w.got : ServiceOf[i] = s /\ w.got[i] > 0
    BY <2>4, VersionsAre DEF Sound, Placed, Work, Counted, Of
  <2>8. index' \in [Items -> 0 .. MaxVersion]
    BY <1>0 DEF IInv, TypeOK
  <2>9. \A i \in Items : /\ ServiceOf[i] # s => index'[i] = index[i]
                         /\ index[i] > 0 => index'[i] > 0
    BY <2>5, <2>7
  <2> QED BY <2>4, <2>6, <2>8, <2>9 DEF Contract!Next, Contract!Finish
<1>3. CASE UNCHANGED <<index, row>>
  BY <1>3
<1>4. CASE \E i \in Items : Change(i) \/ Drift(i) \/ Remove(i)
  BY <1>3, <1>4 DEF Change, Drift, Remove
<1>5. ASSUME NEW j \in Jobs,
             \/ Start(j) \/ Crash(j) \/ Quiet(j) \/ RedisFails(j) \/ Find(j) \/ List(j)
             \/ (\E i \in Items : Get(j, i)) \/ Upsert(j) \/ Raise(j)
      PROVE  UNCHANGED <<index, row>>
  BY <1>5 DEF Start, Crash, Quiet, RedisFails, Find, List, Get, Upsert, Raise, data
<1>6. CASE Tick \/ UNCHANGED vars
  BY <1>3, <1>6 DEF Tick, vars, data
<1> QED BY <1>1, <1>2, <1>3, <1>4, <1>5, <1>6 DEF Next, Attempt

(***************************************************************************)
(* For any number of services, items and overlapping jobs: what an attempt *)
(* indexed appears in one step with "completed", touches no other service  *)
(* and makes nothing disappear (sync_service and index_item).              *)
(***************************************************************************)
THEOREM ReadersSeeContract == Spec => KeepsContract
<1>1. Init => Contract!Init BY DEF Init, Contract!Init
<1> QED BY <1>1, Invariance, ContractSteps, PTL DEF Spec, KeepsContract, Contract!Spec

-----------------------------------------------------------------------------
(***************************************************************************)
(* The index never goes back.  While no renewal has failed, the job at     *)
(* work has a live renewal task and hence the lock: there is one such job, *)
(* and what it has in hand is not older than the index.                    *)
(***************************************************************************)
Newer(w) ==
    /\ \A i \in DOMAIN w.page : w.page[i] >= index[i]
    /\ \A i \in DOMAIN w.got : w.got[i] >= index[i]
    /\ w.held # <<>> => w.held[2] >= index[w.held[1]]

AloneAtWork ==
    ~unrenewed => \A j \in Jobs :
        (pc[j] = "syncing" => j \in renewers) /\ Newer(work[j])

MInv == IInv /\ LInv /\ AloneAtWork

LEMMA OneJob ==
    ASSUME MInv, ~unrenewed, NEW j \in Jobs, NEW k \in Jobs,
           pc[j] = "syncing", pc[k] = "syncing"
    PROVE  j = k
  BY DEF MInv, AloneAtWork, LInv, RenewersHold

LEMMA RenewersStay ==
    ASSUME MInv, [Next]_vars, ~unrenewed'
    PROVE  ~unrenewed /\ \A j \in Jobs : pc'[j] = "syncing" => j \in renewers'
<1>1. ~unrenewed
  BY DEF Next, Attempt, Change, Drift, Remove, Find, Open, List, Get, Upsert, Complete,
         ServiceFails, Raise, Start, Crash, Quiet, RedisFails, Tick, vars, MInv, IInv, TypeOK
<1>2. \A j \in Jobs : pc[j] = "syncing" => j \in renewers
  BY <1>1 DEF MInv, AloneAtWork
<1>3. pc \in [Jobs -> Places] /\ renewers \subseteq Jobs
      /\ \A j \in renewers : lock = j
  BY DEF MInv, IInv, TypeOK, LInv, LockTypeOK, RenewersHold
<1>4. ASSUME NEW j \in Jobs,
             pc' = [pc EXCEPT ![j] = "syncing"] /\ renewers' = renewers \cup {j}
      PROVE  \A k \in Jobs : pc'[k] = "syncing" => k \in renewers'
  BY <1>2, <1>3, <1>4
<1>5. ASSUME NEW j \in Jobs, NEW place \in {"idle", "queued", "releasing"},
             pc' = [pc EXCEPT ![j] = place],
             renewers' = renewers \ {j} \/ renewers' = renewers
      PROVE  \A k \in Jobs : pc'[k] = "syncing" => k \in renewers'
  BY <1>2, <1>3, <1>5
<1>6. CASE pc' = pc /\ renewers' = renewers
  BY <1>1, <1>2, <1>6
<1>7. ASSUME NEW j \in Jobs, Attempt(j)
      PROVE  \A k \in Jobs : pc'[k] = "syncing" => k \in renewers'
  <2>1. (pc' = pc /\ renewers' = renewers) \/ Finish(j)
    BY <1>7 DEF Attempt, Find, Open, List, Get, Upsert, Complete, ServiceFails, Raise, Advance
  <2>2. CASE Finish(j)
    BY <1>5, <2>2 DEF Finish, Goto
  <2> QED BY <1>6, <2>1, <2>2
<1>8. ASSUME NEW j \in Jobs, Start(j) \/ Crash(j)
      PROVE  \A k \in Jobs : pc'[k] = "syncing" => k \in renewers'
  BY <1>4, <1>5, <1>8 DEF Start, Crash, Acquire, Die, Goto
<1>9. ASSUME NEW j \in Jobs, Quiet(j) \/ RedisFails(j)
      PROVE  \A k \in Jobs : pc'[k] = "syncing" => k \in renewers'
  <2>1. CASE Deliver(j) \/ Skip(j) \/ Release(j) \/ Unanswered(j)
             \/ ReleaseFails(j)
    BY <1>5, <2>1 DEF Deliver, Skip, Release, Unanswered,
                      ReleaseFails, Goto
  <2>2. CASE Renew(j)
    BY <1>3, <1>6, <2>2 DEF Renew, Due, MayExtend
  <2>3. ~(RenewFails(j) /\ unrenewed')
    OBVIOUS
  <2> QED BY <1>9, <2>1, <2>2, <2>3 DEF Quiet, RedisFails
<1>10. CASE Tick \/ UNCHANGED vars \/ \E i \in Items : Change(i) \/ Drift(i) \/ Remove(i)
  BY <1>6, <1>10 DEF Tick, Elapse, vars, Change, Drift, Remove
<1> QED BY <1>1, <1>7, <1>8, <1>9, <1>10 DEF Next

LEMMA NewAttemptIsNewer ==
    ASSUME NEW n \in 0 .. Len(Services) PROVE Newer(At(n))
<1>1. At(n).page = None /\ At(n).got = None /\ At(n).held = <<>>
  BY DEF At
<1> QED BY <1>1, NoneIsVersions DEF Newer

\* One attempt goes on and the index stays.
LEMMA NewerStays ==
    ASSUME IInv, \A k \in Jobs : Newer(work[k]), NEW j \in Jobs, NEW w, Newer(w),
           Set(j, w), index' = index
    PROVE  \A k \in Jobs : Newer(work[k])'
<1>1. \A k \in Jobs : work'[k] = IF k = j THEN w ELSE work[k]
  BY DEF Set, IInv, TypeOK
<1>2. \A k \in Jobs : Newer(work'[k])
  BY <1>1
<1> QED BY <1>2 DEF Newer

\* The steps of an attempt before its commit.
LEMMA NewerInHand ==
    ASSUME IInv, \A k \in Jobs : Newer(work[k]), NEW j \in Jobs,
           Find(j) \/ Open(j) \/ List(j) \/ (\E i \in Items : Get(j, i)) \/ Upsert(j)
    PROVE  \A k \in Jobs : Newer(work[k])'
<1>1. PICK w : w = work[j] OBVIOUS
<1>2. Sound(w) /\ w \in Work /\ Newer(w)
      /\ source \in [Items -> 0 .. MaxVersion] /\ \A i \in Items : index[i] <= source[i]
  BY <1>1 DEF IInv, Sound, Placed, TypeOK
<1>3. index' = index
  BY DEF Find, Open, List, Get, Upsert
<1>4. CASE Find(j) \/ Open(j)
  <2>1. \E v : Set(j, v) /\ v.page = w.page /\ v.got = w.got /\ v.held = w.held
    <3>1. CASE Find(j)
      <4> DEFINE v == [w EXCEPT !.step = "open",
                                !.absent = row[Service(j)].status = "missing",
                                !.window = Window(Service(j))]
      <4>1. Set(j, v) BY <1>1, <3>1 DEF Find
      <4>2. v.page = w.page /\ v.got = w.got /\ v.held = w.held BY <1>2 DEF Work
      <4> QED BY <4>1, <4>2
    <3>2. CASE Open(j)
      <4> DEFINE v == [w EXCEPT !.step = "list"]
      <4>1. Set(j, v) BY <1>1, <3>2 DEF Open
      <4>2. v.page = w.page /\ v.got = w.got /\ v.held = w.held BY <1>2 DEF Work
      <4> QED BY <4>1, <4>2
    <3> QED BY <1>4, <3>1, <3>2
  <2>2. PICK v : Set(j, v) /\ v.page = w.page /\ v.got = w.got /\ v.held = w.held
    BY <2>1
  <2>3. Newer(v)
    BY <1>2, <2>2 DEF Newer
  <2> QED BY <1>3, <2>2, <2>3, NewerStays
<1>5. CASE List(j)
  <2>1. PICK P \in SUBSET Live :
           Set(j, [w EXCEPT !.page = [i \in P |-> source[i]],
                            !.more = P # (w.window \cap Live) \ Counted(w),
                            !.step = IF P = {} THEN "close" ELSE "items"])
    BY <1>1, <1>5 DEF List
  <2> DEFINE v == [w EXCEPT !.page = [i \in P |-> source[i]],
                            !.more = P # (w.window \cap Live) \ Counted(w),
                            !.step = IF P = {} THEN "close" ELSE "items"]
  <2>2. v.page = [i \in P |-> source[i]] /\ v.got = w.got /\ v.held = w.held
    BY <1>2 DEF Work
  <2>3. w.held = <<>>
    BY <1>1, <1>2, <1>5 DEF List, Sound, Placed
  <2> HIDE DEF v
  <2>4. \A i \in P : index[i] \in Nat /\ source[i] \in Nat /\ source[i] >= index[i]
    BY <1>2 DEF Live, IInv, TypeOK
  <2>5. Newer(v)
    BY <1>2, <2>2, <2>3, <2>4 DEF Newer
  <2> QED BY <1>3, <2>1, <2>5, NewerStays DEF v
<1>6. ASSUME NEW i \in Items, Get(j, i) PROVE \A k \in Jobs : Newer(work[k])'
  <2>1. PICK x \in {w.page[i], source[i]} : Set(j, [w EXCEPT !.held = <<i, x>>])
    <3>1. PICK r \in Reads[i] :
             Set(j, [w EXCEPT !.held = <<i, IF r = "page" THEN w.page[i] ELSE source[i]>>])
      BY <1>1, <1>6 DEF Get
    <3> QED BY <3>1
  <2> DEFINE v == [w EXCEPT !.held = <<i, x>>]
  <2>2. v.page = w.page /\ v.got = w.got /\ v.held[1] = i /\ v.held[2] = x
    BY <1>2 DEF Work
  <2>3. x >= index[i]
    BY <1>1, <1>2, <1>6 DEF Get, Newer, IInv, TypeOK
  <2> HIDE DEF v
  <2>4. Newer(v)
    BY <1>2, <2>2, <2>3 DEF Newer
  <2> QED BY <1>3, <2>1, <2>4, NewerStays DEF v
<1>7. CASE Upsert(j)
  <2> DEFINE i == w.held[1]
             page == Restrict(w.page, DOMAIN w.page \ {i})
             got == [k \in DOMAIN w.got \cup {i} |-> IF k = i THEN w.held[2] ELSE w.got[k]]
             u == [w EXCEPT !.held = <<>>, !.page = page, !.got = got]
             v == [u EXCEPT !.step = NextStep(u)]
  <2>1. Set(j, v) /\ w.held # <<>>
    BY <1>1, <1>7 DEF Upsert
  <2>2. DOMAIN page = DOMAIN w.page \ {i} /\ \A k \in DOMAIN page : page[k] = w.page[k]
    BY DEF Restrict
  <2>3. DOMAIN got = DOMAIN w.got \cup {i}
        /\ \A k \in DOMAIN got : got[k] = IF k = i THEN w.held[2] ELSE w.got[k]
    OBVIOUS
  <2> HIDE DEF page, got, i
  <2>4. v.page = page /\ v.got = got /\ v.held = <<>>
    BY <1>2 DEF Work
  <2> HIDE DEF v
  <2>5. Newer(v)
    BY <1>2, <2>1, <2>2, <2>3, <2>4 DEF Newer, i
  <2> QED BY <1>3, <2>1, <2>5, NewerStays
<1> QED BY <1>4, <1>5, <1>6, <1>7

\* A commit by the only job at work.
LEMMA NewerAfterCommit ==
    ASSUME MInv, ~unrenewed, NEW j \in Jobs, Complete(j)
    PROVE  (\A i \in Items : index'[i] >= index[i]) /\ \A k \in Jobs : Newer(work[k])'
<1>1. IInv /\ \A k \in Jobs : Newer(work[k])
  BY DEF MInv, AloneAtWork
<1>2. work[j].at > 0 /\ pc[j] = "syncing"
  BY <1>1 DEF Complete, IInv, Sound, Placed, TypeOK
<1>3. index' = [i \in Items |-> IF i \in DOMAIN work[j].got THEN work[j].got[i] ELSE index[i]]
  BY DEF Complete
<1>4. \A i \in Items : index'[i] >= index[i]
  BY <1>1, <1>3 DEF Newer, IInv, TypeOK
<1>5. Advance(j)
  BY DEF Complete
<1>6. PICK n \in 0 .. Len(Services) : Set(j, At(n))
  BY <1>2, <1>5, Visited DEF Advance, Idle, MInv, IInv, TypeOK, Work
<1>7. \A k \in Jobs : \E n2 \in 0 .. Len(Services) : work'[k] = At(n2)
  <2> SUFFICES ASSUME NEW k \in Jobs PROVE \E n2 \in 0 .. Len(Services) : work'[k] = At(n2)
    OBVIOUS
  <2>1. CASE k = j
    BY <1>1, <1>6, <2>1 DEF Set, IInv, TypeOK
  <2>2. CASE k # j
    <3>1. work[k] \in Work /\ pc[k] # "syncing" /\ work'[k] = work[k]
      BY <1>1, <1>2, <1>6, <2>2, OneJob DEF Set, IInv, TypeOK
    <3>2. work[k].at = 0 /\ work[k].step = "find"
      BY <1>1, <3>1 DEF IInv, TypeOK, Sound, Placed, Work
    <3>3. work[k] = At(0)
      BY <1>1, <3>2 DEF IInv, Sound, Placed
    <3> QED BY <3>1, <3>3, Visited
  <2> QED BY <2>1, <2>2
<1>8. ASSUME NEW k \in Jobs PROVE Newer(work[k])'
  <2>1. PICK n2 \in 0 .. Len(Services) : work'[k] = At(n2)
    BY <1>7
  <2>2. work'[k].page = None /\ work'[k].got = None /\ work'[k].held = <<>>
    BY <2>1 DEF At
  <2> QED BY <2>2, NoneIsVersions DEF Newer
<1> QED BY <1>4, <1>8

LEMMA NewerInductive ==
    ASSUME MInv, [Next]_vars, ~unrenewed'
    PROVE  \A k \in Jobs : Newer(work[k])'
<1>1. IInv /\ ~unrenewed /\ \A k \in Jobs : Newer(work[k])
  BY RenewersStay DEF MInv, AloneAtWork
<1>2. ASSUME NEW i \in Items, Change(i) PROVE \A k \in Jobs : Newer(work[k])'
  <2>1. ASSUME NEW k \in Jobs
        PROVE  /\ work'[k].page = work[k].page /\ work'[k].got = work[k].got
               /\ work'[k].held = work[k].held
    <3>1. work[k] \in Work /\ DOMAIN work[k].got \cup DOMAIN work[k].page \subseteq work[k].window
      BY <1>1 DEF IInv, TypeOK, Sound, Placed, Counted
    <3>2. \E match \in BOOLEAN : work'[k] \in {work[k], Noticed(work[k], i, match)}
      BY <1>2 DEF Change
    <3> QED BY <3>1, <3>2, NoticedIs
  <2> QED BY <1>1, <1>2, <2>1 DEF Change, Newer
<1>3. ASSUME NEW i \in Items, Drift(i) \/ Remove(i) PROVE \A k \in Jobs : Newer(work[k])'
  BY <1>1, <1>3 DEF Drift, Remove, Newer
<1>4. ASSUME NEW j \in Jobs, ServiceFails(j) \/ Raise(j) \/ Start(j) \/ Crash(j)
      PROVE  \A k \in Jobs : Newer(work[k])'
  <2>1. work[j].at \in 0 .. Len(Services)
    BY <1>1 DEF IInv, TypeOK, Work
  <2>2. ServiceFails(j) => work[j].at > 0
    BY <1>1 DEF ServiceFails, IInv, Sound, Placed
  <2>3. PICK n \in 0 .. Len(Services) : Set(j, At(n))
    BY <1>4, <2>1, <2>2, Visited DEF ServiceFails, Raise, Start, Crash, Advance, Idle
  <2>4. index' = index
    BY <1>4 DEF ServiceFails, Raise, Start, Crash
  <2> QED BY <1>1, <2>3, <2>4, NewAttemptIsNewer, NewerStays
<1>5. ASSUME NEW j \in Jobs, Attempt(j) PROVE \A k \in Jobs : Newer(work[k])'
  BY <1>1, <1>4, <1>5, NewerInHand, NewerAfterCommit DEF Attempt
<1>6. CASE \/ Tick \/ UNCHANGED vars
           \/ \E j \in Jobs : Quiet(j) \/ RedisFails(j)
  <2>1. index' = index /\ work' = work
    BY <1>6 DEF Tick, vars, data, Quiet, RedisFails
  <2> QED BY <1>1, <2>1 DEF Newer
<1> QED BY <1>2, <1>3, <1>4, <1>5, <1>6 DEF Next

LEMMA MInitially == Init => MInv
<1> SUFFICES ASSUME Init PROVE MInv
  OBVIOUS
<1>2. LInv
  BY LockInitially DEF Init
<1>3. \A j \in Jobs : pc[j] # "syncing" /\ Newer(work[j])
  <2>1. \A j \in Jobs : pc[j] # "syncing" /\ work[j] = Idle
    BY DEF Init, LockInit
  <2>2. 0 \in 0 .. Len(Services)
    BY Visited
  <2>3. Newer(Idle)
    BY <2>2, NewAttemptIsNewer DEF Idle
  <2> QED BY <2>1, <2>3
<1> QED BY <1>2, <1>3, Initially DEF MInv, AloneAtWork

LEMMA MInductive == MInv /\ [Next]_vars => MInv'
<1> SUFFICES ASSUME MInv, [Next]_vars PROVE MInv'
  OBVIOUS
<1>1. IInv'
  BY Inductive DEF MInv
<1>2. LInv'
  BY LockSteps, LockInductive DEF MInv, lockVars
<1>3. AloneAtWork'
  BY RenewersStay, NewerInductive DEF AloneAtWork
<1> QED BY <1>1, <1>2, <1>3 DEF MInv

(***************************************************************************)
(* As long as no renewal of the lock has failed, no item of the index goes *)
(* back to an older version, for any number of jobs, every expiry and      *)
(* every lateness of the renewals that LockAssumption admits.              *)
(***************************************************************************)
THEOREM IndexOnlyAdvances == Spec => IndexNeverRegresses
<1>1. ASSUME MInv, [Next]_vars
      PROVE  [~unrenewed' => \A i \in Items : index'[i] >= index[i]]_vars
  <2> SUFFICES ASSUME ~unrenewed', ~UNCHANGED vars
               PROVE  \A i \in Items : index'[i] >= index[i]
    OBVIOUS
  <2>1. ~unrenewed
    BY <1>1, RenewersStay
  <2>2. ASSUME NEW j \in Jobs, Complete(j) PROVE \A i \in Items : index'[i] >= index[i]
    BY <1>1, <2>1, <2>2, NewerAfterCommit
  <2>3. CASE index' = index
    BY <1>1, <2>3 DEF MInv, IInv, TypeOK
  <2>4. index' = index \/ \E j \in Jobs : Complete(j)
    BY <1>1 DEF Next, Attempt, Change, Drift, Remove, Find, Open, List, Get, Upsert, ServiceFails,
                Raise, Start, Crash, Quiet, RedisFails, Tick, data, vars
  <2> QED BY <2>2, <2>3, <2>4
<1> QED BY <1>1, MInitially, MInductive, PTL DEF Spec, IndexNeverRegresses

(***************************************************************************)
(* Within the synchronisation as a whole, too, two jobs of a user are at   *)
(* work at the same time only after the renewal task of one of them died.  *)
(***************************************************************************)
THEOREM JobsOverlapByDeadRenewal == Spec => []Exclusive
<1>1. MInv => Exclusive
  BY DEF MInv, LInv, RenewersHold, Exclusive
<1> QED BY <1>1, MInitially, MInductive, PTL DEF Spec

=============================================================================
