------------------------------ MODULE SyncLock ------------------------------
(***************************************************************************)
(* The per-user overlap lock of the background synchronisation             *)
(* (src/app/workers/tasks.py).  Every job of one user contends for a       *)
(* single Redis key: SET NX EX takes it, a renewal task running beside the *)
(* synchronisation extends it, and compare-and-delete gives it back.       *)
(*                                                                         *)
(* Time advances in ticks.  Redis ages the key; each renewal task knows    *)
(* how long ago it last extended it.  A renewal that is due is late by at  *)
(* most Lateness ticks: the event loop is shared with the synchronisation, *)
(* which hands every blocking call to a thread.  Redis may be unreachable  *)
(* (a renewal or a release then raises, an acquisition may take effect     *)
(* and never be answered) and a worker process may die.                    *)
(*                                                                         *)
(* lock_value is a fresh random token per job.  The model names the token  *)
(* after the job and lets the name be used again only once no key carries  *)
(* it.                                                                     *)
(***************************************************************************)
EXTENDS Integers

CONSTANTS Jobs,       \* concurrent sync_user tasks of one user
          Nobody,     \* the value of an absent key
          TTL,        \* sync_lock_ttl_seconds, in ticks
          Lateness    \* the most a due renewal is delayed, in ticks

ASSUME LockAssumption ==
    /\ Nobody \notin Jobs
    /\ TTL \in Nat \ {0} /\ Lateness \in Nat
    /\ Lateness + 1 < TTL /\ Lateness + (TTL \div 3) < TTL

VARIABLES lock,       \* the token under the key
          ttl,        \* remaining life of the key; 0 with a token: no expiry
          pc,         \* where each job is
          renewers,   \* the jobs whose renewal task is alive
          elapsed     \* ticks since the job last extended the key

lockVars == <<lock, ttl, pc, renewers, elapsed>>

Places == {"idle", "queued", "syncing", "releasing"}

\* ex=settings.sync_lock_ttl_seconds, and a mutant that sets no expiry.
MutExpiry == 0
Expiry == TTL

\* interval = max(1, ttl_seconds // 3), and a mutant that renews too late.
MutInterval == TTL
Interval == IF TTL \div 3 > 1 THEN TTL \div 3 ELSE 1

\* nx=True.
Available == lock = Nobody

\* The comparison of the release script, and a mutant that deletes blindly.
MutMayDelete(j) == TRUE
MayDelete(j) == lock = j

\* The comparison of the renewal script.
MayExtend(j) == lock = j

LockInit ==
    /\ lock = Nobody /\ ttl = 0
    /\ pc = [j \in Jobs |-> "idle"]
    /\ renewers = {}
    /\ elapsed = [j \in Jobs |-> 0]

Goto(j, place) == pc' = [pc EXCEPT ![j] = place]

Take(j) ==
    /\ Available
    /\ lock' = j /\ ttl' = Expiry

-----------------------------------------------------------------------------
\* Celery Beat or the trigger endpoint enqueues sync_user for the user.
Deliver(j) ==
    /\ pc[j] = "idle" /\ lock # j
    /\ Goto(j, "queued")
    /\ UNCHANGED <<lock, ttl, renewers, elapsed>>

Acquire(j) ==
    /\ pc[j] = "queued"
    /\ Take(j)
    /\ Goto(j, "syncing")
    /\ renewers' = renewers \cup {j}
    /\ elapsed' = [elapsed EXCEPT ![j] = 0]

\* {"status": "skipped", "reason": "sync_already_running"}
Skip(j) ==
    /\ pc[j] = "queued"
    /\ ~Available
    /\ Goto(j, "idle")
    /\ UNCHANGED <<lock, ttl, renewers, elapsed>>

\* Redis sets the key but the reply is lost: the task dies before its try.
Unanswered(j) ==
    /\ pc[j] = "queued"
    /\ Take(j)
    /\ Goto(j, "idle")
    /\ UNCHANGED <<renewers, elapsed>>

Due(j) == pc[j] = "syncing" /\ j \in renewers /\ elapsed[j] >= Interval

\* The key is no longer ours: the renewal task returns, the sync goes on.
Renew(j) ==
    /\ Due(j)
    /\ IF MayExtend(j)
       THEN /\ ttl' = TTL
            /\ elapsed' = [elapsed EXCEPT ![j] = 0]
            /\ UNCHANGED renewers
       ELSE /\ renewers' = renewers \ {j}
            /\ UNCHANGED <<ttl, elapsed>>
    /\ UNCHANGED <<lock, pc>>

\* eval raises: the renewal task dies and nothing looks at it until the end.
RenewFails(j) ==
    /\ Due(j)
    /\ renewers' = renewers \ {j}
    /\ UNCHANGED <<lock, ttl, pc, elapsed>>

\* The synchronisation returned or raised; the finally block cancels the
\* renewal task.
Finish(j) ==
    /\ pc[j] = "syncing"
    /\ Goto(j, "releasing")
    /\ renewers' = renewers \ {j}
    /\ UNCHANGED <<lock, ttl, elapsed>>

Release(j) ==
    /\ pc[j] = "releasing"
    /\ Goto(j, "idle")
    /\ IF MayDelete(j) THEN lock' = Nobody /\ ttl' = 0 ELSE UNCHANGED <<lock, ttl>>
    /\ UNCHANGED <<renewers, elapsed>>

\* The exception is logged and swallowed.
ReleaseFails(j) ==
    /\ pc[j] = "releasing"
    /\ Goto(j, "idle")
    /\ UNCHANGED <<lock, ttl, renewers, elapsed>>

Die(j) ==
    /\ pc[j] \in {"syncing", "releasing"}
    /\ Goto(j, "idle")
    /\ renewers' = renewers \ {j}
    /\ UNCHANGED <<lock, ttl, elapsed>>

Elapse ==
    /\ \A j \in renewers : elapsed[j] < Interval + Lateness
    /\ elapsed' = [j \in Jobs |->
                      IF j \in renewers THEN elapsed[j] + 1 ELSE elapsed[j]]
    /\ lock' = IF ttl = 1 THEN Nobody ELSE lock
    /\ ttl' = IF ttl > 0 THEN ttl - 1 ELSE 0
    /\ UNCHANGED <<pc, renewers>>

LockNext ==
    \/ Elapse
    \/ \E j \in Jobs :
         \/ Deliver(j) \/ Acquire(j) \/ Skip(j) \/ Unanswered(j)
         \/ Renew(j) \/ RenewFails(j)
         \/ Finish(j) \/ Release(j) \/ ReleaseFails(j) \/ Die(j)

LockSpec == LockInit /\ [][LockNext]_lockVars

\* Time passes and a live event loop runs its renewal tasks.
LockFairSpec ==
    LockSpec /\ WF_lockVars(Elapse) /\ \A j \in Jobs : WF_lockVars(Renew(j))

-----------------------------------------------------------------------------
LockTypeOK ==
    /\ lock \in Jobs \cup {Nobody}
    /\ ttl \in 0 .. TTL
    /\ pc \in [Jobs -> Places]
    /\ renewers \subseteq {j \in Jobs : pc[j] = "syncing"}
    /\ elapsed \in [Jobs -> 0 .. Interval + Lateness]

(***************************************************************************)
(* Two jobs of a user synchronise at the same time only after the renewal  *)
(* task of one of them has died: while it lives, the key outlasts every    *)
(* delay of the renewal (interval and expiry in _sync_user and             *)
(* _renew_sync_lock).                                                      *)
(***************************************************************************)
Exclusive ==
    \A i, j \in Jobs :
        i # j /\ pc[i] = "syncing" /\ pc[j] = "syncing"
            => i \notin renewers \/ j \notin renewers

(***************************************************************************)
(* A token leaves the key only when its own job releases it or when its    *)
(* time is over: a job that outlived its lock never deletes the lock of    *)
(* the job that took over (compare-and-delete in _release_sync_lock).      *)
(***************************************************************************)
OnlyOwnerReleases ==
    [][\A j \in Jobs : lock = j /\ lock' # j =>
          \/ pc[j] = "releasing" /\ pc'[j] = "idle"
          \/ ttl = 1 /\ pc' = pc]_lockVars

(***************************************************************************)
(* A lock whose job is gone (a crash, an unanswered SET, a failed release) *)
(* does not block the user forever: the expiry frees it.                   *)
(***************************************************************************)
OrphanedLockExpires ==
    \A j \in Jobs : (lock = j /\ pc[j] = "idle") ~> (lock # j)

=============================================================================
