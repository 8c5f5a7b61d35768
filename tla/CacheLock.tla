----------------------------- MODULE CacheLock -----------------------------
(***************************************************************************)
(* CacheService.entryWithLock: concurrent calls, in any number of worker   *)
(* processes, that want the data of one cache key, and a lock key that is  *)
(* to keep all but one from asking the external service for it.            *)
(*                                                                         *)
(* A caller waits at every await, for Redis or for the service.  Redis     *)
(* runs a command in one step; its answer may get lost.  Time is left      *)
(* out: a key may expire at any moment.                                    *)
(*                                                                         *)
(* The lock key holds 1 whoever set it.  Two history variables tell more   *)
(* than the program knows: lock names who set the key, and robbed records  *)
(* that the key vanished while the caller that set it was still at work.   *)
(***************************************************************************)
EXTENDS Naturals

CONSTANTS
    Callers,    \* calls of entryWithLock
    Nobody,     \* the lock key does not exist
    MaxTry      \* MAX_TRY

ASSUME CacheAssumption == Nobody \notin Callers /\ MaxTry \in Nat

VARIABLES
    cached,     \* the cache key exists
    lock,       \* who set the lock key
    robbed,
    pc,         \* what a caller waits for
    tries       \* its tryCount

vars == <<cached, lock, robbed, pc, tries>>
redis == <<cached, lock, robbed>>

Init ==
    /\ cached = FALSE
    /\ lock = Nobody
    /\ robbed = FALSE
    /\ pc = [c \in Callers |-> "idle"]
    /\ tries = [c \in Callers |-> 0]

\* Between taking the lock and removing it
Working(c) == pc[c] \in {"fetch", "store", "unlock", "unlockFailed"}

Ended(c) == pc[c] \in {"done", "failed"}

Goto(c, place) == pc' = [pc EXCEPT ![c] = place]

\* DEL of the lock key, by caller c or, for c = Nobody, by its expiry
RemoveLock(c) ==
    /\ lock' = Nobody
    /\ robbed' = (robbed \/ \E o \in Callers \ {c} : lock = o /\ Working(o))

Begin(c) ==
    /\ pc[c] = "idle"
    /\ Goto(c, "get")
    /\ UNCHANGED <<redis, tries>>

\* The cached data, if there is any
Get(c) ==
    /\ pc[c] = "get"
    /\ Goto(c, IF cached THEN "done" ELSE "lock")
    /\ UNCHANGED <<redis, tries>>

\* Mutant: the key is set whether it exists or not.
IsLockedOverwrites(c) ==
    /\ pc[c] = "lock"
    /\ lock' = c
    /\ Goto(c, "fetch")
    /\ UNCHANGED <<cached, robbed, tries>>

\* isLocked(): SET NX
IsLocked(c) ==
    /\ pc[c] = "lock"
    /\ IF lock = Nobody
       THEN lock' = c /\ Goto(c, "fetch")
       ELSE Goto(c, "sleep") /\ UNCHANGED lock
    /\ UNCHANGED <<cached, robbed, tries>>

\* Mutant: the number of tries is not passed on.
RecurseForgets(c) ==
    /\ pc[c] = "sleep"
    /\ tries' = [tries EXCEPT ![c] = 0]
    /\ Goto(c, "get")
    /\ UNCHANGED redis

\* recurseEntryWithLock(): the same call with one try more, which gives up
\* beyond the maximum.
Recurse(c) ==
    /\ pc[c] = "sleep"
    /\ tries' = [tries EXCEPT ![c] = @ + 1]
    /\ Goto(c, IF tries'[c] > MaxTry THEN "giveUp" ELSE "get")
    /\ UNCHANGED redis

\* Giving up removes the lock, whoever holds it.
GiveUp(c) ==
    /\ pc[c] = "giveUp"
    /\ RemoveLock(c)
    /\ Goto(c, "failed")
    /\ UNCHANGED <<cached, tries>>

\* Mutant: the lock is removed before the data is stored.
FetchUnlocks(c) ==
    /\ pc[c] = "fetch"
    /\ RemoveLock(c)
    /\ Goto(c, "store")
    /\ UNCHANGED <<cached, tries>>

\* The service and the callback answer; what expires at once is not stored.
Fetch(c) ==
    /\ pc[c] = "fetch"
    /\ \/ Goto(c, "store")
       \/ Goto(c, "unlock")
    /\ UNCHANGED <<redis, tries>>

\* SET of the data with its expiry answers OK, or something else.
Store(c) ==
    /\ pc[c] = "store"
    /\ \/ cached' = TRUE /\ Goto(c, "unlock")
       \/ UNCHANGED cached /\ Goto(c, "unlockFailed")
    /\ UNCHANGED <<lock, robbed, tries>>

Unlock(c) ==
    /\ pc[c] \in {"unlock", "unlockFailed"}
    /\ RemoveLock(c)
    /\ Goto(c, IF pc[c] = "unlock" THEN "done" ELSE "failed")
    /\ UNCHANGED <<cached, tries>>

\* An await rejects, or its process dies: the call fails, and nobody removes
\* the lock.  A command to Redis may have had its effect.
Fails(c) ==
    /\ pc[c] # "idle" /\ ~Ended(c)
    /\ Goto(c, "failed")
    /\ \/ UNCHANGED redis
       \/ /\ pc[c] = "lock" /\ lock = Nobody
          /\ lock' = c
          /\ UNCHANGED <<cached, robbed>>
       \/ /\ pc[c] = "store"
          /\ cached' = TRUE
          /\ UNCHANGED <<lock, robbed>>
       \/ /\ pc[c] \in {"unlock", "unlockFailed", "giveUp"}
          /\ RemoveLock(c)
          /\ UNCHANGED cached
    /\ UNCHANGED tries

\* The 30 seconds of the lock are over.
LockExpires ==
    /\ lock # Nobody
    /\ RemoveLock(Nobody)
    /\ UNCHANGED <<cached, pc, tries>>

\* The data expires, or deleteCache() removes it.
CacheVanishes ==
    /\ cached
    /\ cached' = FALSE
    /\ UNCHANGED <<lock, robbed, pc, tries>>

Step(c) ==
    \/ Get(c) \/ IsLocked(c) \/ Recurse(c) \/ GiveUp(c)
    \/ Fetch(c) \/ Store(c) \/ Unlock(c)

Next ==
    \/ \E c \in Callers : Begin(c) \/ Step(c) \/ Fails(c)
    \/ LockExpires
    \/ CacheVanishes

Spec == Init /\ [][Next]_vars

\* Redis and the service answer, timers fire.  No key has to expire.
FairSpec == Spec /\ \A c \in Callers : WF_vars(Step(c))

(***************************************************************************)
(* Properties                                                              *)
(***************************************************************************)
TypeOK ==
    /\ cached \in BOOLEAN
    /\ lock \in Callers \cup {Nobody}
    /\ robbed \in BOOLEAN
    /\ pc \in [Callers -> {"idle", "get", "lock", "sleep", "giveUp", "fetch",
                           "store", "unlock", "unlockFailed", "done", "failed"}]
    /\ tries \in [Callers -> 0 .. MaxTry + 1]

\* Only one caller at a time asks the service and stores its answer, and it
\* holds the lock to the end, unless some caller lost its lock at work: to the
\* expiry, or to another caller that gave up.  Failed calls, lost answers and
\* keys that stay behind do not weaken this.
WorksAlone ==
    ~robbed =>
        /\ \A c, d \in Callers : Working(c) /\ Working(d) => c = d
        /\ \A c \in Callers : Working(c) => lock = c

\* A caller is not robbed by the orderly end of another call: the release, which
\* does not look at who set the key, is harmless until the first robbery.
ReleaseIsHarmless ==
    [][\A c \in Callers : ~robbed /\ Unlock(c) => ~robbed']_vars

\* Every call ends, even when a key that was left behind never expired.
CallsEnd == \A c \in Callers : pc[c] # "idle" ~> Ended(c)
=============================================================================
