------------------------------ MODULE NanoMutex ------------------------------
(***************************************************************************)
(* Nano_mutex (core_unix/nano_mutex): a mutex that is one OCaml record     *)
(* while uncontested and borrows an OS-level blocker (an error-checking    *)
(* pthread mutex and a condition variable) while contested.  Blockers are  *)
(* recycled through one global pool shared by all the nano-mutexes of the  *)
(* program.                                                                *)
(*                                                                         *)
(* OCaml threads share a runtime lock that is given up only where code     *)
(* allocates or blocks.  Every action below is a stretch of code with no   *)
(* such point inside; between two actions any other thread may run.        *)
(***************************************************************************)
EXTENDS Naturals, Sequences, FiniteSets

CONSTANTS Threads,
          Mutexes,
          Blockers,    (* the blockers the program can ever allocate          *)
          NoThread, NoMutex, NoBlocker,
          LockOrder    (* <<n, m>>: a thread that has n may block on m        *)

ASSUME NanoMutexAssumption ==
          /\ IsFiniteSet(Threads)
          /\ NoThread \notin Threads
          /\ NoMutex \notin Mutexes
          /\ NoBlocker \notin Blockers
          /\ LockOrder \subseteq Mutexes \X Mutexes

VARIABLES
  holder,      (* t.id_of_thread_holding_lock, per mutex                     *)
  num_using,   (* t.num_using_blocker, per mutex                             *)
  blocker,     (* t.blocker, per mutex                                       *)
  pool,        (* Blocker.unused: a first-in first-out Thread_safe_queue     *)
  created,     (* the blockers allocated so far                              *)
  pc,          (* where each thread is                                       *)
  at,          (* the mutex each busy thread was called on                   *)
  purpose,     (* the call a busy thread is in: lock or unlock               *)
  blk,         (* the local blocker of with_blocker                          *)
  fresh,       (* the local new_blocker of with_blocker                      *)
  owns         (* history: the mutexes each thread was told it has           *)

records == <<holder, num_using, blocker>>
locals  == <<at, purpose, blk, fresh>>
vars    == <<records, pool, created, pc, locals, owns>>

PCs == { "idle",      (* in no call of Nano_mutex                            *)
         "slow",      (* lock found another holder; calls with_blocker       *)
         "made",      (* Blocker.create returned; calls with_blocker0        *)
         "spare",     (* lost the race to install; saves its new blocker     *)
         "enter",     (* locks the blocker's mutex                           *)
         "inside",    (* has the blocker's mutex; runs f                     *)
         "parking",   (* in Condition.wait, still has the blocker's mutex    *)
         "parked",    (* waits for the condition                             *)
         "woken",     (* woken; wants the blocker's mutex back               *)
         "leaving",   (* f returned; unlocks the blocker's mutex             *)
         "left",      (* runs the finally of with_blocker                    *)
         "saving",    (* was the last user; saves the blocker                *)
         "retry" }    (* the recursive call at the end of lock               *)

TypeOK == /\ holder \in [Mutexes -> Threads \cup {NoThread}]
          /\ num_using \in [Mutexes -> Nat]
          /\ blocker \in [Mutexes -> Blockers \cup {NoBlocker}]
          /\ pool \in Seq(Blockers)
          /\ created \in SUBSET Blockers
          /\ pc \in [Threads -> PCs]
          /\ at \in [Threads -> Mutexes \cup {NoMutex}]
          /\ purpose \in [Threads -> {"lock", "unlock"}]
          /\ blk \in [Threads -> Blockers \cup {NoBlocker}]
          /\ fresh \in [Threads -> Blockers \cup {NoBlocker}]
          /\ owns \in [Threads -> SUBSET Mutexes]

Init == /\ holder = [m \in Mutexes |-> NoThread]
        /\ num_using = [m \in Mutexes |-> 0]
        /\ blocker = [m \in Mutexes |-> NoBlocker]
        /\ pool = <<>>
        /\ created = {}
        /\ pc = [t \in Threads |-> "idle"]
        /\ at = [t \in Threads |-> NoMutex]
        /\ purpose = [t \in Threads |-> "lock"]
        /\ blk = [t \in Threads |-> NoBlocker]
        /\ fresh = [t \in Threads |-> NoBlocker]
        /\ owns = [t \in Threads |-> {}]

Goto(t, from, to) == /\ pc[t] = from
                     /\ pc' = [pc EXCEPT ![t] = to]

\* A step that changes nothing but where the thread is.
Move(t, from, to) == Goto(t, from, to) /\ UNCHANGED <<records, pool, created, locals, owns>>

(***************************************************************************)
(* The OS-level pair inside a blocker, external to the package.  The mutex *)
(* of b is taken by the thread that runs under it; Condition.wait gives it *)
(* up and joins the waiters in one step, and takes it back before it       *)
(* returns.                                                                *)
(***************************************************************************)
HasBlockerMutex(t, b) == blk[t] = b /\ pc[t] \in {"inside", "parking", "leaving"}

BlockerMutexFree(b) == \A t \in Threads : ~ HasBlockerMutex(t, b)

Waiters(b) == {t \in Threads : pc[t] = "parked" /\ blk[t] = b}

-----------------------------------------------------------------------------
(***************************************************************************)
(* The calls.  An idle thread calls lock, try_lock or unlock on any mutex; *)
(* critical_section is lock_exn, the caller's own calls, and unlock_exn.   *)
(***************************************************************************)

Acquire(t, m) == /\ holder[m] = NoThread
                 /\ holder' = [holder EXCEPT ![m] = t]
                 /\ owns' = [owns EXCEPT ![t] = @ \cup {m}]

\* lock or try_lock on a free mutex: the test and the assignment are one
\* stretch without an allocation.
LockFree(t, m) == /\ pc[t] = "idle"
                  /\ Acquire(t, m)
                  /\ UNCHANGED <<num_using, blocker, pool, created, pc, locals>>

\* lock on a mutex another thread has: the closure for with_blocker is
\* allocated, so the holder may be gone by the time with_blocker runs.
LockHeld(t, m) == /\ Goto(t, "idle", "slow")
                  /\ holder[m] \notin {NoThread, t}
                  /\ \A n \in owns[t] : <<n, m>> \in LockOrder
                  /\ at' = [at EXCEPT ![t] = m]
                  /\ purpose' = [purpose EXCEPT ![t] = "lock"]
                  /\ UNCHANGED <<records, pool, created, blk, fresh, owns>>

\* The answers that change nothing.  lock and try_lock by the holder: Error.
RefuseLock(t, m) == pc[t] = "idle" /\ holder[m] = t /\ UNCHANGED vars

\* try_lock of a mutex another thread has: `Not_acquired.
NotAcquired(t, m) == pc[t] = "idle" /\ holder[m] \notin {NoThread, t} /\ UNCHANGED vars

\* unlock of an unlocked mutex, or of one another thread has: Error.
RefuseUnlock(t, m) == pc[t] = "idle" /\ holder[m] # t /\ UNCHANGED vars

\* with_blocker on a mutex that already has a blocker.
JoinBlocker(t, m) == /\ blocker[m] # NoBlocker
                     /\ num_using' = [num_using EXCEPT ![m] = @ + 1]
                     /\ blk' = [blk EXCEPT ![t] = blocker[m]]

\* Mutant: unlock never wakes a waiter.
UnlockWithoutSignal(t, m) == /\ pc[t] = "idle"
                             /\ holder[m] = t
                             /\ holder' = [holder EXCEPT ![m] = NoThread]
                             /\ owns' = [owns EXCEPT ![t] = @ \ {m}]
                             /\ UNCHANGED <<num_using, blocker, pool, created, pc, locals>>

\* unlock of an uncontested mutex.
UnlockQuiet(t, m) == /\ pc[t] = "idle"
                     /\ holder[m] = t
                     /\ blocker[m] = NoBlocker
                     /\ holder' = [holder EXCEPT ![m] = NoThread]
                     /\ owns' = [owns EXCEPT ![t] = @ \ {m}]
                     /\ UNCHANGED <<num_using, blocker, pool, created, pc, locals>>

\* unlock of a contested mutex: releases it and enters with_blocker, with no
\* switch up to the point where the blocker has been read.
UnlockContested(t, m) == /\ Goto(t, "idle", "enter")
                         /\ holder[m] = t
                         /\ holder' = [holder EXCEPT ![m] = NoThread]
                         /\ owns' = [owns EXCEPT ![t] = @ \ {m}]
                         /\ JoinBlocker(t, m)
                         /\ at' = [at EXCEPT ![t] = m]
                         /\ purpose' = [purpose EXCEPT ![t] = "unlock"]
                         /\ UNCHANGED <<blocker, pool, created, fresh>>

Call(t) == \E m \in Mutexes : \/ LockFree(t, m)
                              \/ LockHeld(t, m)
                              \/ RefuseLock(t, m)
                              \/ NotAcquired(t, m)
                              \/ RefuseUnlock(t, m)
                              \/ UnlockQuiet(t, m)
                              \/ UnlockContested(t, m)

-----------------------------------------------------------------------------
(***************************************************************************)
(* with_blocker.                                                           *)
(***************************************************************************)

\* The mutex has a blocker: count this user and take it.
UseInstalled(t) == /\ Goto(t, "slow", "enter")
                   /\ JoinBlocker(t, at[t])
                   /\ UNCHANGED <<holder, blocker, pool, created, at, purpose, fresh, owns>>

\* The mutex has none: count this user, then Blocker.create, which dequeues
\* from the pool ...
ReuseBlocker(t) == /\ Goto(t, "slow", "made")
                   /\ blocker[at[t]] = NoBlocker
                   /\ pool # <<>>
                   /\ num_using' = [num_using EXCEPT ![at[t]] = @ + 1]
                   /\ fresh' = [fresh EXCEPT ![t] = Head(pool)]
                   /\ pool' = Tail(pool)
                   /\ UNCHANGED <<holder, blocker, created, at, purpose, blk, owns>>

\* ... or, if the pool is empty, allocates a mutex and a condition.
NewBlocker(t) == /\ Goto(t, "slow", "made")
                 /\ blocker[at[t]] = NoBlocker
                 /\ pool = <<>>
                 /\ num_using' = [num_using EXCEPT ![at[t]] = @ + 1]
                 /\ \E b \in Blockers \ created :
                       /\ fresh' = [fresh EXCEPT ![t] = b]
                       /\ created' = created \cup {b}
                 /\ UNCHANGED <<holder, blocker, pool, at, purpose, blk, owns>>

\* with_blocker0 when no other thread installed a blocker meanwhile.
InstallBlocker(t) == /\ Goto(t, "made", "enter")
                     /\ blocker[at[t]] = NoBlocker
                     /\ blocker' = [blocker EXCEPT ![at[t]] = fresh[t]]
                     /\ blk' = [blk EXCEPT ![t] = fresh[t]]
                     /\ fresh' = [fresh EXCEPT ![t] = NoBlocker]
                     /\ UNCHANGED <<holder, num_using, pool, created, at, purpose, owns>>

\* Mutant: the loser forgets its new blocker instead of saving it.
LoseInstallRaceAndBlocker(t) == /\ Goto(t, "made", "enter")
                                /\ blocker[at[t]] # NoBlocker
                                /\ blk' = [blk EXCEPT ![t] = blocker[at[t]]]
                                /\ fresh' = [fresh EXCEPT ![t] = NoBlocker]
                                /\ UNCHANGED <<records, pool, created, at, purpose, owns>>

\* with_blocker0 when another thread did.
LoseInstallRace(t) == /\ Goto(t, "made", "spare")
                      /\ blocker[at[t]] # NoBlocker
                      /\ blk' = [blk EXCEPT ![t] = blocker[at[t]]]
                      /\ UNCHANGED <<records, pool, created, at, purpose, fresh, owns>>

SaveSpare(t) == /\ Goto(t, "spare", "enter")
                /\ pool' = Append(pool, fresh[t])
                /\ fresh' = [fresh EXCEPT ![t] = NoBlocker]
                /\ UNCHANGED <<records, created, at, purpose, blk, owns>>

EnterBlocker(t) == Move(t, "enter", "inside") /\ BlockerMutexFree(blk[t])

\* Mutant: f of lock waits without looking at the holder again.
WaitBlindly(t) == Move(t, "inside", "parking") /\ purpose[t] = "lock"

\* f for lock: wait if the mutex is still held.
DecideToWait(t) == Move(t, "inside", "parking") /\ purpose[t] = "lock" /\ holder[at[t]] # NoThread

DecideToRetry(t) == Move(t, "inside", "leaving") /\ purpose[t] = "lock" /\ holder[at[t]] = NoThread

Park(t) == Move(t, "parking", "parked")

\* The condition may return without a signal.
SpuriousWake(t) == Move(t, "parked", "woken")

Reacquire(t) == Move(t, "woken", "leaving") /\ BlockerMutexFree(blk[t])

\* f for unlock: wake one waiter, if there is one.
Signal(t) == /\ pc[t] = "inside"
             /\ purpose[t] = "unlock"
             /\ \/ /\ Waiters(blk[t]) = {}
                   /\ pc' = [pc EXCEPT ![t] = "leaving"]
                \/ \E w \in Waiters(blk[t]) :
                      pc' = [pc EXCEPT ![t] = "leaving", ![w] = "woken"]
             /\ UNCHANGED <<records, pool, created, locals, owns>>

LeaveBlocker(t) == Move(t, "leaving", "left")

AfterBlocker(t) == IF purpose[t] = "lock" THEN "retry" ELSE "idle"

\* The locals of a call that returns are gone.
Return(t) == /\ at' = [at EXCEPT ![t] = NoMutex]
             /\ purpose' = [purpose EXCEPT ![t] = "lock"]

ReturnOrRetry(t) == IF purpose[t] = "lock" THEN UNCHANGED <<at, purpose>> ELSE Return(t)

\* The finally of with_blocker, when others still use the blocker ...
StopUsing(t) == /\ Goto(t, "left", AfterBlocker(t))
                /\ num_using[at[t]] # 1
                /\ num_using' = [num_using EXCEPT ![at[t]] = @ - 1]
                /\ blk' = [blk EXCEPT ![t] = NoBlocker]
                /\ ReturnOrRetry(t)
                /\ UNCHANGED <<holder, blocker, pool, created, fresh, owns>>

\* ... and when this was the last user: the mutex goes back to being one
\* record.
DetachBlocker(t) == /\ Goto(t, "left", "saving")
                    /\ num_using[at[t]] = 1
                    /\ num_using' = [num_using EXCEPT ![at[t]] = 0]
                    /\ blocker' = [blocker EXCEPT ![at[t]] = NoBlocker]
                    /\ UNCHANGED <<holder, pool, created, locals, owns>>

SaveBlocker(t) == /\ Goto(t, "saving", AfterBlocker(t))
                  /\ pool' = Append(pool, blk[t])
                  /\ blk' = [blk EXCEPT ![t] = NoBlocker]
                  /\ ReturnOrRetry(t)
                  /\ UNCHANGED <<records, created, fresh, owns>>

\* Mutant: a woken thread takes the mutex as if it had been handed over.
RetryAssumingHandoff(t) == /\ Goto(t, "retry", "idle")
                           /\ holder' = [holder EXCEPT ![at[t]] = t]
                           /\ owns' = [owns EXCEPT ![t] = @ \cup {at[t]}]
                           /\ Return(t)
                           /\ UNCHANGED <<num_using, blocker, pool, created, blk, fresh>>

\* The recursive call of lock.
RetryFree(t) == /\ Goto(t, "retry", "idle")
                /\ Acquire(t, at[t])
                /\ Return(t)
                /\ UNCHANGED <<num_using, blocker, pool, created, blk, fresh>>

RetryHeld(t) == Move(t, "retry", "slow") /\ holder[at[t]] # NoThread

\* The steps of a thread inside a call; all are the thread's own but the
\* wake-up of a parked thread.
Step(t) == \/ UseInstalled(t) \/ ReuseBlocker(t) \/ NewBlocker(t)
           \/ InstallBlocker(t) \/ LoseInstallRace(t) \/ SaveSpare(t)
           \/ EnterBlocker(t) \/ DecideToWait(t) \/ DecideToRetry(t) \/ Park(t)
           \/ Reacquire(t) \/ Signal(t) \/ LeaveBlocker(t)
           \/ StopUsing(t) \/ DetachBlocker(t) \/ SaveBlocker(t)
           \/ RetryFree(t) \/ RetryHeld(t)

Next == \E t \in Threads : Call(t) \/ Step(t) \/ SpuriousWake(t)

Spec == Init /\ [][Next]_vars

(***************************************************************************)
(* The runtime's master lock is handed round, so a thread with a step it   *)
(* can take eventually takes one.  Callers owe nothing but the release of  *)
(* what they have, which critical_section's protect does for them.         *)
(***************************************************************************)
Unlock(t) == \E m \in Mutexes : UnlockQuiet(t, m) \/ UnlockContested(t, m)

Fairness == \A t \in Threads : WF_vars(Step(t)) /\ WF_vars(Unlock(t))

FairSpec == Spec /\ Fairness

-----------------------------------------------------------------------------
(***************************************************************************)
(* Properties.                                                             *)
(***************************************************************************)

(* Two threads are never both told that they have the same mutex, and the  *)
(* holder field agrees with what the threads were told: lock, try_lock and *)
(* unlock interleaved at every allocation.                                 *)
MutualExclusion == \A t \in Threads, m \in Mutexes : m \in owns[t] <=> holder[m] = t

(* The threads between the increment and the decrement of with_blocker.    *)
Using(m) == {t \in Threads : /\ at[t] = m
                             /\ pc[t] \notin {"idle", "slow", "retry", "saving"}}

(* num_using_blocker counts exactly the threads inside with_blocker, and   *)
(* all of them that have chosen a blocker have chosen the one installed:   *)
(* a thread that lost the installation race, or joined while the last user *)
(* was leaving, never waits on another condition than the one signalled.   *)
UsersShareBlocker ==
  \A m \in Mutexes :
     /\ num_using[m] = Cardinality(Using(m))
     /\ blocker[m] # NoBlocker => Using(m) # {}
     /\ \A t \in Using(m) : pc[t] # "made" => blk[t] = blocker[m] /\ blk[t] # NoBlocker

(* A blocker is in one place only: pooled once, or installed in one mutex, *)
(* or in the hands of the one thread that will install or save it.  So two *)
(* nano-mutexes never share a blocker, and none is lost.                   *)
Installed(b) == {m \in Mutexes : blocker[m] = b}
InHand(b) == {t \in Threads : fresh[t] = b \/ (pc[t] = "saving" /\ blk[t] = b)}
Pooled(b) == {i \in 1..Len(pool) : pool[i] = b}

BlockerInOnePlace ==
  \A b \in created : Cardinality(Installed(b)) + Cardinality(InHand(b)) + Cardinality(Pooled(b)) = 1

(* No lost wake-up: while a mutex is free and some thread sleeps on it,    *)
(* another thread is on its way to signal the sleeper, or to retry lock    *)
(* (and then to signal when it unlocks).  This is what the test in f of    *)
(* lock, made under the blocker's mutex, is for.                           *)
Asleep(t, m) == at[t] = m /\ pc[t] \in {"parking", "parked"}

Rescuer(t, m) == /\ at[t] = m
                 /\ \/ purpose[t] = "unlock" /\ pc[t] \in {"enter", "inside"}
                    \/ purpose[t] = "lock" /\ pc[t] \notin {"idle", "parking", "parked"}

NoLostWakeup ==
  \A m \in Mutexes :
     holder[m] = NoThread /\ (\E t \in Threads : Asleep(t, m)) => \E t \in Threads : Rescuer(t, m)

(* The refinement: the owner of a mutex is the thread that was told so.    *)
OwnerOf(m) == IF \E t \in Threads : m \in owns[t]
              THEN CHOOSE t \in Threads : m \in owns[t]
              ELSE NoThread

BlockedOn(t) == IF purpose[t] = "lock" THEN at[t] ELSE NoMutex

Abstract == INSTANCE MutexSpec WITH owner <- [m \in Mutexes |-> OwnerOf(m)],
                                    blocked <- [t \in Threads |-> BlockedOn(t)]

(* Nano_mutex implements MutexSpec, its liveness included: a mutex that is *)
(* free while a thread is inside lock for it is eventually taken.          *)
ImplementsMutexSpec == Abstract!Spec
==============================================================================
