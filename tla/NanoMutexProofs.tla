--------------------------- MODULE NanoMutexProofs ---------------------------
(***************************************************************************)
(* Proofs about NanoMutex, for any finite set of threads and any sets of   *)
(* mutexes and blockers.  One inductive invariant, IInv, carries the four  *)
(* safety invariants of NanoMutex: none of them but MutualExclusion is     *)
(* inductive by itself.  Each part of IInv has a lemma that says that a    *)
(* step preserves it, with one case per action.                            *)
(***************************************************************************)
EXTENDS NanoMutex, FiniteSetTheorems, TLAPS

(* What the program counter says about the locals of a thread. *)
LocalsOK ==
  \A t \in Threads :
     /\ pc[t] = "idle" => at[t] = NoMutex /\ purpose[t] = "lock"
     /\ pc[t] # "idle" => at[t] \in Mutexes
     /\ IF pc[t] \in {"made", "spare"} THEN fresh[t] \in Blockers ELSE fresh[t] = NoBlocker
     /\ pc[t] \in {"spare", "enter", "inside", "parking", "parked", "woken",
                   "leaving", "left", "saving"} => blk[t] \in Blockers
     /\ purpose[t] = "unlock" => pc[t] \in {"enter", "inside", "leaving", "left", "saving"}

(* UsersShareBlocker in two parts. *)
Counted == \A m \in Mutexes : num_using[m] = Cardinality(Using(m))

Shared == \A m \in Mutexes :
             /\ blocker[m] # NoBlocker => Using(m) # {}
             /\ \A t \in Using(m) : pc[t] # "made" => blk[t] = blocker[m] /\ blk[t] # NoBlocker

(* The thread has b as a local and nobody else may know of it. *)
Carries(t, b) == fresh[t] = b \/ (pc[t] = "saving" /\ blk[t] = b)

(* BlockerInOnePlace without its cardinalities: no blocker is in two       *)
(* places, and every blocker is somewhere.                                 *)
NotTwice ==
  \A b \in Blockers :
     /\ \A m, n \in Mutexes : blocker[m] = b /\ blocker[n] = b => m = n
     /\ \A t, u \in Threads : Carries(t, b) /\ Carries(u, b) => t = u
     /\ \A i, j \in 1..Len(pool) : pool[i] = b /\ pool[j] = b => i = j
     /\ \A m \in Mutexes, t \in Threads : ~ (blocker[m] = b /\ Carries(t, b))
     /\ \A m \in Mutexes, i \in 1..Len(pool) : ~ (blocker[m] = b /\ pool[i] = b)
     /\ \A t \in Threads, i \in 1..Len(pool) : ~ (Carries(t, b) /\ pool[i] = b)

Somewhere(b) == \/ \E m \in Mutexes : blocker[m] = b
                \/ \E t \in Threads : Carries(t, b)
                \/ \E i \in 1..Len(pool) : pool[i] = b

NotLost == \A b \in Blockers : b \in created <=> Somewhere(b)

(* At most one thread has the pthread mutex of a blocker. *)
BlockerExclusion ==
  \A b \in Blockers : \A t, u \in Threads : HasBlockerMutex(t, b) /\ HasBlockerMutex(u, b) => t = u

(* The part of the invariant about the mutex records and their users. *)
UseInv == TypeOK /\ LocalsOK /\ Counted /\ Shared

LEMMA UsingFinite ==
  ASSUME NEW m
  PROVE  IsFiniteSet(Using(m)) /\ Cardinality(Using(m)) \in Nat
<1>1. Using(m) \subseteq Threads
  BY DEF Using
<1> QED
  BY <1>1, NanoMutexAssumption, FS_Subset, FS_CardinalityType

LEMMA LeavingIsCounted ==
  ASSUME UseInv, NEW t \in Threads, pc[t] = "left"
  PROVE  num_using[at[t]] \in Nat \ {0}
<1>1. at[t] \in Mutexes /\ t \in Using(at[t])
  BY DEF UseInv, LocalsOK, Using
<1> QED
  BY <1>1, UsingFinite, FS_EmptySet DEF UseInv, Counted, TypeOK

LEMMA TypeInit == Init => TypeOK /\ LocalsOK
  BY NanoMutexAssumption DEF Init, TypeOK, LocalsOK, PCs

LEMMA TypeStep == UseInv /\ [Next]_vars => TypeOK' /\ LocalsOK'
<1> SUFFICES ASSUME UseInv, [Next]_vars PROVE TypeOK' /\ LocalsOK'
  OBVIOUS
<1> USE NanoMutexAssumption DEF UseInv, TypeOK, LocalsOK, PCs, Goto, Move, records, locals
<1>1. ASSUME NEW t \in Threads, NEW m \in Mutexes, LockFree(t, m) PROVE TypeOK' /\ LocalsOK'
  BY <1>1 DEF LockFree, Acquire
<1>2. ASSUME NEW t \in Threads, NEW m \in Mutexes, LockHeld(t, m) PROVE TypeOK' /\ LocalsOK'
  BY <1>2 DEF LockHeld
<1>3. ASSUME NEW t \in Threads, NEW m \in Mutexes, UnlockQuiet(t, m) PROVE TypeOK' /\ LocalsOK'
  BY <1>3 DEF UnlockQuiet
<1>4. ASSUME NEW t \in Threads, NEW m \in Mutexes, UnlockContested(t, m) PROVE TypeOK' /\ LocalsOK'
  BY <1>4 DEF UnlockContested, JoinBlocker
<1>5. ASSUME NEW t \in Threads, UseInstalled(t) PROVE TypeOK' /\ LocalsOK'
  BY <1>5 DEF UseInstalled, JoinBlocker
<1>6. ASSUME NEW t \in Threads, ReuseBlocker(t) PROVE TypeOK' /\ LocalsOK'
  BY <1>6 DEF ReuseBlocker
<1>7. ASSUME NEW t \in Threads, NewBlocker(t) PROVE TypeOK' /\ LocalsOK'
  BY <1>7 DEF NewBlocker
<1>8. ASSUME NEW t \in Threads, InstallBlocker(t) PROVE TypeOK' /\ LocalsOK'
  BY <1>8 DEF InstallBlocker
<1>9. ASSUME NEW t \in Threads, LoseInstallRace(t) PROVE TypeOK' /\ LocalsOK'
  BY <1>9 DEF LoseInstallRace
<1>10. ASSUME NEW t \in Threads, SaveSpare(t) PROVE TypeOK' /\ LocalsOK'
  BY <1>10 DEF SaveSpare
<1>11. ASSUME NEW t \in Threads,
             \/ EnterBlocker(t) \/ DecideToWait(t) \/ DecideToRetry(t) \/ Park(t)
             \/ SpuriousWake(t) \/ Reacquire(t) \/ LeaveBlocker(t) \/ RetryHeld(t)
      PROVE TypeOK' /\ LocalsOK'
  <2>1. CASE EnterBlocker(t)
    BY <2>1 DEF EnterBlocker
  <2>2. CASE DecideToWait(t)
    BY <2>2 DEF DecideToWait
  <2>3. CASE DecideToRetry(t)
    BY <2>3 DEF DecideToRetry
  <2>4. CASE Park(t)
    BY <2>4 DEF Park
  <2>5. CASE SpuriousWake(t)
    BY <2>5 DEF SpuriousWake
  <2>6. CASE Reacquire(t)
    BY <2>6 DEF Reacquire
  <2>7. CASE LeaveBlocker(t)
    BY <2>7 DEF LeaveBlocker
  <2>8. CASE RetryHeld(t)
    BY <2>8 DEF RetryHeld
  <2> QED
    BY <1>11, <2>1, <2>2, <2>3, <2>4, <2>5, <2>6, <2>7, <2>8
<1>12. ASSUME NEW t \in Threads, Signal(t) PROVE TypeOK' /\ LocalsOK'
  BY <1>12, ZenonT(60) DEF Signal, Waiters
<1>13. ASSUME NEW t \in Threads, StopUsing(t) PROVE TypeOK' /\ LocalsOK'
  <2>1. CASE purpose[t] = "lock"
    BY <1>13, <2>1, LeavingIsCounted DEF StopUsing, AfterBlocker, ReturnOrRetry
  <2>2. CASE purpose[t] = "unlock"
    <3>1. at' = [at EXCEPT ![t] = NoMutex] /\ purpose' = [purpose EXCEPT ![t] = "lock"]
          /\ pc' = [pc EXCEPT ![t] = "idle"]
      BY <1>13, <2>2 DEF StopUsing, AfterBlocker, ReturnOrRetry, Return
    <3>2. TypeOK'
      BY <1>13, <3>1, LeavingIsCounted DEF StopUsing
    <3>3. LocalsOK'
      BY <1>13, <3>1 DEF StopUsing
    <3> QED
      BY <3>2, <3>3
  <2> QED
    BY <2>1, <2>2
<1>14. ASSUME NEW t \in Threads, DetachBlocker(t) PROVE TypeOK' /\ LocalsOK'
  BY <1>14 DEF DetachBlocker
<1>15. ASSUME NEW t \in Threads, SaveBlocker(t) PROVE TypeOK' /\ LocalsOK'
  <2>1. CASE purpose[t] = "lock"
    BY <1>15, <2>1 DEF SaveBlocker, AfterBlocker, ReturnOrRetry
  <2>2. CASE purpose[t] = "unlock"
    <3>1. at' = [at EXCEPT ![t] = NoMutex] /\ purpose' = [purpose EXCEPT ![t] = "lock"]
          /\ pc' = [pc EXCEPT ![t] = "idle"]
      BY <1>15, <2>2 DEF SaveBlocker, AfterBlocker, ReturnOrRetry, Return
    <3>2. TypeOK'
      BY <1>15, <3>1 DEF SaveBlocker
    <3>3. LocalsOK'
      BY <1>15, <3>1 DEF SaveBlocker
    <3> QED
      BY <3>2, <3>3
  <2> QED
    BY <2>1, <2>2
<1>16. ASSUME NEW t \in Threads, RetryFree(t) PROVE TypeOK' /\ LocalsOK'
  BY <1>16 DEF RetryFree, Acquire, Return
<1>17. CASE UNCHANGED vars
  BY <1>17 DEF vars
<1> QED
  BY <1>1, <1>2, <1>3, <1>4, <1>5, <1>6, <1>7, <1>8, <1>9, <1>10, <1>11, <1>12, <1>13,
     <1>14, <1>15, <1>16, <1>17
     DEF Next, Call, Step, RefuseLock, NotAcquired, RefuseUnlock

(***************************************************************************)
(* Who uses the blocker of a mutex: how each action changes Using.         *)
(***************************************************************************)
Joins(t, m) == \/ UnlockContested(t, m)
               \/ at[t] = m /\ (UseInstalled(t) \/ ReuseBlocker(t) \/ NewBlocker(t))

Leaves(t, m) == at[t] = m /\ (StopUsing(t) \/ DetachBlocker(t))

Stays(t) == \/ \E m \in Mutexes : LockFree(t, m) \/ LockHeld(t, m) \/ UnlockQuiet(t, m)
            \/ InstallBlocker(t) \/ LoseInstallRace(t) \/ SaveSpare(t)
            \/ EnterBlocker(t) \/ DecideToWait(t) \/ DecideToRetry(t) \/ Park(t)
            \/ SpuriousWake(t) \/ Reacquire(t) \/ Signal(t) \/ LeaveBlocker(t)
            \/ SaveBlocker(t) \/ RetryFree(t) \/ RetryHeld(t)

LEMMA StepKinds ==
  ASSUME UseInv, [Next]_vars
  PROVE  \/ \E t \in Threads, m \in Mutexes : Joins(t, m) \/ Leaves(t, m)
         \/ \E t \in Threads : Stays(t)
         \/ UNCHANGED vars
<1>1. CASE UNCHANGED vars
  BY <1>1
<1>2. ASSUME NEW t \in Threads, Call(t) \/ Step(t) \/ SpuriousWake(t)
      PROVE  \/ \E m \in Mutexes : Joins(t, m) \/ Leaves(t, m)
             \/ Stays(t)
             \/ UNCHANGED vars
  <2>1. at[t] \in Mutexes \/ pc[t] = "idle"
    BY DEF UseInv, LocalsOK
  <2>2. CASE Call(t)
    BY <2>2 DEF Call, RefuseLock, NotAcquired, RefuseUnlock, Joins, Stays
  <2>3. CASE UseInstalled(t) \/ ReuseBlocker(t) \/ NewBlocker(t)
    BY <2>1, <2>3 DEF Joins, UseInstalled, ReuseBlocker, NewBlocker, Goto
  <2>4. CASE StopUsing(t) \/ DetachBlocker(t)
    BY <2>1, <2>4 DEF Leaves, StopUsing, DetachBlocker, Goto
  <2> QED
    BY <1>2, <2>2, <2>3, <2>4 DEF Step, Stays
<1> QED
  BY <1>1, <1>2 DEF Next

LEMMA UsersJoin ==
  ASSUME UseInv, NEW t \in Threads, NEW m \in Mutexes, Joins(t, m)
  PROVE  /\ t \notin Using(m)
         /\ Using(m)' = Using(m) \cup {t}
         /\ \A n \in Mutexes \ {m} : Using(n)' = Using(n)
         /\ num_using' = [num_using EXCEPT ![m] = @ + 1]
<1> USE NanoMutexAssumption DEF UseInv, TypeOK, LocalsOK, Using, Goto
<1>1. CASE UnlockContested(t, m)
  BY <1>1 DEF UnlockContested, JoinBlocker
<1>2. CASE at[t] = m /\ UseInstalled(t)
  BY <1>2 DEF UseInstalled, JoinBlocker
<1>3. CASE at[t] = m /\ ReuseBlocker(t)
  BY <1>3 DEF ReuseBlocker
<1>4. CASE at[t] = m /\ NewBlocker(t)
  BY <1>4 DEF NewBlocker
<1> QED
  BY <1>1, <1>2, <1>3, <1>4 DEF Joins

LEMMA UsersLeave ==
  ASSUME UseInv, NEW t \in Threads, NEW m \in Mutexes, Leaves(t, m)
  PROVE  /\ t \in Using(m)
         /\ Using(m)' = Using(m) \ {t}
         /\ \A n \in Mutexes \ {m} : Using(n)' = Using(n)
         /\ num_using' = [num_using EXCEPT ![m] = @ - 1]
<1> USE NanoMutexAssumption DEF UseInv, TypeOK, LocalsOK, Using, Goto
<1>1. CASE at[t] = m /\ StopUsing(t)
  <2>1. CASE purpose[t] = "lock"
    BY <1>1, <2>1 DEF StopUsing, AfterBlocker, ReturnOrRetry
  <2>2. CASE purpose[t] = "unlock"
    BY <1>1, <2>2 DEF StopUsing, AfterBlocker, ReturnOrRetry, Return
  <2> QED
    BY <2>1, <2>2
<1>2. CASE at[t] = m /\ DetachBlocker(t)
  BY <1>2 DEF DetachBlocker, locals
<1> QED
  BY <1>1, <1>2 DEF Leaves

LEMMA UsersStay ==
  ASSUME UseInv, NEW t \in Threads, Stays(t)
  PROVE  num_using' = num_using /\ \A n \in Mutexes : Using(n)' = Using(n)
<1> USE NanoMutexAssumption DEF UseInv, TypeOK, LocalsOK, Using, Goto, Move, records, locals
<1>1. ASSUME NEW m \in Mutexes, LockFree(t, m) \/ LockHeld(t, m) \/ UnlockQuiet(t, m)
      PROVE  num_using' = num_using /\ \A n \in Mutexes : Using(n)' = Using(n)
  BY <1>1 DEF LockFree, LockHeld, UnlockQuiet
<1>2. CASE InstallBlocker(t) \/ LoseInstallRace(t) \/ SaveSpare(t)
  BY <1>2 DEF InstallBlocker, LoseInstallRace, SaveSpare
<1>3. CASE EnterBlocker(t) \/ DecideToWait(t) \/ DecideToRetry(t) \/ Park(t)
  BY <1>3 DEF EnterBlocker, DecideToWait, DecideToRetry, Park
<1>4. CASE SpuriousWake(t) \/ Reacquire(t) \/ LeaveBlocker(t) \/ RetryHeld(t)
  BY <1>4 DEF SpuriousWake, Reacquire, LeaveBlocker, RetryHeld
<1>5. CASE Signal(t)
  BY <1>5 DEF Signal, Waiters
<1>6. CASE SaveBlocker(t)
  <2>1. CASE purpose[t] = "lock"
    BY <1>6, <2>1 DEF SaveBlocker, AfterBlocker, ReturnOrRetry
  <2>2. CASE purpose[t] = "unlock"
    BY <1>6, <2>2 DEF SaveBlocker, AfterBlocker, ReturnOrRetry, Return
  <2> QED
    BY <2>1, <2>2
<1>7. CASE RetryFree(t)
  BY <1>7 DEF RetryFree, Return
<1> QED
  BY <1>1, <1>2, <1>3, <1>4, <1>5, <1>6, <1>7 DEF Stays

LEMMA CountedStep == UseInv /\ [Next]_vars => Counted'
<1> SUFFICES ASSUME UseInv, [Next]_vars PROVE Counted'
  OBVIOUS
<1>1. ASSUME NEW t \in Threads, NEW m \in Mutexes, Joins(t, m) PROVE Counted'
  <2>1. Cardinality(Using(m) \cup {t}) = Cardinality(Using(m)) + 1
    BY <1>1, UsersJoin, UsingFinite, FS_AddElement
  <2>2. num_using'[m] = Cardinality(Using(m)')
    <3>1. num_using'[m] = num_using[m] + 1
      BY <1>1, UsersJoin DEF UseInv, TypeOK
    <3>2. Cardinality(Using(m)') = Cardinality(Using(m)) + 1
      BY <1>1, <2>1, UsersJoin
    <3> QED
      BY <3>1, <3>2 DEF UseInv, Counted
  <2>3. ASSUME NEW n \in Mutexes \ {m} PROVE num_using'[n] = Cardinality(Using(n)')
    BY <1>1, UsersJoin DEF UseInv, TypeOK, Counted
  <2> QED
    BY <2>2, <2>3 DEF Counted
<1>2. ASSUME NEW t \in Threads, NEW m \in Mutexes, Leaves(t, m) PROVE Counted'
  <2>1. Cardinality(Using(m) \ {t}) = Cardinality(Using(m)) - 1
    BY <1>2, UsersLeave, UsingFinite, FS_RemoveElement
  <2>2. num_using'[m] = Cardinality(Using(m)')
    <3>1. num_using'[m] = num_using[m] - 1
      BY <1>2, UsersLeave DEF UseInv, TypeOK
    <3>2. Cardinality(Using(m)') = Cardinality(Using(m)) - 1
      BY <1>2, <2>1, UsersLeave
    <3> QED
      BY <3>1, <3>2 DEF UseInv, Counted
  <2>3. ASSUME NEW n \in Mutexes \ {m} PROVE num_using'[n] = Cardinality(Using(n)')
    BY <1>2, UsersLeave DEF UseInv, TypeOK, Counted
  <2> QED
    BY <2>2, <2>3 DEF Counted
<1>3. ASSUME NEW t \in Threads, Stays(t) PROVE Counted'
  BY <1>3, UsersStay DEF UseInv, Counted
<1>4. CASE UNCHANGED vars
  BY <1>4 DEF UseInv, Counted, Using, vars, records, locals
<1> QED
  BY <1>1, <1>2, <1>3, <1>4, StepKinds

LEMMA SharedStep == UseInv /\ [Next]_vars => Shared'
<1> SUFFICES ASSUME UseInv, [Next]_vars PROVE Shared'
  OBVIOUS
<1> USE NanoMutexAssumption
<1>1. ASSUME NEW t \in Threads, NEW m \in Mutexes, Joins(t, m) PROVE Shared'
  <2>1. /\ blocker' = blocker
        /\ \A u \in Threads \ {t} : pc'[u] = pc[u] /\ blk'[u] = blk[u]
        /\ pc'[t] # "made" => blk'[t] = blocker[m] /\ blocker[m] # NoBlocker
    BY <1>1 DEF Joins, UnlockContested, UseInstalled, ReuseBlocker, NewBlocker, JoinBlocker,
                Goto, UseInv, TypeOK
  <2>2. \A n \in Mutexes : Using(n)' \subseteq Threads /\ (n # m => t \notin Using(n)')
    BY <1>1, UsersJoin
       DEF Using, Joins, UnlockContested, UseInstalled, ReuseBlocker, NewBlocker, Goto, UseInv,
           TypeOK
  <2> QED
    BY <1>1, <2>1, <2>2, UsersJoin DEF UseInv, Shared
<1>2. ASSUME NEW t \in Threads, NEW m \in Mutexes, Leaves(t, m) PROVE Shared'
  <2>1. \A u \in Threads \ {t} : pc'[u] = pc[u] /\ blk'[u] = blk[u]
    BY <1>2 DEF Leaves, StopUsing, DetachBlocker, Goto, UseInv, TypeOK, locals
  <2>2. \A n \in Mutexes : Using(n)' \subseteq Threads \ {t}
    <3>1. \A n \in Mutexes \ {m} : t \notin Using(n)
      BY <1>2, UsersLeave DEF Using
    <3> QED
      BY <1>2, <3>1, UsersLeave DEF Using
  <2>3. CASE num_using[m] = 1
    <3>1. blocker' = [blocker EXCEPT ![m] = NoBlocker]
      BY <1>2, <2>3 DEF Leaves, StopUsing, DetachBlocker
    <3>2. Using(m)' = {}
      <4>1. Cardinality(Using(m)) = 1
        BY <2>3 DEF UseInv, Counted
      <4>2. Cardinality(Using(m) \ {t}) = Cardinality(Using(m)) - 1
        BY <1>2, UsersLeave, UsingFinite, FS_RemoveElement
      <4>3. IsFiniteSet(Using(m) \ {t})
        BY UsingFinite, FS_RemoveElement
      <4> QED
        BY <1>2, <4>1, <4>2, <4>3, UsersLeave, FS_EmptySet
    <3> QED
      BY <1>2, <2>1, <2>2, <3>1, <3>2, UsersLeave DEF UseInv, Shared, TypeOK
  <2>4. CASE num_using[m] # 1
    <3>1. blocker' = blocker
      BY <1>2, <2>4 DEF Leaves, StopUsing, DetachBlocker
    <3>2. Using(m)' # {}
      <4>1. Cardinality(Using(m)) \in Nat /\ Cardinality(Using(m)) # 1
        BY <2>4, UsingFinite DEF UseInv, Counted
      <4>2. Cardinality(Using(m) \ {t}) = Cardinality(Using(m)) - 1
        BY <1>2, UsersLeave, UsingFinite, FS_RemoveElement
      <4>3. Using(m) \ {t} # {}
        BY <4>1, <4>2, FS_EmptySet
      <4> QED
        BY <1>2, <4>3, UsersLeave
    <3> QED
      BY <1>2, <2>1, <2>2, <3>1, <3>2, UsersLeave DEF UseInv, Shared
  <2> QED
    BY <2>3, <2>4
<1>3. ASSUME NEW t \in Threads, Stays(t) PROVE Shared'
  <2>1. CASE InstallBlocker(t)
    <3>1. /\ at[t] \in Mutexes /\ t \in Using(at[t]) /\ blocker[at[t]] = NoBlocker
          /\ fresh[t] \in Blockers
      BY <2>1 DEF InstallBlocker, Goto, UseInv, LocalsOK, Using
    <3>2. /\ blocker' = [blocker EXCEPT ![at[t]] = fresh[t]]
          /\ pc' = [pc EXCEPT ![t] = "enter"]
          /\ blk' = [blk EXCEPT ![t] = fresh[t]]
      BY <2>1 DEF InstallBlocker, Goto
    <3>3. \A u \in Using(at[t]) : pc[u] = "made"
      BY <3>1 DEF UseInv, Shared
    <3>4. \A n \in Mutexes \ {at[t]} : t \notin Using(n)
      BY DEF Using
    <3>5. \A n \in Mutexes : Using(n) \subseteq Threads
      BY DEF Using
    <3> QED
      BY <1>3, <3>1, <3>2, <3>3, <3>4, <3>5, UsersStay DEF UseInv, Shared, TypeOK
  <2>2. CASE LoseInstallRace(t)
    <3>1. /\ blocker' = blocker /\ blocker[at[t]] # NoBlocker
          /\ pc' = [pc EXCEPT ![t] = "spare"]
          /\ blk' = [blk EXCEPT ![t] = blocker[at[t]]]
      BY <2>2 DEF LoseInstallRace, Goto, records
    <3>2. \A n \in Mutexes \ {at[t]} : t \notin Using(n)
      BY DEF Using
    <3>3. \A n \in Mutexes : Using(n) \subseteq Threads
      BY DEF Using
    <3> QED
      BY <1>3, <3>1, <3>2, <3>3, UsersStay DEF UseInv, Shared, TypeOK
  <2>3. CASE ~ InstallBlocker(t) /\ ~ LoseInstallRace(t)
    <3>1. blocker' = blocker
      BY <1>3, <2>3
         DEF Stays, LockFree, LockHeld, UnlockQuiet, SaveSpare, EnterBlocker, DecideToWait,
             DecideToRetry, Park, SpuriousWake, Reacquire, Signal, LeaveBlocker, SaveBlocker,
             RetryFree, RetryHeld, Move, records
    <3>2. \A n \in Mutexes : \A u \in Using(n)' :
             (pc[u] = "made" <=> pc'[u] = "made") /\ blk'[u] = blk[u]
      <4> SUFFICES ASSUME NEW n \in Mutexes, NEW u \in Using(n)'
                   PROVE  (pc[u] = "made" <=> pc'[u] = "made") /\ blk'[u] = blk[u]
        OBVIOUS
      <4>1. u \in Threads /\ pc'[u] \notin {"idle", "slow", "retry", "saving"}
        BY DEF Using
      <4> USE DEF UseInv, TypeOK, Goto, Move, records, locals
      <4>2. CASE \E m \in Mutexes : LockFree(t, m) \/ LockHeld(t, m) \/ UnlockQuiet(t, m)
        BY <4>1, <4>2 DEF LockFree, LockHeld, UnlockQuiet
      <4>3. CASE SaveSpare(t) \/ SaveBlocker(t) \/ RetryFree(t)
        BY <4>1, <4>3 DEF SaveSpare, SaveBlocker, RetryFree, AfterBlocker
      <4>4. CASE Signal(t)
        <5>1. blk' = blk
          BY <4>4 DEF Signal
        <5> QED
          BY <4>1, <4>4, <5>1 DEF Signal, Waiters
      <4>5. CASE \/ EnterBlocker(t) \/ DecideToWait(t) \/ DecideToRetry(t) \/ Park(t)
                 \/ SpuriousWake(t) \/ Reacquire(t) \/ LeaveBlocker(t) \/ RetryHeld(t)
        <5>1. blk' = blk /\ pc[t] # "made" /\ (\E p \in PCs \ {"made"} : pc' = [pc EXCEPT ![t] = p])
          BY <4>5 DEF EnterBlocker, DecideToWait, DecideToRetry, Park, SpuriousWake, Reacquire,
                      LeaveBlocker, RetryHeld, PCs
        <5> QED
          BY <4>1, <5>1
      <4> QED
        BY <1>3, <2>3, <4>2, <4>3, <4>4, <4>5 DEF Stays
    <3> QED
      BY <1>3, <3>1, <3>2, UsersStay DEF UseInv, Shared
  <2> QED
    BY <2>1, <2>2, <2>3
<1>4. CASE UNCHANGED vars
  BY <1>4 DEF UseInv, Shared, Using, vars, records, locals
<1> QED
  BY <1>1, <1>2, <1>3, <1>4, StepKinds

LEMMA UseInvInductive == (Init => UseInv) /\ (UseInv /\ [Next]_vars => UseInv')
<1>1. Init => UseInv
  <2>1. ASSUME Init, NEW m \in Mutexes PROVE Using(m) = {}
    BY <2>1 DEF Init, Using
  <2>2. Init => Counted /\ Shared
    BY <2>1, FS_EmptySet, ZenonT(60) DEF Init, Counted, Shared
  <2> QED
    BY <2>2, TypeInit DEF UseInv
<1> QED
  BY <1>1, TypeStep, CountedStep, SharedStep DEF UseInv

(* Every reachable state has the types that the model claims; for          *)
(* num_using_blocker that is that it never goes below zero, which rests on *)
(* its being the number of threads in with_blocker.                        *)
THEOREM TypeCorrect == Spec => []TypeOK
<1>1. UseInv => TypeOK
  BY DEF UseInv
<1> QED
  BY <1>1, UseInvInductive, PTL DEF Spec

(* num_using_blocker is the number of threads between its increment and    *)
(* its decrement in with_blocker, a mutex has no blocker without a user,   *)
(* and all users have the installed one.                                   *)
THEOREM UsersShareBlockerHolds == Spec => []UsersShareBlocker
<1>1. UseInv => UsersShareBlocker
  BY DEF UseInv, Counted, Shared, UsersShareBlocker
<1> QED
  BY <1>1, UseInvInductive, PTL DEF Spec

LEMMA MutualExclusionStep == UseInv /\ MutualExclusion /\ [Next]_vars => MutualExclusion'
<1> SUFFICES ASSUME UseInv, MutualExclusion, [Next]_vars PROVE MutualExclusion'
  OBVIOUS
<1> USE NanoMutexAssumption DEF UseInv, TypeOK, MutualExclusion
<1>1. ASSUME NEW t \in Threads, NEW m \in Mutexes, Acquire(t, m) PROVE MutualExclusion'
  BY <1>1 DEF Acquire
<1>2. ASSUME NEW t \in Threads, NEW m \in Mutexes, UnlockQuiet(t, m) \/ UnlockContested(t, m)
      PROVE MutualExclusion'
  <2>1. holder' = [holder EXCEPT ![m] = NoThread] /\ owns' = [owns EXCEPT ![t] = @ \ {m}]
    BY <1>2 DEF UnlockQuiet, UnlockContested
  <2>2. holder[m] = t
    BY <1>2 DEF UnlockQuiet, UnlockContested
  <2> QED
    BY <2>1, <2>2
<1>3. CASE UNCHANGED <<holder, owns>>
  BY <1>3
<1>4. ASSUME NEW t \in Threads, Call(t) \/ Step(t) \/ SpuriousWake(t)
      PROVE  \/ \E m \in Mutexes : Acquire(t, m) \/ UnlockQuiet(t, m) \/ UnlockContested(t, m)
             \/ UNCHANGED <<holder, owns>>
  <2>1. CASE Call(t)
    BY <2>1 DEF Call, LockFree, LockHeld, RefuseLock, NotAcquired, RefuseUnlock, records, vars
  <2>2. CASE RetryFree(t)
    BY <2>2 DEF RetryFree, LocalsOK, Goto
  <2>3. CASE SpuriousWake(t) \/ (Step(t) /\ ~ RetryFree(t))
    BY <2>3 DEF Step, SpuriousWake, UseInstalled, ReuseBlocker, NewBlocker, InstallBlocker,
                LoseInstallRace, SaveSpare, EnterBlocker, DecideToWait, DecideToRetry, Park,
                Reacquire, Signal, LeaveBlocker, StopUsing, DetachBlocker, SaveBlocker,
                RetryHeld, Move, records
  <2> QED
    BY <1>4, <2>1, <2>2, <2>3
<1>5. CASE UNCHANGED vars
  BY <1>3, <1>5 DEF vars, records
<1>6. CASE Next
  <2>1. PICK t \in Threads : Call(t) \/ Step(t) \/ SpuriousWake(t)
    BY <1>6 DEF Next
  <2> QED
    BY <1>1, <1>2, <1>3, <1>4, <2>1
<1> QED
  BY <1>5, <1>6

(* No two threads are ever both told that they have a mutex, and the       *)
(* holder field is the thread that was told so, whatever the threads.      *)
THEOREM MutualExclusionHolds == Spec => []MutualExclusion
<1>1. Init => MutualExclusion
  BY NanoMutexAssumption DEF Init, MutualExclusion
<1> QED
  BY <1>1, UseInvInductive, MutualExclusionStep, PTL DEF Spec

(***************************************************************************)
(* The pthread mutex of a blocker.                                         *)
(***************************************************************************)
LEMMA BlockerExclusionStep == UseInv /\ BlockerExclusion /\ [Next]_vars => BlockerExclusion'
<1> SUFFICES ASSUME UseInv, BlockerExclusion, [Next]_vars PROVE BlockerExclusion'
  OBVIOUS
<1> USE NanoMutexAssumption DEF UseInv, TypeOK, LocalsOK, Goto, Move, records, locals
<1>1. ASSUME NEW t \in Threads,
             \A b \in Blockers, u \in Threads \ {t} : HasBlockerMutex(u, b)' => HasBlockerMutex(u, b),
             \A b \in Blockers : HasBlockerMutex(t, b)' => HasBlockerMutex(t, b) \/ BlockerMutexFree(b)
      PROVE  BlockerExclusion'
  BY <1>1, SMTT(60) DEF BlockerExclusion, BlockerMutexFree
<1>2. ASSUME NEW t \in Threads, Call(t) \/ Step(t) \/ SpuriousWake(t)
      PROVE  /\ \A b \in Blockers, u \in Threads \ {t} : HasBlockerMutex(u, b)' => HasBlockerMutex(u, b)
             /\ \A b \in Blockers : HasBlockerMutex(t, b)' => HasBlockerMutex(t, b) \/ BlockerMutexFree(b)
  <2>1. CASE EnterBlocker(t) \/ Reacquire(t)
    BY <2>1 DEF EnterBlocker, Reacquire, HasBlockerMutex
  <2>2. CASE DecideToWait(t) \/ DecideToRetry(t) \/ Park(t) \/ LeaveBlocker(t) \/ RetryHeld(t)
    BY <2>2 DEF DecideToWait, DecideToRetry, Park, LeaveBlocker, RetryHeld, HasBlockerMutex
  <2>3. CASE SpuriousWake(t)
    BY <2>3 DEF SpuriousWake, HasBlockerMutex
  <2>4. CASE Signal(t)
    BY <2>4 DEF Signal, Waiters, HasBlockerMutex
  <2>5. CASE Call(t)
    BY <2>5 DEF Call, LockFree, LockHeld, RefuseLock, NotAcquired, RefuseUnlock, UnlockQuiet,
                UnlockContested, JoinBlocker, HasBlockerMutex, vars
  <2>6. CASE \/ UseInstalled(t) \/ ReuseBlocker(t) \/ NewBlocker(t)
             \/ InstallBlocker(t) \/ LoseInstallRace(t) \/ SaveSpare(t)
    BY <2>6 DEF UseInstalled, ReuseBlocker, NewBlocker, InstallBlocker, LoseInstallRace,
                SaveSpare, JoinBlocker, HasBlockerMutex
  <2>7. CASE StopUsing(t) \/ DetachBlocker(t) \/ SaveBlocker(t) \/ RetryFree(t)
    BY <2>7 DEF StopUsing, DetachBlocker, SaveBlocker, RetryFree, AfterBlocker, HasBlockerMutex
  <2> QED
    BY <1>2, <2>1, <2>2, <2>3, <2>4, <2>5, <2>6, <2>7 DEF Step
<1>3. CASE UNCHANGED vars
  BY <1>3 DEF BlockerExclusion, HasBlockerMutex, vars
<1> QED
  BY <1>1, <1>2, <1>3 DEF Next

(***************************************************************************)
(* Where the blockers are.  A blocker moves between the pool, a local of   *)
(* one thread, and one mutex; each lemma is about one such move.           *)
(***************************************************************************)
Places == NotTwice /\ NotLost

\* What a step may do to the locals that are places.
CarriesNow(t, b) == \A u \in Threads, c \in Blockers :
                       Carries(u, c)' <=> Carries(u, c) \/ (u = t /\ c = b)

CarriesNoMore(t, b) == \A u \in Threads, c \in Blockers :
                          Carries(u, c)' <=> Carries(u, c) /\ ~ (u = t /\ c = b)

CarriesAsBefore == \A u \in Threads, c \in Blockers : Carries(u, c)' <=> Carries(u, c)

LEMMA TakenFromPool ==
  ASSUME TypeOK, Places, NEW t \in Threads, pool # <<>>, CarriesNow(t, Head(pool)),
         pool' = Tail(pool), blocker' = blocker, created' = created
  PROVE  Places'
<1>1. /\ Len(pool) \in Nat \ {0}
      /\ Len(pool') = Len(pool) - 1
      /\ \A i \in 1..Len(pool') : i + 1 \in 1..Len(pool) /\ pool'[i] = pool[i + 1]
      /\ \A i \in 1..Len(pool) : i = 1 \/ i - 1 \in 1..Len(pool')
      /\ 1 \in 1..Len(pool) /\ Head(pool) = pool[1] /\ Head(pool) \in Blockers
  BY DEF TypeOK
<1>2. NotTwice'
  BY <1>1 DEF Places, NotTwice, CarriesNow, TypeOK
<1>3. ASSUME NEW b \in Blockers PROVE Somewhere(b)' <=> Somewhere(b)
  <2>1. ASSUME NEW i \in 1..Len(pool), pool[i] = b PROVE Somewhere(b)'
    BY <1>1, <2>1, SMTT(60) DEF Somewhere, CarriesNow
  <2> QED
    BY <1>1, <2>1 DEF Somewhere, CarriesNow
<1> QED
  BY <1>2, <1>3 DEF Places, NotLost

LEMMA PutInPool ==
  ASSUME TypeOK, Places, NEW t \in Threads, NEW b \in Blockers, Carries(t, b),
         CarriesNoMore(t, b), pool' = Append(pool, b), blocker' = blocker, created' = created
  PROVE  Places'
<1>1. /\ Len(pool) \in Nat
      /\ Len(pool') = Len(pool) + 1
      /\ \A i \in 1..Len(pool) : i \in 1..Len(pool') /\ pool'[i] = pool[i]
      /\ \A i \in 1..Len(pool') : i \in 1..Len(pool) \/ i = Len(pool')
      /\ Len(pool') \in 1..Len(pool') /\ pool'[Len(pool')] = b
  BY DEF TypeOK
<1>2. NotTwice'
  BY <1>1 DEF Places, NotTwice, CarriesNoMore
<1>3. ASSUME NEW c \in Blockers PROVE Somewhere(c)' <=> Somewhere(c)
  BY <1>1 DEF Somewhere, CarriesNoMore
<1> QED
  BY <1>2, <1>3 DEF Places, NotLost

LEMMA Allocated ==
  ASSUME Places, NEW t \in Threads, NEW b \in Blockers \ created, CarriesNow(t, b),
         pool' = pool, blocker' = blocker, created' = created \cup {b}
  PROVE  Places'
<1>1. ~ Somewhere(b)
  BY DEF Places, NotLost
<1>2. NotTwice'
  BY <1>1 DEF Places, NotTwice, Somewhere, CarriesNow
<1>3. ASSUME NEW c \in Blockers PROVE Somewhere(c)' <=> Somewhere(c) \/ c = b
  BY DEF Somewhere, CarriesNow
<1> QED
  BY <1>2, <1>3 DEF Places, NotLost

LEMMA PutInMutex ==
  ASSUME TypeOK, Places, NEW t \in Threads, NEW b \in Blockers, NEW m \in Mutexes,
         Carries(t, b), CarriesNoMore(t, b), blocker[m] = NoBlocker,
         blocker' = [blocker EXCEPT ![m] = b], pool' = pool, created' = created
  PROVE  Places'
<1>1. /\ \A n \in Mutexes \ {m} : blocker'[n] = blocker[n]
      /\ blocker'[m] = b
  BY DEF TypeOK
<1>2. NotTwice'
  BY <1>1 DEF Places, NotTwice, CarriesNoMore
<1>3. ASSUME NEW c \in Blockers PROVE Somewhere(c)' <=> Somewhere(c)
  BY <1>1, NanoMutexAssumption DEF Somewhere, CarriesNoMore
<1> QED
  BY <1>2, <1>3 DEF Places, NotLost

LEMMA TakenFromMutex ==
  ASSUME TypeOK, Places, NEW t \in Threads, NEW b \in Blockers, NEW m \in Mutexes,
         CarriesNow(t, b), blocker[m] = b,
         blocker' = [blocker EXCEPT ![m] = NoBlocker], pool' = pool, created' = created
  PROVE  Places'
<1>1. /\ \A n \in Mutexes \ {m} : blocker'[n] = blocker[n]
      /\ blocker'[m] = NoBlocker
  BY DEF TypeOK
<1>2. NotTwice'
  BY <1>1, NanoMutexAssumption DEF Places, NotTwice, CarriesNow
<1>3. ASSUME NEW c \in Blockers PROVE Somewhere(c)' <=> Somewhere(c)
  BY <1>1, NanoMutexAssumption DEF Somewhere, CarriesNow, Places, NotTwice
<1> QED
  BY <1>2, <1>3 DEF Places, NotLost

LEMMA NothingMoved ==
  ASSUME Places, CarriesAsBefore, blocker' = blocker, pool' = pool, created' = created
  PROVE  Places'
BY DEF Places, NotTwice, NotLost, Somewhere, CarriesAsBefore

LEMMA PlacesStep == UseInv /\ Places /\ [Next]_vars => Places'
<1> SUFFICES ASSUME UseInv, Places, [Next]_vars PROVE Places'
  OBVIOUS
<1> USE NanoMutexAssumption
<1>1. ASSUME NEW t \in Threads, ReuseBlocker(t) PROVE Places'
  <2>1. Head(pool) \in Blockers
    BY <1>1 DEF ReuseBlocker, UseInv, TypeOK
  <2>2. CarriesNow(t, Head(pool))
    BY <1>1, <2>1 DEF ReuseBlocker, Goto, CarriesNow, Carries, UseInv, TypeOK, LocalsOK
  <2> QED
    BY <1>1, <2>2, TakenFromPool DEF ReuseBlocker, UseInv
<1>2. ASSUME NEW t \in Threads, NewBlocker(t) PROVE Places'
  <2>1. PICK b \in Blockers \ created : /\ fresh' = [fresh EXCEPT ![t] = b]
                                        /\ created' = created \cup {b}
    BY <1>2 DEF NewBlocker
  <2>2. CarriesNow(t, b)
    BY <1>2, <2>1 DEF NewBlocker, Goto, CarriesNow, Carries, UseInv, TypeOK, LocalsOK
  <2> QED
    BY <1>2, <2>1, <2>2, Allocated DEF NewBlocker
<1>3. ASSUME NEW t \in Threads, InstallBlocker(t) PROVE Places'
  <2>1. at[t] \in Mutexes /\ fresh[t] \in Blockers /\ Carries(t, fresh[t])
    BY <1>3 DEF InstallBlocker, Goto, Carries, UseInv, LocalsOK
  <2>2. CarriesNoMore(t, fresh[t])
    BY <1>3, <2>1 DEF InstallBlocker, Goto, CarriesNoMore, Carries, UseInv, TypeOK
  <2> QED
    BY <1>3, <2>1, <2>2, PutInMutex DEF InstallBlocker, UseInv
<1>4. ASSUME NEW t \in Threads, SaveSpare(t) PROVE Places'
  <2>1. fresh[t] \in Blockers /\ Carries(t, fresh[t])
    BY <1>4 DEF SaveSpare, Goto, Carries, UseInv, LocalsOK
  <2>2. CarriesNoMore(t, fresh[t])
    BY <1>4, <2>1 DEF SaveSpare, Goto, CarriesNoMore, Carries, UseInv, TypeOK
  <2> QED
    BY <1>4, <2>1, <2>2, PutInPool DEF SaveSpare, UseInv, records
<1>5. ASSUME NEW t \in Threads, DetachBlocker(t) PROVE Places'
  <2>1. at[t] \in Mutexes /\ blk[t] \in Blockers /\ t \in Using(at[t])
    BY <1>5 DEF DetachBlocker, Goto, UseInv, LocalsOK, Using
  <2>2. blocker[at[t]] = blk[t]
    BY <1>5, <2>1 DEF DetachBlocker, Goto, UseInv, Shared
  <2>3. CarriesNow(t, blk[t])
    BY <1>5, <2>1 DEF DetachBlocker, Goto, CarriesNow, Carries, UseInv, TypeOK, LocalsOK, locals
  <2> QED
    BY <1>5, <2>1, <2>2, <2>3, TakenFromMutex DEF DetachBlocker, UseInv
<1>6. ASSUME NEW t \in Threads, SaveBlocker(t) PROVE Places'
  <2>1. blk[t] \in Blockers /\ Carries(t, blk[t])
    BY <1>6 DEF SaveBlocker, Goto, Carries, UseInv, LocalsOK
  <2>2. CarriesNoMore(t, blk[t])
    BY <1>6, <2>1
       DEF SaveBlocker, AfterBlocker, Goto, CarriesNoMore, Carries, UseInv, TypeOK, LocalsOK
  <2> QED
    BY <1>6, <2>1, <2>2, PutInPool DEF SaveBlocker, UseInv, records
<1>7. ASSUME NEW t \in Threads, Call(t) \/ UseInstalled(t) \/ LoseInstallRace(t) \/ StopUsing(t)
      PROVE  Places'
  <2>1. blocker' = blocker /\ pool' = pool /\ created' = created
    BY <1>7 DEF Call, LockFree, LockHeld, RefuseLock, NotAcquired, RefuseUnlock, UnlockQuiet,
                UnlockContested, UseInstalled, LoseInstallRace, StopUsing, records, vars
  <2>2. /\ fresh' = fresh
        /\ \A u \in Threads \ {t} : pc'[u] = pc[u] /\ blk'[u] = blk[u]
        /\ pc[t] # "saving" /\ pc'[t] # "saving"
    BY <1>7 DEF Call, LockFree, LockHeld, RefuseLock, NotAcquired, RefuseUnlock, UnlockQuiet,
                UnlockContested, UseInstalled, LoseInstallRace, StopUsing, JoinBlocker,
                AfterBlocker, Goto, locals, vars, UseInv, TypeOK
  <2> QED
    BY <2>1, <2>2, NothingMoved DEF CarriesAsBefore, Carries
<1>8. ASSUME NEW t \in Threads,
             \/ EnterBlocker(t) \/ DecideToWait(t) \/ DecideToRetry(t) \/ Park(t)
             \/ SpuriousWake(t) \/ Reacquire(t) \/ LeaveBlocker(t) \/ RetryHeld(t)
             \/ Signal(t) \/ RetryFree(t)
      PROVE  Places'
  <2>1. blocker' = blocker /\ pool' = pool /\ created' = created /\ fresh' = fresh /\ blk' = blk
    BY <1>8 DEF EnterBlocker, DecideToWait, DecideToRetry, Park, SpuriousWake, Reacquire,
                LeaveBlocker, RetryHeld, Signal, RetryFree, Move, records, locals
  <2>2. \A u \in Threads : pc'[u] = "saving" <=> pc[u] = "saving"
    <3>1. CASE Signal(t)
      BY <3>1 DEF Signal, Waiters, UseInv, TypeOK
    <3>2. CASE ~ Signal(t)
      BY <1>8, <3>2
         DEF EnterBlocker, DecideToWait, DecideToRetry, Park, SpuriousWake, Reacquire,
             LeaveBlocker, RetryHeld, RetryFree, Move, Goto, UseInv, TypeOK
    <3> QED
      BY <3>1, <3>2
  <2> QED
    BY <2>1, <2>2, NothingMoved DEF CarriesAsBefore, Carries
<1>9. CASE UNCHANGED vars
  BY <1>9, NothingMoved DEF CarriesAsBefore, Carries, vars, records, locals
<1>10. CASE Next
  <2>1. PICK t \in Threads : Call(t) \/ Step(t) \/ SpuriousWake(t)
    BY <1>10 DEF Next
  <2> QED
    BY <2>1, <1>1, <1>2, <1>3, <1>4, <1>5, <1>6, <1>7, <1>8 DEF Step
<1> QED
  BY <1>9, <1>10

LEMMA OneOrNone ==
  ASSUME NEW S, \A x, y \in S : x = y
  PROVE  Cardinality(S) = IF S = {} THEN 0 ELSE 1
<1>1. CASE S = {}
  BY <1>1, FS_EmptySet
<1>2. CASE S # {}
  <2>1. PICK x : S = {x}
    BY <1>2
  <2> QED
    BY <2>1, FS_Singleton
<1> QED
  BY <1>1, <1>2

LEMMA PlacesSuffice == TypeOK /\ Places => BlockerInOnePlace
<1> SUFFICES ASSUME TypeOK, Places, NEW b \in created
             PROVE  Cardinality(Installed(b)) + Cardinality(InHand(b)) + Cardinality(Pooled(b)) = 1
  BY DEF BlockerInOnePlace
<1>1. b \in Blockers
  BY DEF TypeOK
<1>2. /\ \A m, n \in Installed(b) : m = n
      /\ \A t, u \in InHand(b) : t = u
      /\ \A i, j \in Pooled(b) : i = j
  BY <1>1 DEF Places, NotTwice, Carries, Installed, InHand, Pooled
<1>3. /\ Installed(b) = {} \/ InHand(b) = {}
      /\ Installed(b) = {} \/ Pooled(b) = {}
      /\ InHand(b) = {} \/ Pooled(b) = {}
  BY <1>1 DEF Places, NotTwice, Carries, Installed, InHand, Pooled
<1>4. Installed(b) # {} \/ InHand(b) # {} \/ Pooled(b) # {}
  BY <1>1 DEF Places, NotLost, Somewhere, Carries, Installed, InHand, Pooled
<1>5. /\ Cardinality(Installed(b)) = IF Installed(b) = {} THEN 0 ELSE 1
      /\ Cardinality(InHand(b)) = IF InHand(b) = {} THEN 0 ELSE 1
      /\ Cardinality(Pooled(b)) = IF Pooled(b) = {} THEN 0 ELSE 1
  BY <1>2, OneOrNone
<1> QED
  BY <1>3, <1>4, <1>5

LEMMA PlacesInductive ==
  /\ Init => UseInv /\ Places
  /\ UseInv /\ Places /\ [Next]_vars => (UseInv /\ Places)'
<1>1. Init => Places
  BY NanoMutexAssumption DEF Init, Places, NotTwice, NotLost, Somewhere, Carries
<1> QED
  BY <1>1, UseInvInductive, PlacesStep

(* Every blocker ever created is in the pool once, or installed in one     *)
(* mutex, or in the hands of one thread of with_blocker: recycling neither *)
(* loses a blocker nor gives one to two mutexes.                           *)
THEOREM BlockerInOnePlaceHolds == Spec => []BlockerInOnePlace
<1>1. UseInv /\ Places => BlockerInOnePlace
  BY PlacesSuffice DEF UseInv
<1> QED
  BY <1>1, PlacesInductive, PTL DEF Spec

(***************************************************************************)
(* Wake-ups.                                                               *)
(***************************************************************************)
Base == UseInv /\ Places /\ BlockerExclusion

\* A thread that sleeps on a mutex uses its blocker.
LEMMA SleeperUsesBlocker ==
  ASSUME UseInv, NEW u \in Threads, NEW m \in Mutexes, Asleep(u, m)
  PROVE  blocker[m] \in Blockers /\ blk[u] = blocker[m] /\ purpose[u] = "lock"
<1>1. u \in Using(m) /\ pc[u] # "made"
  BY DEF Asleep, Using
<1> QED
  BY <1>1, SMTT(60) DEF Asleep, UseInv, Shared, TypeOK, LocalsOK

\* The thread that Signal wakes sleeps on the mutex that was unlocked.
LEMMA WaitersSleepHere ==
  ASSUME Base, NEW t \in Threads, pc[t] = "inside", NEW w \in Waiters(blk[t])
  PROVE  w \in Threads /\ at[w] = at[t] /\ purpose[w] = "lock" /\ w # t
<1>1. w \in Threads /\ pc[w] = "parked" /\ blk[w] = blk[t]
  BY DEF Waiters
<1>2. at[w] \in Mutexes /\ at[t] \in Mutexes
  BY <1>1 DEF Base, UseInv, LocalsOK
<1>3. w \in Using(at[w]) /\ t \in Using(at[t])
  BY <1>1 DEF Using
<1>4. blocker[at[w]] = blk[t] /\ blocker[at[t]] = blk[t] /\ blk[t] \in Blockers
  BY <1>1, <1>2, <1>3 DEF Base, UseInv, Shared, LocalsOK
<1> QED
  BY <1>1, <1>2, <1>4, ZenonT(60) DEF Base, Places, NotTwice, UseInv, LocalsOK, TypeOK

\* With no waiter, nobody sleeps while t runs inside the blocker.
LEMMA NoWaiterNoSleeper ==
  ASSUME Base, NEW t \in Threads, pc[t] = "inside", Waiters(blk[t]) = {}, NEW u \in Threads
  PROVE  ~ Asleep(u, at[t])
<1> SUFFICES ASSUME Asleep(u, at[t]) PROVE FALSE
  OBVIOUS
<1>1. at[t] \in Mutexes /\ t \in Using(at[t])
  BY DEF Base, UseInv, LocalsOK, Using
<1>2. blk[u] = blk[t] /\ blk[t] \in Blockers
  BY <1>1, SleeperUsesBlocker DEF Base, UseInv, Shared, LocalsOK
<1>3. CASE pc[u] = "parked"
  BY <1>2, <1>3 DEF Waiters
<1>4. CASE pc[u] = "parking"
  BY <1>2, <1>4 DEF Base, BlockerExclusion, HasBlockerMutex
<1> QED
  BY <1>3, <1>4 DEF Asleep

\* A step after which m is not newly free, nobody new sleeps on it, and the
\* rescuers are still there.
Harmless(m) == /\ holder'[m] = NoThread => holder[m] = NoThread
               /\ \A u \in Threads : Asleep(u, m)' => Asleep(u, m)
               /\ \A u \in Threads : Rescuer(u, m) => Rescuer(u, m)'

Covered(m) == (holder[m] = NoThread /\ \E t \in Threads : Asleep(t, m))
                => \E t \in Threads : Rescuer(t, m)

LEMMA HarmlessStep ==
  ASSUME NEW m \in Mutexes, Harmless(m), Covered(m)
  PROVE  Covered(m)'
BY DEF Harmless, Covered

LEMMA CoveredStep ==
  ASSUME Base, [Next]_vars, NEW m \in Mutexes, Covered(m)
  PROVE  Covered(m)'
<1> USE NanoMutexAssumption
<1>1. ASSUME NEW t \in Threads, NEW n \in Mutexes, UnlockQuiet(t, n) PROVE Covered(m)'
  <2>1. CASE n = m
    <3>1. \A u \in Threads : ~ Asleep(u, m)
      BY <1>1, <2>1, SleeperUsesBlocker DEF UnlockQuiet, Base
    <3> QED
      BY <1>1, <3>1 DEF UnlockQuiet, Covered, Asleep, locals
  <2>2. CASE n # m
    BY <1>1, <2>2, HarmlessStep
       DEF UnlockQuiet, Harmless, Asleep, Rescuer, locals, Base, UseInv, TypeOK
  <2> QED
    BY <2>1, <2>2
<1>2. ASSUME NEW t \in Threads, NEW n \in Mutexes, UnlockContested(t, n) PROVE Covered(m)'
  <2>1. CASE n = m
    <3>1. Rescuer(t, m)'
      BY <1>2, <2>1 DEF UnlockContested, Goto, Rescuer, Base, UseInv, TypeOK
    <3> QED
      BY <3>1 DEF Covered
  <2>2. CASE n # m
    <3>1. Harmless(m)
      BY <1>2, <2>2 DEF UnlockContested, Goto, Harmless, Asleep, Rescuer, Base, UseInv, TypeOK, LocalsOK
    <3> QED
      BY <3>1, HarmlessStep
  <2> QED
    BY <2>1, <2>2
<1>3. ASSUME NEW t \in Threads, NEW n \in Mutexes, LockFree(t, n) \/ LockHeld(t, n)
      PROVE  Covered(m)'
  <2>1. Harmless(m)
    BY <1>3 DEF LockFree, LockHeld, Acquire, Goto, Harmless, Asleep, Rescuer, records, locals,
                Base, UseInv, TypeOK, LocalsOK
  <2> QED
    BY <2>1, HarmlessStep
<1>4. ASSUME NEW t \in Threads, DecideToWait(t) PROVE Covered(m)'
  <2>1. CASE at[t] = m
    BY <1>4, <2>1 DEF DecideToWait, Move, records, Covered
  <2>2. CASE at[t] # m
    <3>1. Harmless(m)
      BY <1>4, <2>2 DEF DecideToWait, Move, Goto, Harmless, Asleep, Rescuer, records, locals,
                        Base, UseInv, TypeOK
    <3> QED
      BY <3>1, HarmlessStep
  <2> QED
    BY <2>1, <2>2
<1>5. ASSUME NEW t \in Threads, RetryFree(t) PROVE Covered(m)'
  <2>1. CASE at[t] = m
    BY <1>5, <2>1 DEF RetryFree, Acquire, Covered, Base, UseInv, TypeOK
  <2>2. CASE at[t] # m
    <3>1. Harmless(m)
      BY <1>5, <2>2 DEF RetryFree, Acquire, Return, Goto, Harmless, Asleep, Rescuer,
                        Base, UseInv, TypeOK
    <3> QED
      BY <3>1, HarmlessStep
  <2> QED
    BY <2>1, <2>2
<1>6. ASSUME NEW t \in Threads, RetryHeld(t) PROVE Covered(m)'
  <2>1. Harmless(m)
    BY <1>6 DEF RetryHeld, Move, Goto, Harmless, Asleep, Rescuer, records, locals,
                Base, UseInv, TypeOK
  <2> QED
    BY <2>1, HarmlessStep
<1>7. ASSUME NEW t \in Threads, Signal(t) PROVE Covered(m)'
  <2> USE DEF Signal
  <2>1. pc[t] = "inside" /\ purpose[t] = "unlock"
    BY <1>7
  <2>2. UNCHANGED <<holder, at, purpose>>
    BY <1>7 DEF records, locals
  <2>3. \A u \in Threads : Asleep(u, m)' => Asleep(u, m)
    BY <1>7, <2>1, <2>2 DEF Asleep, Waiters, Base, UseInv, TypeOK
  <2>4. CASE Waiters(blk[t]) = {}
    <3>1. CASE at[t] = m
      BY <2>1, <2>3, <2>4, <3>1, NoWaiterNoSleeper DEF Covered
    <3>2. CASE at[t] # m
      <4>1. pc' = [pc EXCEPT ![t] = "leaving"]
        BY <1>7, <2>4
      <4>2. Harmless(m)
        BY <2>1, <2>2, <2>3, <3>2, <4>1 DEF Harmless, Rescuer, Base, UseInv, TypeOK
      <4> QED
        BY <4>2, HarmlessStep
    <3> QED
      BY <3>1, <3>2
  <2>5. CASE Waiters(blk[t]) # {}
    <3>1. PICK w \in Waiters(blk[t]) : pc' = [pc EXCEPT ![t] = "leaving", ![w] = "woken"]
      BY <1>7, <2>5
    <3>2. w \in Threads /\ at[w] = at[t] /\ purpose[w] = "lock" /\ w # t
      BY <2>1, WaitersSleepHere
    <3>3. CASE at[t] = m
      <4>1. Rescuer(w, m)'
        BY <2>2, <3>1, <3>2, <3>3 DEF Rescuer, Base, UseInv, TypeOK
      <4> QED
        BY <3>2, <4>1 DEF Covered
    <3>4. CASE at[t] # m
      <4>1. Harmless(m)
        BY <2>1, <2>2, <2>3, <3>1, <3>2, <3>4 DEF Harmless, Rescuer, Base, UseInv, TypeOK
      <4> QED
        BY <4>1, HarmlessStep
    <3> QED
      BY <3>3, <3>4
  <2> QED
    BY <2>4, <2>5
<1>8. ASSUME NEW t \in Threads,
             \/ EnterBlocker(t) \/ DecideToRetry(t) \/ Park(t)
             \/ SpuriousWake(t) \/ Reacquire(t) \/ LeaveBlocker(t)
      PROVE  Covered(m)'
  <2>1. Harmless(m)
    <3>1. UNCHANGED <<holder, at, purpose>>
      BY <1>8 DEF EnterBlocker, DecideToRetry, Park, SpuriousWake, Reacquire, LeaveBlocker, Move,
                  records, locals
    <3>2. \A u \in Threads : Asleep(u, m)' => Asleep(u, m)
      BY <1>8, <3>1 DEF EnterBlocker, DecideToRetry, Park, SpuriousWake, Reacquire, LeaveBlocker,
                        Move, Goto, Asleep, Base, UseInv, TypeOK
    <3>3. \A u \in Threads : Rescuer(u, m) => Rescuer(u, m)'
      BY <1>8, <3>1 DEF EnterBlocker, DecideToRetry, Park, SpuriousWake, Reacquire, LeaveBlocker,
                        Move, Goto, Rescuer, Base, UseInv, TypeOK, LocalsOK
    <3> QED
      BY <3>1, <3>2, <3>3 DEF Harmless
  <2> QED
    BY <2>1, HarmlessStep
<1>9. ASSUME NEW t \in Threads,
             \/ UseInstalled(t) \/ ReuseBlocker(t) \/ NewBlocker(t)
             \/ InstallBlocker(t) \/ LoseInstallRace(t) \/ SaveSpare(t) \/ DetachBlocker(t)
      PROVE  Covered(m)'
  <2>1. UNCHANGED <<holder, at, purpose>>
    BY <1>9 DEF UseInstalled, ReuseBlocker, NewBlocker, InstallBlocker, LoseInstallRace,
                SaveSpare, DetachBlocker, records, locals
  <2>2. \E p \in {"made", "spare", "enter", "saving"} :
           pc[t] \notin {"parking", "parked", "idle"} /\ pc' = [pc EXCEPT ![t] = p]
    BY <1>9 DEF UseInstalled, ReuseBlocker, NewBlocker, InstallBlocker, LoseInstallRace,
                SaveSpare, DetachBlocker, Goto
  <2>3. purpose[t] = "unlock" => pc[t] = "left"
    BY <1>9 DEF UseInstalled, ReuseBlocker, NewBlocker, InstallBlocker, LoseInstallRace,
                SaveSpare, DetachBlocker, Goto, Base, UseInv, LocalsOK
  <2>4. Harmless(m)
    BY <2>1, <2>2, <2>3 DEF Harmless, Asleep, Rescuer, Base, UseInv, TypeOK
  <2> QED
    BY <2>4, HarmlessStep
<1>10. ASSUME NEW t \in Threads, StopUsing(t) \/ SaveBlocker(t) PROVE Covered(m)'
  <2>1. holder' = holder /\ pc[t] \in {"left", "saving"}
    BY <1>10 DEF StopUsing, SaveBlocker, Goto, records
  <2>2. CASE purpose[t] = "lock"
    <3>1. UNCHANGED <<at, purpose>> /\ pc' = [pc EXCEPT ![t] = "retry"]
      BY <1>10, <2>2 DEF StopUsing, SaveBlocker, Goto, AfterBlocker, ReturnOrRetry
    <3>2. Harmless(m)
      BY <2>1, <2>2, <3>1 DEF Harmless, Asleep, Rescuer, Base, UseInv, TypeOK
    <3> QED
      BY <3>2, HarmlessStep
  <2>3. CASE purpose[t] = "unlock"
    <3>1. /\ at' = [at EXCEPT ![t] = NoMutex]
          /\ purpose' = [purpose EXCEPT ![t] = "lock"]
          /\ pc' = [pc EXCEPT ![t] = "idle"]
      BY <1>10, <2>3 DEF StopUsing, SaveBlocker, Goto, AfterBlocker, ReturnOrRetry, Return
    <3>2. Harmless(m)
      BY <2>1, <2>3, <3>1 DEF Harmless, Asleep, Rescuer, Base, UseInv, TypeOK
    <3> QED
      BY <3>2, HarmlessStep
  <2> QED
    BY <2>2, <2>3 DEF Base, UseInv, TypeOK
<1>11. CASE UNCHANGED vars
  BY <1>11, HarmlessStep DEF Harmless, Asleep, Rescuer, vars, records, locals
<1>12. CASE Next
  <2>1. PICK t \in Threads : Call(t) \/ Step(t) \/ SpuriousWake(t)
    BY <1>12 DEF Next
  <2>2. CASE Call(t)
    BY <2>2, <1>1, <1>2, <1>3, <1>11 DEF Call, RefuseLock, NotAcquired, RefuseUnlock
  <2> QED
    BY <2>1, <2>2, <1>4, <1>5, <1>6, <1>7, <1>8, <1>9, <1>10 DEF Step
<1> QED
  BY <1>11, <1>12

\* The inductive invariant of NanoMutex.
IInv == Base /\ MutualExclusion /\ NoLostWakeup

LEMMA IInvInductive ==
  /\ Init => IInv
  /\ IInv /\ [Next]_vars => IInv'
<1>1. Init => BlockerExclusion /\ MutualExclusion /\ NoLostWakeup
  BY NanoMutexAssumption
     DEF Init, BlockerExclusion, HasBlockerMutex, MutualExclusion, NoLostWakeup, Asleep
<1>2. Base /\ NoLostWakeup /\ [Next]_vars => NoLostWakeup'
  BY CoveredStep DEF NoLostWakeup, Covered
<1> QED
  BY <1>1, <1>2, PlacesInductive, BlockerExclusionStep, MutualExclusionStep DEF IInv, Base

(* While a mutex is free and a thread sleeps in lock for it, some thread   *)
(* is on its way to signal the sleeper or to retry lock: no wake-up is     *)
(* lost in any interleaving of any number of threads and mutexes.          *)
THEOREM NoLostWakeupHolds == Spec => []NoLostWakeup
<1>1. IInv => NoLostWakeup
  BY DEF IInv
<1> QED
  BY <1>1, IInvInductive, PTL DEF Spec

-----------------------------------------------------------------------------
(***************************************************************************)
(* Every step of NanoMutex is a step of MutexSpec, or changes nothing that *)
(* MutexSpec speaks of.  The owner of a mutex in the mapping is the thread *)
(* that was told it has the mutex; by MutualExclusion there is one at      *)
(* most, and it is the holder field.                                       *)
(***************************************************************************)
LEMMA OwnerIsHolder == TypeOK /\ MutualExclusion => [m \in Mutexes |-> OwnerOf(m)] = holder
<1> SUFFICES ASSUME TypeOK, MutualExclusion, NEW m \in Mutexes PROVE OwnerOf(m) = holder[m]
  BY DEF TypeOK
<1>1. CASE \E t \in Threads : m \in owns[t]
  <2>1. (CHOOSE t \in Threads : m \in owns[t]) = holder[m]
    BY <1>1 DEF MutualExclusion
  <2> QED
    BY <1>1, <2>1 DEF OwnerOf
<1>2. CASE ~ \E t \in Threads : m \in owns[t]
  BY <1>2 DEF OwnerOf, TypeOK, MutualExclusion
<1> QED
  BY <1>1, <1>2

\* What MutexSpec sees of where the threads are.
Blocked == [t \in Threads |-> BlockedOn(t)]

LEMMA StepImplements ==
  ASSUME UseInv, MutualExclusion, [Next]_vars,
         [m \in Mutexes |-> OwnerOf(m)]' = holder', [m \in Mutexes |-> OwnerOf(m)] = holder
  PROVE  [Abstract!Next]_(Abstract!vars)
<1> USE NanoMutexAssumption DEF UseInv, TypeOK, LocalsOK, Goto, Move, records, locals, BlockedOn,
        Abstract!vars
<1>1. ASSUME NEW t \in Threads, NEW m \in Mutexes, LockFree(t, m) PROVE Abstract!Take(t, m)
  BY <1>1 DEF LockFree, Acquire, Abstract!Take
<1>2. ASSUME NEW t \in Threads, NEW m \in Mutexes, LockHeld(t, m) PROVE Abstract!Block(t, m)
  BY <1>2 DEF LockHeld, Abstract!Block
<1>3. ASSUME NEW t \in Threads, NEW m \in Mutexes, UnlockQuiet(t, m) PROVE Abstract!Release(t, m)
  BY <1>3 DEF UnlockQuiet, Abstract!Release
<1>4. ASSUME NEW t \in Threads, NEW m \in Mutexes, UnlockContested(t, m)
      PROVE Abstract!Release(t, m)
  <2>1. /\ pc[t] = "idle"
        /\ at' = [at EXCEPT ![t] = m]
        /\ purpose' = [purpose EXCEPT ![t] = "unlock"]
    BY <1>4 DEF UnlockContested
  <2>2. ASSUME NEW u \in Threads PROVE BlockedOn(u)' = BlockedOn(u)
    BY <2>1
  <2>3. Blocked' = Blocked /\ BlockedOn(t) = NoMutex
    BY <2>1, <2>2 DEF Blocked
  <2>4. holder[m] = t /\ holder' = [holder EXCEPT ![m] = NoThread]
    BY <1>4 DEF UnlockContested
  <2> QED
    BY <2>3, <2>4 DEF Abstract!Release, Blocked
<1>5. ASSUME NEW t \in Threads, RetryFree(t) PROVE \E m \in Mutexes : Abstract!Grant(t, m)
  <2>1. Abstract!Grant(t, at[t]) /\ at[t] \in Mutexes
    BY <1>5 DEF RetryFree, Acquire, Return, Abstract!Grant
  <2> HIDE DEF BlockedOn
  <2> QED
    BY <2>1, Zenon
<1>6. ASSUME NEW t \in Threads, StopUsing(t) \/ SaveBlocker(t)
      PROVE  UNCHANGED <<[m \in Mutexes |-> OwnerOf(m)], Blocked>>
  <2>1. CASE purpose[t] = "lock"
    BY <1>6, <2>1 DEF StopUsing, SaveBlocker, ReturnOrRetry, Blocked
  <2>2. CASE purpose[t] = "unlock"
    BY <1>6, <2>2 DEF StopUsing, SaveBlocker, ReturnOrRetry, Return, Blocked
  <2> QED
    BY <2>1, <2>2
<1>7. ASSUME NEW t \in Threads,
             \/ UseInstalled(t) \/ ReuseBlocker(t) \/ NewBlocker(t)
             \/ InstallBlocker(t) \/ LoseInstallRace(t) \/ SaveSpare(t) \/ DetachBlocker(t)
             \/ EnterBlocker(t) \/ DecideToWait(t) \/ DecideToRetry(t) \/ Park(t)
             \/ SpuriousWake(t) \/ Reacquire(t) \/ LeaveBlocker(t) \/ RetryHeld(t) \/ Signal(t)
      PROVE  UNCHANGED <<[m \in Mutexes |-> OwnerOf(m)], Blocked>>
  <2>1. UNCHANGED <<holder, at, purpose>>
    BY <1>7 DEF UseInstalled, ReuseBlocker, NewBlocker, InstallBlocker, LoseInstallRace, SaveSpare,
                DetachBlocker, EnterBlocker, DecideToWait, DecideToRetry, Park, SpuriousWake,
                Reacquire, LeaveBlocker, RetryHeld, Signal
  <2> QED
    BY <2>1 DEF Blocked
<1>8. CASE UNCHANGED vars
  BY <1>8 DEF vars, Blocked
<1>9. CASE Next
  <2>1. PICK t \in Threads : Call(t) \/ Step(t) \/ SpuriousWake(t)
    BY <1>9 DEF Next
  <2>2. CASE Call(t)
    BY <2>2, <1>1, <1>2, <1>3, <1>4, <1>8
       DEF Call, RefuseLock, NotAcquired, RefuseUnlock, Abstract!Next, Blocked
  <2>3. CASE RetryFree(t)
    BY <2>3, <1>5 DEF Abstract!Next
  <2>4. CASE SpuriousWake(t) \/ (Step(t) /\ ~ RetryFree(t))
    BY <2>4, <1>6, <1>7 DEF Step, Blocked
  <2> QED
    BY <2>1, <2>2, <2>3, <2>4
<1> QED
  BY <1>8, <1>9 DEF Blocked

(* lock, try_lock and unlock, with all the work on blockers hidden, are    *)
(* the Take, Block, Grant and Release of MutexSpec, in every interleaving: *)
(* the safety half of ImplementsMutexSpec.                                 *)
THEOREM NanoMutexImplementsMutexSpec == Spec => Abstract!SafeSpec
<1>1. Init => Abstract!Init
  BY DEF Init, Abstract!Init, OwnerOf, BlockedOn
<1>2. UseInv /\ MutualExclusion /\ [Next]_vars => [Abstract!Next]_(Abstract!vars)
  <2> SUFFICES ASSUME UseInv, MutualExclusion, [Next]_vars
               PROVE  [Abstract!Next]_(Abstract!vars)
    OBVIOUS
  <2>1. (TypeOK /\ MutualExclusion)'
    BY UseInvInductive, MutualExclusionStep DEF UseInv
  <2>2. ([m \in Mutexes |-> OwnerOf(m)] = holder)'
    BY <2>1, OwnerIsHolder, PTL
  <2>3. [m \in Mutexes |-> OwnerOf(m)] = holder
    BY OwnerIsHolder DEF UseInv
  <2> QED
    BY <2>2, <2>3, StepImplements
<1>3. Spec => [](UseInv /\ MutualExclusion)
  <2>1. Init => MutualExclusion
    BY NanoMutexAssumption DEF Init, MutualExclusion
  <2> QED
    BY <2>1, UseInvInductive, MutualExclusionStep, PTL DEF Spec
<1> QED
  BY <1>1, <1>2, <1>3, PTL DEF Spec, Abstract!SafeSpec
==============================================================================
