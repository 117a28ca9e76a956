------------------------------ MODULE MutexSpec ------------------------------
(***************************************************************************)
(* What the interface of Nano_mutex promises to the threads that share a   *)
(* set of mutexes: a mutex has at most one owner, a blocked thread stays   *)
(* blocked until it is granted the mutex it asked for, only the owner      *)
(* releases a mutex, and a free mutex somebody is blocked on does not stay *)
(* free.  Nothing is said about which blocked thread is granted it:        *)
(* nano_mutex.ml lets a newcomer barge in.  NanoMutex is shown to          *)
(* implement this module.                                                  *)
(***************************************************************************)
CONSTANTS Threads, Mutexes, NoThread, NoMutex

VARIABLES owner,    (* owner[m]: the thread that was told it has m          *)
          blocked   (* blocked[t]: the mutex t is inside lock for           *)

vars == <<owner, blocked>>

Init == /\ owner = [m \in Mutexes |-> NoThread]
        /\ blocked = [t \in Threads |-> NoMutex]

\* lock or try_lock on a free mutex.
Take(t, m) == /\ blocked[t] = NoMutex
              /\ owner[m] = NoThread
              /\ owner' = [owner EXCEPT ![m] = t]
              /\ UNCHANGED blocked

\* lock on a mutex that another thread has.
Block(t, m) == /\ blocked[t] = NoMutex
               /\ owner[m] \notin {NoThread, t}
               /\ blocked' = [blocked EXCEPT ![t] = m]
               /\ UNCHANGED owner

\* A blocked lock returns with the mutex.
Grant(t, m) == /\ blocked[t] = m
               /\ owner[m] = NoThread
               /\ owner' = [owner EXCEPT ![m] = t]
               /\ blocked' = [blocked EXCEPT ![t] = NoMutex]

Release(t, m) == /\ blocked[t] = NoMutex
                 /\ owner[m] = t
                 /\ owner' = [owner EXCEPT ![m] = NoThread]
                 /\ UNCHANGED blocked

Next == \E t \in Threads, m \in Mutexes :
           Take(t, m) \/ Block(t, m) \/ Grant(t, m) \/ Release(t, m)

Fairness == \A m \in Mutexes : WF_vars(\E t \in Threads : Grant(t, m))

SafeSpec == Init /\ [][Next]_vars

Spec == SafeSpec /\ Fairness
==============================================================================
