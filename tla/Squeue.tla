-------------------------------- MODULE Squeue --------------------------------
(***************************************************************************)
(* Squeue (core_unix/squeue): a bounded queue shared by threads, on one    *)
(* mutex and two conditions.  Every operation is wrap: lock, run the body, *)
(* and in a finally signal one waiter of each condition that holds, then   *)
(* unlock.  No operation broadcasts, so after a transfer of many elements  *)
(* every thread that is woken has to wake the next one.                    *)
(***************************************************************************)
EXTENDS Naturals, Sequences, FiniteSets

CONSTANTS Threads, NoThread,
          Elements,
          Batches,     (* what a call can put in; elements not in use bound  *)
                       (* the length of the queue                            *)
          MaxSizes     (* the sizes given to create                          *)

ASSUME SqueueAssumption == /\ NoThread \notin Threads
                           /\ Batches \subseteq Seq(Elements) \ {<<>>}
                           /\ MaxSizes \subseteq Nat

VARIABLES ev_q,
          maxsize,
          mutex,   (* the thread that has the mutex                          *)
          pc,      (* where each thread is                                   *)
          call     (* the operation each thread is in, until its body is run *)

vars == <<ev_q, maxsize, mutex, pc, call>>

NeedRoom    == {"push", "transfer_queue_in"}
NeedElement == {"pop", "transfer_queue", "wait_not_empty"}
Puts        == {"push", "push_uncond", "push_or_drop",
                "transfer_queue_in", "transfer_queue_in_uncond"}
Others      == {"pop", "transfer_queue", "transfer_queue_nowait",
                "clear", "length", "wait_not_empty"}

NoCall == [op |-> "none", batch |-> <<>>]
Calls  == [op : Puts, batch : Batches] \cup [op : Others, batch : {<<>>}]

TypeOK == /\ ev_q \in Seq(Elements)
          /\ maxsize \in Nat
          /\ mutex \in Threads \cup {NoThread}
          /\ pc \in [Threads -> {"idle", "locking", "running", "waiting", "woken", "finally"}]
          /\ call \in [Threads -> Calls \cup {NoCall}]
          /\ \A t \in Threads : mutex = t <=> pc[t] \in {"running", "finally"}

\* create.
Init == /\ ev_q = <<>>
        /\ maxsize \in MaxSizes
        /\ mutex = NoThread
        /\ pc = [t \in Threads |-> "idle"]
        /\ call = [t \in Threads |-> NoCall]

Goto(t, from, to) == pc[t] = from /\ pc' = [pc EXCEPT ![t] = to]

\* The condition that the operation waits for, and when it holds.
Needs(t) == CASE call[t].op \in NeedRoom    -> "room"
              [] call[t].op \in NeedElement -> "element"
              [] OTHER                      -> "nothing"

There(what) == CASE what = "room"    -> Len(ev_q) < maxsize
                 [] what = "element" -> ev_q # <<>>
                 [] OTHER            -> TRUE

Sleepers(what) == {t \in Threads : pc[t] = "waiting" /\ Needs(t) = what}

-----------------------------------------------------------------------------
(***************************************************************************)
(* The calls.                                                              *)
(***************************************************************************)

Begin(t, op, batch) == /\ Goto(t, "idle", "locking")
                       /\ call' = [call EXCEPT ![t] = [op |-> op, batch |-> batch]]
                       /\ UNCHANGED <<ev_q, maxsize, mutex>>

InUse(e) == \/ \E i \in 1..Len(ev_q) : ev_q[i] = e
            \/ \E t \in Threads : \E i \in 1..Len(call[t].batch) : call[t].batch[i] = e

\* An operation that puts elements in; push and its variants put in one, and
\* a transfer of an empty queue returns at once.
BeginPut(t) ==
  \E op \in Puts, batch \in Batches :
     /\ \A i \in 1..Len(batch) : ~ InUse(batch[i])
     /\ Len(batch) = 1 \/ op \in {"transfer_queue_in", "transfer_queue_in_uncond"}
     /\ Begin(t, op, batch)

\* transfer_queue_nowait looks at the queue without the mutex first.
BeginOther(t) == \E op \in Others : /\ op = "transfer_queue_nowait" => ev_q # <<>>
                                    /\ Begin(t, op, <<>>)

Lock(t) == /\ Goto(t, "locking", "running")
           /\ mutex = NoThread
           /\ mutex' = t
           /\ UNCHANGED <<ev_q, maxsize, call>>

-----------------------------------------------------------------------------
(***************************************************************************)
(* The bodies, which run with the mutex.                                   *)
(***************************************************************************)

\* wait_not_full, wait_not_empty: Condition.wait gives the mutex up and joins
\* the waiters in one step.
Wait(t) == /\ Goto(t, "running", "waiting")
           /\ ~ There(Needs(t))
           /\ mutex' = NoThread
           /\ UNCHANGED <<ev_q, maxsize, call>>

\* Condition.wait takes the mutex back, and the while loop tests again.
Reacquire(t) == /\ Goto(t, "woken", "running")
                /\ mutex = NoThread
                /\ mutex' = t
                /\ UNCHANGED <<ev_q, maxsize, call>>

\* A condition may return without a signal.
SpuriousWake(t) == /\ Goto(t, "waiting", "woken")
                   /\ UNCHANGED <<ev_q, maxsize, mutex, call>>

Body(t, ops) == /\ Goto(t, "running", "finally")
                /\ call[t].op \in ops
                /\ call' = [call EXCEPT ![t] = NoCall]
                /\ UNCHANGED <<maxsize, mutex>>

\* Mutant: push waits with an if in place of a while, and does not look again.
PushUntested(t) == /\ Body(t, {"push", "transfer_queue_in"})
                   /\ ev_q' = ev_q \o call[t].batch

Push(t) == /\ Body(t, {"push", "transfer_queue_in"})
           /\ Len(ev_q) < maxsize
           /\ ev_q' = ev_q \o call[t].batch

PushUncond(t) == /\ Body(t, {"push_uncond", "transfer_queue_in_uncond"})
                 /\ ev_q' = ev_q \o call[t].batch

PushOrDrop(t) == /\ Body(t, {"push_or_drop"})
                 /\ ev_q' = IF Len(ev_q) < maxsize THEN ev_q \o call[t].batch ELSE ev_q

Pop(t) == /\ Body(t, {"pop"})
          /\ ev_q # <<>>
          /\ ev_q' = Tail(ev_q)

TransferQueue(t) == /\ Body(t, {"transfer_queue"})
                    /\ ev_q # <<>>
                    /\ ev_q' = <<>>

\* transfer_queue_nowait_nolock and clear.
TakeWhatIsThere(t) == /\ Body(t, {"transfer_queue_nowait", "clear"})
                      /\ ev_q' = <<>>

WaitNotEmpty(t) == /\ Body(t, {"wait_not_empty"})
                   /\ ev_q # <<>>
                   /\ UNCHANGED ev_q

Length(t) == /\ Body(t, {"length"})
             /\ UNCHANGED ev_q

-----------------------------------------------------------------------------
(***************************************************************************)
(* finally.                                                                *)
(***************************************************************************)

\* The outcomes of Condition.signal, if it is called: one waiter is woken.
Signalled(what, signals) == IF signals /\ Sleepers(what) # {}
                            THEN {{w} : w \in Sleepers(what)}
                            ELSE {{}}

Leave(t, woken) == /\ pc[t] = "finally"
                   /\ pc' = [u \in Threads |-> IF u = t THEN "idle"
                                               ELSE IF u \in woken THEN "woken" ELSE pc[u]]
                   /\ UNCHANGED <<ev_q, maxsize, call>>

\* Mutant: a producer that finds the queue already in use signals nobody.
FinallySignallingFirst(t) ==
  /\ \E v \in Signalled("element", Len(ev_q) = 1), w \in Signalled("room", There("room")) :
        Leave(t, v \cup w)
  /\ mutex' = NoThread

Finally(t) ==
  /\ \E v \in Signalled("element", There("element")), w \in Signalled("room", There("room")) :
        Leave(t, v \cup w)
  /\ mutex' = NoThread

Step(t) == \/ Lock(t) \/ Wait(t) \/ Reacquire(t)
           \/ Push(t) \/ PushUncond(t) \/ PushOrDrop(t)
           \/ Pop(t) \/ TransferQueue(t) \/ TakeWhatIsThere(t)
           \/ WaitNotEmpty(t) \/ Length(t)
           \/ Finally(t)

Next == \E t \in Threads : BeginPut(t) \/ BeginOther(t) \/ Step(t) \/ SpuriousWake(t)

Spec == Init /\ [][Next]_vars

(***************************************************************************)
(* A thread that can go on does so.  The mutex need not be handed on in    *)
(* order, but a thread that waits for it is not passed over for ever while *)
(* it is free again and again.                                             *)
(***************************************************************************)
Fairness == \A t \in Threads : /\ WF_vars(Step(t))
                              /\ SF_vars(Lock(t) \/ Reacquire(t))

FairSpec == Spec /\ Fairness

-----------------------------------------------------------------------------
(***************************************************************************)
(* Properties.                                                             *)
(***************************************************************************)

(* Those who will make use of a condition or signal it.                    *)
Rescuers(what) == {t \in Threads : \/ pc[t] = "finally"
                                   \/ pc[t] \in {"woken", "running"} /\ Needs(t) = what}

(* No lost wake-up, for either condition: while there is room, or an       *)
(* element, and a thread sleeps until there is, another thread is on its   *)
(* way to use it or to signal.  finally signals one waiter only, so this   *)
(* is the chain of signals that a transfer or a clear relies on.           *)
NoLostWakeup == \A what \in {"room", "element"} :
                   There(what) /\ Sleepers(what) # {} => Rescuers(what) # {}

(* The refinement: a thread asks from its call until its body is run.      *)
Abstract == INSTANCE BoundedQueueSpec WITH
              queue <- ev_q, asked <- [t \in Threads |-> Needs(t)]

(* Squeue implements BoundedQueueSpec, its liveness included: however the  *)
(* woken threads race newcomers for the mutex, bounded operations find     *)
(* room, removals find elements, and what stays there is put to use.       *)
ImplementsBoundedQueueSpec == Abstract!Spec
==============================================================================
