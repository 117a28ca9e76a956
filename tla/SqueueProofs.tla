---------------------------- MODULE SqueueProofs ----------------------------
(***************************************************************************)
(* Proofs about Squeue, for every set of threads, of batches and of sizes: *)
(* type correctness, no lost wake-up, and that Squeue implements the       *)
(* safety part of BoundedQueueSpec.                                        *)
(***************************************************************************)
EXTENDS Squeue, TLAPS

(* Those that run their bodies.                                            *)
Bodies(t) == \/ Push(t) \/ PushUncond(t) \/ PushOrDrop(t)
             \/ Pop(t) \/ TransferQueue(t) \/ TakeWhatIsThere(t)
             \/ WaitNotEmpty(t) \/ Length(t)

-----------------------------------------------------------------------------
(* What a call puts in is a sequence of elements, if it puts anything in.  *)
LEMMA CallsAreCalls ==
  ASSUME NEW c \in Calls \cup {NoCall}
  PROVE  c.op \in Puts \cup Others \cup {"none"} /\ c.batch \in Seq(Elements)
<1>1. CASE c \in [op : Puts, batch : Batches]
  <2>1. c.op \in Puts /\ c.batch \in Batches
    BY <1>1
  <2> QED
    BY <2>1, SqueueAssumption
<1>2. CASE c \in [op : Others, batch : {<<>>}]
  <2>1. c.op \in Others /\ c.batch = <<>>
    BY <1>2
  <2> QED
    BY <2>1
<1>3. CASE c = NoCall
  BY <1>3 DEF NoCall
<1> QED
  BY <1>1, <1>2, <1>3 DEF Calls

(* A batch that goes in is a non-empty sequence of elements.               *)
LEMMA BatchesArePutIn ==
  ASSUME NEW c \in Calls, c.op \in Puts
  PROVE  c.batch \in Batches
  BY DEF Calls, Puts, Others

(* Condition.signal wakes a thread that sleeps on the condition, and one   *)
(* if there is one.                                                        *)
LEMMA SignalWakesASleeper ==
  ASSUME NEW what,
         NEW v \in Signalled(what, There(what))
  PROVE  /\ v \subseteq Sleepers(what)
         /\ There(what) /\ Sleepers(what) # {} => v # {}
  BY DEF Signalled, Sleepers

(* A thread outside wrap, or past its body, is in no operation.            *)
NoStaleCall == \A t \in Threads : pc[t] \in {"idle", "finally"} => call[t] = NoCall

-----------------------------------------------------------------------------
(***************************************************************************)
(* Types.                                                                  *)
(***************************************************************************)

LEMMA InitTypeOK == Init => TypeOK
  BY SqueueAssumption DEF Init, TypeOK, NoCall

(* What is left of the types to show once the queue is known to be one.    *)
LEMMA BodiesKeepTypes ==
  ASSUME TypeOK, NEW t \in Threads, Bodies(t), ev_q' \in Seq(Elements)
  PROVE  TypeOK'
<1>1. \E ops : Body(t, ops)
  BY DEF Bodies, Push, PushUncond, PushOrDrop, Pop, TransferQueue, TakeWhatIsThere,
         WaitNotEmpty, Length
<1> QED
  BY <1>1 DEF Body, Goto, TypeOK

(* Every body leaves a queue of elements.                                  *)
LEMMA BodiesKeepQueue ==
  ASSUME TypeOK, NEW t \in Threads, Bodies(t)
  PROVE  ev_q' \in Seq(Elements)
<1>1. ev_q \in Seq(Elements) /\ call[t].batch \in Seq(Elements)
  BY CallsAreCalls DEF TypeOK
<1>2. \/ ev_q' = ev_q \o call[t].batch
      \/ ev_q' = ev_q
      \/ ev_q # <<>> /\ ev_q' = Tail(ev_q)
      \/ ev_q' = <<>>
  BY DEF Bodies, Push, PushUncond, PushOrDrop, Pop, TransferQueue, TakeWhatIsThere,
         WaitNotEmpty, Length
<1>3. /\ ev_q \o call[t].batch \in Seq(Elements)
      /\ ev_q # <<>> => Tail(ev_q) \in Seq(Elements)
      /\ <<>> \in Seq(Elements)
  BY <1>1
<1> QED
  BY <1>1, <1>2, <1>3, Zenon

LEMMA NextTypeOK == TypeOK /\ [Next]_vars => TypeOK'
<1> SUFFICES ASSUME TypeOK, [Next]_vars PROVE TypeOK'
  OBVIOUS
<1> USE SqueueAssumption
<1>1. CASE UNCHANGED vars
  BY <1>1 DEF vars, TypeOK
<1>2. ASSUME NEW t \in Threads, NEW op, NEW batch, Begin(t, op, batch),
             [op |-> op, batch |-> batch] \in Calls
      PROVE  TypeOK'
  BY <1>2 DEF Begin, Goto, TypeOK
<1>3. ASSUME NEW t \in Threads, BeginPut(t) \/ BeginOther(t)
      PROVE  TypeOK'
  BY <1>2, <1>3 DEF BeginPut, BeginOther, Calls
<1>4. ASSUME NEW t \in Threads, Lock(t) \/ Reacquire(t)
      PROVE  TypeOK'
  BY <1>4 DEF Lock, Reacquire, Goto, TypeOK
<1>5. ASSUME NEW t \in Threads, Wait(t) \/ SpuriousWake(t)
      PROVE  TypeOK'
  BY <1>5 DEF Wait, SpuriousWake, Goto, TypeOK
<1>6. ASSUME NEW t \in Threads, Bodies(t)
      PROVE  TypeOK'
  BY <1>6, BodiesKeepTypes, BodiesKeepQueue
<1>7. ASSUME NEW t \in Threads, Finally(t)
      PROVE  TypeOK'
  <2>1. PICK v \in Signalled("element", There("element")), w \in Signalled("room", There("room")) :
           Leave(t, v \cup w)
    BY <1>7 DEF Finally
  <2>2. \A u \in v \cup w : u \in Threads /\ pc[u] = "waiting"
    BY SignalWakesASleeper DEF Sleepers
  <2>3. mutex' = NoThread
    BY <1>7 DEF Finally
  <2> QED
    BY <2>1, <2>2, <2>3 DEF Leave, TypeOK
<1> QED
  BY <1>1, <1>3, <1>4, <1>5, <1>6, <1>7 DEF Next, Step, Bodies

(* Every reachable state of Squeue is well typed, and the mutex is held    *)
(* exactly by the thread that is between lock and the end of finally.      *)
THEOREM TypeCorrect == Spec => []TypeOK
<1>1. Init => TypeOK
  BY InitTypeOK
<1>2. TypeOK /\ [Next]_vars => TypeOK'
  BY NextTypeOK
<1> QED
  BY <1>1, <1>2, PTL DEF Spec

-----------------------------------------------------------------------------
(***************************************************************************)
(* Wake-ups.  NoLostWakeup is inductive given the types: a body that makes *)
(* a condition true leaves its thread in finally; finally hands the duty   *)
(* to a thread it wakes; and a woken thread either finds the condition     *)
(* false or runs its own body.                                             *)
(***************************************************************************)

LEMMA NextNoLostWakeup == TypeOK /\ NoLostWakeup /\ [Next]_vars => NoLostWakeup'
<1> SUFFICES ASSUME TypeOK, NoLostWakeup, [Next]_vars,
                    NEW what \in {"room", "element"},
                    There(what)', Sleepers(what)' # {}
             PROVE  Rescuers(what)' # {}
  BY DEF NoLostWakeup
<1> DEFINE Same == UNCHANGED <<ev_q, maxsize>>
<1>0. Same => There(what)
  BY DEF There
<1>1. CASE UNCHANGED vars
  BY <1>1 DEF vars, NoLostWakeup, There, Sleepers, Rescuers, Needs
<1>2. ASSUME NEW t \in Threads, BeginPut(t) \/ BeginOther(t)
      PROVE  Rescuers(what)' # {}
  <2>1. PICK op, batch : Begin(t, op, batch)
    BY <1>2 DEF BeginPut, BeginOther
  <2>2. Same /\ pc[t] = "idle" /\ pc'[t] = "locking"
    BY <2>1 DEF Begin, Goto, TypeOK
  <2>3. \A u \in Threads \ {t} : pc'[u] = pc[u] /\ Needs(u)' = Needs(u)
    BY <2>1 DEF Begin, Goto, TypeOK, Needs
  <2> QED
    BY <1>0, <2>2, <2>3 DEF NoLostWakeup, Sleepers, Rescuers
<1>3. ASSUME NEW t \in Threads, Lock(t) \/ Reacquire(t) \/ SpuriousWake(t)
      PROVE  Rescuers(what)' # {}
  <2>1. Same /\ \A u \in Threads : Needs(u)' = Needs(u)
    BY <1>3 DEF Lock, Reacquire, SpuriousWake, Needs
  <2>2. /\ \A u \in Threads \ {t} : pc'[u] = pc[u]
        /\ \/ pc[t] = "locking" /\ pc'[t] = "running"
           \/ pc[t] = "woken"   /\ pc'[t] = "running"
           \/ pc[t] = "waiting" /\ pc'[t] = "woken"
    BY <1>3 DEF Lock, Reacquire, SpuriousWake, Goto, TypeOK
  <2> QED
    BY <1>0, <2>1, <2>2 DEF NoLostWakeup, Sleepers, Rescuers
<1>4. ASSUME NEW t \in Threads, Wait(t)
      PROVE  Rescuers(what)' # {}
  <2>1. Same /\ ~ There(Needs(t)) /\ \A u \in Threads : Needs(u)' = Needs(u)
    BY <1>4 DEF Wait, Needs
  <2>2. pc[t] = "running" /\ pc'[t] = "waiting" /\ \A u \in Threads \ {t} : pc'[u] = pc[u]
    BY <1>4 DEF Wait, Goto, TypeOK
  <2>3. Needs(t) # what
    BY <1>0, <2>1
  <2> QED
    BY <1>0, <2>1, <2>2, <2>3 DEF NoLostWakeup, Sleepers, Rescuers
<1>5. ASSUME NEW t \in Threads, Bodies(t)
      PROVE  Rescuers(what)' # {}
  <2>1. pc'[t] = "finally"
    BY <1>5 DEF Bodies, Push, PushUncond, PushOrDrop, Pop, TransferQueue, TakeWhatIsThere,
                WaitNotEmpty, Length, Body, Goto, TypeOK
  <2> QED
    BY <2>1 DEF Rescuers
<1>6. ASSUME NEW t \in Threads, Finally(t)
      PROVE  Rescuers(what)' # {}
  <2>1. PICK v \in Signalled("element", There("element")), w \in Signalled("room", There("room")) :
           Leave(t, v \cup w)
    BY <1>6 DEF Finally
  <2>2. There(what) /\ \A u \in Threads : Needs(u)' = Needs(u)
    BY <1>0, <2>1 DEF Leave, Needs
  <2>3. /\ v \subseteq Sleepers("element")
        /\ w \subseteq Sleepers("room")
        /\ There("element") /\ Sleepers("element") # {} => v # {}
        /\ There("room") /\ Sleepers("room") # {} => w # {}
    BY <2>1, SignalWakesASleeper
  <2>4. Sleepers(what)' \subseteq Sleepers(what)
    BY <2>1, <2>2 DEF Leave, Sleepers
  <2>5. PICK u \in v \cup w : u \in Sleepers(what)
    BY <2>2, <2>3, <2>4
  <2>6. u \in Threads /\ u # t /\ pc'[u] = "woken" /\ Needs(u)' = what
    BY <2>1, <2>2, <2>5 DEF Leave, Sleepers
  <2> QED
    BY <2>6 DEF Rescuers
<1> QED
  BY <1>1, <1>2, <1>3, <1>4, <1>5, <1>6 DEF Next, Step, Bodies

(* No wake-up of Squeue is lost: whenever there is room or an element and  *)
(* a thread sleeps until there is, another thread will use it or signal,   *)
(* for any number of threads, any size and any transfers.                  *)
THEOREM NoLostWakeupHolds == Spec => []NoLostWakeup
<1>1. Init => NoLostWakeup
  BY DEF Init, NoLostWakeup, Sleepers
<1>2. TypeOK /\ NoLostWakeup /\ [Next]_vars => NoLostWakeup'
  BY NextNoLostWakeup
<1> QED
  BY <1>1, <1>2, TypeCorrect, PTL DEF Spec

-----------------------------------------------------------------------------
(***************************************************************************)
(* The refinement.                                                         *)
(***************************************************************************)

LEMMA NextNoStaleCall == TypeOK /\ NoStaleCall /\ [Next]_vars => NoStaleCall'
<1> SUFFICES ASSUME TypeOK, NoStaleCall, [Next]_vars PROVE NoStaleCall'
  OBVIOUS
<1> USE DEF TypeOK, NoStaleCall
<1>1. CASE UNCHANGED vars
  BY <1>1 DEF vars
<1>2. ASSUME NEW t \in Threads, BeginPut(t) \/ BeginOther(t)
      PROVE  NoStaleCall'
  BY <1>2 DEF BeginPut, BeginOther, Begin, Goto
<1>3. ASSUME NEW t \in Threads, Lock(t) \/ Wait(t) \/ Reacquire(t) \/ SpuriousWake(t)
      PROVE  NoStaleCall'
  BY <1>3 DEF Lock, Wait, Reacquire, SpuriousWake, Goto
<1>4. ASSUME NEW t \in Threads, Bodies(t)
      PROVE  NoStaleCall'
  <2>1. PICK ops : Body(t, ops)
    BY <1>4 DEF Bodies, Push, PushUncond, PushOrDrop, Pop, TransferQueue, TakeWhatIsThere,
                WaitNotEmpty, Length
  <2> QED
    BY <2>1 DEF Body, Goto
<1>5. ASSUME NEW t \in Threads, Finally(t)
      PROVE  NoStaleCall'
  BY <1>5 DEF Finally, Leave
<1> QED
  BY <1>1, <1>2, <1>3, <1>4, <1>5 DEF Next, Step, Bodies

LEMMA InitRefines == Init => Abstract!Init
  BY DEF Init, Abstract!Init, Needs, NoCall, NeedRoom, NeedElement

(* Only the beginning of a call and a body change what a thread asks for.  *)
LEMMA AskedChangesOnce ==
  ASSUME TypeOK, NEW t \in Threads, NEW c, call' = [call EXCEPT ![t] = c]
  PROVE  [u \in Threads |-> Needs(u)'] = [[u \in Threads |-> Needs(u)] EXCEPT ![t] = Needs(t)']
<1>1. \A u \in Threads : u # t => call'[u] = call[u]
  BY DEF TypeOK
<1>2. \A u \in Threads : u # t => Needs(u)' = Needs(u)
  BY <1>1 DEF Needs
<1> QED
  BY <1>2

(* The beginning of a call asks for what the call needs, or for nothing.   *)
LEMMA BeginRefines ==
  ASSUME TypeOK, NoStaleCall, NEW t \in Threads, NEW op, NEW batch, Begin(t, op, batch)
  PROVE  Abstract!Next \/ UNCHANGED Abstract!vars
<1>1. UNCHANGED <<ev_q, maxsize>>
  BY DEF Begin
<1>2. [u \in Threads |-> Needs(u)'] = [[u \in Threads |-> Needs(u)] EXCEPT ![t] = Needs(t)']
  BY AskedChangesOnce DEF Begin
<1>3. Needs(t) = "nothing"
  BY DEF NoStaleCall, Begin, Goto, Needs, NoCall, NeedRoom, NeedElement
<1>4. CASE Needs(t)' \in {"room", "element"}
  <2>1. Abstract!Ask(t, Needs(t)')
    BY <1>1, <1>2, <1>3 DEF Abstract!Ask
  <2> QED
    BY <1>4, <2>1 DEF Abstract!Next
<1>5. CASE Needs(t)' = "nothing"
  BY <1>1, <1>2, <1>3, <1>5 DEF Abstract!vars
<1> QED
  BY <1>4, <1>5 DEF Needs

(* A body uses what its thread asked for, if it asked for anything.        *)
LEMMA BodyRefines ==
  ASSUME TypeOK, NEW t \in Threads, Bodies(t)
  PROVE  Abstract!Next \/ UNCHANGED Abstract!vars
<1>1. PICK ops : Body(t, ops)
  BY DEF Bodies, Push, PushUncond, PushOrDrop, Pop, TransferQueue, TakeWhatIsThere,
         WaitNotEmpty, Length
<1>2. UNCHANGED maxsize /\ Needs(t)' = "nothing"
  BY <1>1 DEF Body, TypeOK, Needs, NoCall, NeedRoom, NeedElement
<1>3. [u \in Threads |-> Needs(u)'] = [[u \in Threads |-> Needs(u)] EXCEPT ![t] = "nothing"]
  BY <1>1, <1>2, AskedChangesOnce DEF Body
<1>4. call[t].op \in Puts => call[t].batch \in Batches
  BY BatchesArePutIn DEF TypeOK, NoCall, Puts
<1>5. Needs(t) = "nothing" =>
         [u \in Threads |-> Needs(u)'] = [u \in Threads |-> Needs(u)]
  BY <1>3
<1>6. CASE Push(t)
  <2>1. call[t].op \in {"push", "transfer_queue_in"}
    BY <1>6 DEF Push, Body
  <2>2. Needs(t) = "room"
    BY <2>1 DEF Needs, NeedRoom, NeedElement
  <2>3. call[t].batch \in Batches
    BY <1>4, <2>1 DEF Puts
  <2>4. Abstract!Put(t, call[t].batch)
    BY <1>2, <1>3, <1>6, <2>2 DEF Push, Abstract!Put, Abstract!Served, Abstract!There
  <2> QED
    BY <2>3, <2>4 DEF Abstract!Next
<1>7. CASE PushUncond(t) \/ PushOrDrop(t)
  <2>1. Needs(t) = "nothing" /\ call[t].batch \in Batches
    BY <1>4, <1>7 DEF PushUncond, PushOrDrop, Body, Needs, NeedRoom, NeedElement, Puts
  <2>2. ev_q' = ev_q \o call[t].batch \/ ev_q' = ev_q
    BY <1>7 DEF PushUncond, PushOrDrop
  <2>3. CASE ev_q' = ev_q \o call[t].batch
    <3>1. Abstract!PutAnyway(call[t].batch)
      BY <1>2, <1>5, <2>1, <2>3 DEF Abstract!PutAnyway
    <3> QED
      BY <2>1, <3>1 DEF Abstract!Next
  <2>4. CASE ev_q' = ev_q
    BY <1>2, <1>5, <2>1, <2>4 DEF Abstract!vars
  <2> QED
    BY <2>2, <2>3, <2>4
<1>8. CASE Pop(t) \/ TransferQueue(t) \/ WaitNotEmpty(t)
  <2>1. Needs(t) = "element" /\ ev_q # <<>>
    BY <1>8 DEF Pop, TransferQueue, WaitNotEmpty, Body, Needs, NeedRoom, NeedElement
  <2>2. Abstract!Served(t, "element")
    BY <1>2, <1>3, <2>1 DEF Abstract!Served, Abstract!There
  <2>3. ev_q' \in {Tail(ev_q), <<>>, ev_q}
    BY <1>8 DEF Pop, TransferQueue, WaitNotEmpty
  <2>4. Abstract!Take(t) \/ Abstract!TakeAll(t) \/ Abstract!See(t)
    BY <2>2, <2>3 DEF Abstract!Take, Abstract!TakeAll, Abstract!See
  <2> QED
    BY <2>4 DEF Abstract!Next
<1>9. CASE TakeWhatIsThere(t)
  <2>1. Needs(t) = "nothing"
    BY <1>9 DEF TakeWhatIsThere, Body, Needs, NeedRoom, NeedElement
  <2>2. Abstract!Clear
    BY <1>2, <1>5, <1>9, <2>1 DEF TakeWhatIsThere, Abstract!Clear
  <2> QED
    BY <2>2 DEF Abstract!Next
<1>10. CASE Length(t)
  <2>1. Needs(t) = "nothing" /\ ev_q' = ev_q
    BY <1>10 DEF Length, Body, Needs, NeedRoom, NeedElement
  <2> QED
    BY <1>2, <1>5, <2>1 DEF Abstract!vars
<1> QED
  BY <1>6, <1>7, <1>8, <1>9, <1>10 DEF Bodies

LEMMA StepRefines == TypeOK /\ NoStaleCall /\ [Next]_vars => [Abstract!Next]_(Abstract!vars)
<1> SUFFICES ASSUME TypeOK, NoStaleCall, [Next]_vars
             PROVE  Abstract!Next \/ UNCHANGED Abstract!vars
  OBVIOUS
<1> DEFINE Goal == Abstract!Next \/ UNCHANGED Abstract!vars
<1>1. ASSUME UNCHANGED <<ev_q, maxsize, call>>
      PROVE  Goal
  BY <1>1 DEF Abstract!vars, Needs
<1>2. ASSUME NEW t \in Threads, BeginPut(t) \/ BeginOther(t)
      PROVE  Goal
  BY <1>2, BeginRefines DEF BeginPut, BeginOther
<1>3. ASSUME NEW t \in Threads, Bodies(t)
      PROVE  Goal
  BY <1>3, BodyRefines
<1>4. ASSUME NEW t \in Threads, Lock(t) \/ Wait(t) \/ Reacquire(t) \/ SpuriousWake(t) \/ Finally(t)
      PROVE  Goal
  BY <1>1, <1>4 DEF Lock, Wait, Reacquire, SpuriousWake, Finally, Leave
<1> QED
  BY <1>1, <1>2, <1>3, <1>4 DEF Next, Step, Bodies, vars

(* Squeue implements the safety part of BoundedQueueSpec: one queue, in    *)
(* order; push finds room and pop an element when their turn comes,        *)
(* whatever other threads did while they waited.                           *)
THEOREM SqueueImplementsBoundedQueueSpec == Spec => Abstract!SafeSpec
<1>1. Init => NoStaleCall
  BY DEF Init, NoStaleCall
<1>2. TypeOK /\ NoStaleCall /\ [Next]_vars => NoStaleCall'
  BY NextNoStaleCall
<1>3. Init => Abstract!Init
  BY InitRefines
<1>4. TypeOK /\ NoStaleCall /\ [Next]_vars => [Abstract!Next]_(Abstract!vars)
  BY StepRefines
<1> QED
  BY <1>1, <1>2, <1>3, <1>4, TypeCorrect, PTL DEF Spec, Abstract!SafeSpec
==============================================================================
