------------------------------ MODULE BusProofs ------------------------------
(***************************************************************************)
(* Proofs about Bus, for any finite set of subscribers and any bounds on   *)
(* writes and on the depth of re-entrant calls.  BusInv, the inductive     *)
(* invariant, describes the stack, at most one loop of the bus below any   *)
(* number of calls of clients, and what the fields of the bus are while    *)
(* each loop runs.  MannersInv adds what holds as long as clients do not   *)
(* raise or repeat an unsubscribe where the code relies on it, ValuesInv   *)
(* which values each subscriber has seen.  A lemma per action shows that   *)
(* it keeps them; the last section maps each action to one of BusSpec.     *)
(***************************************************************************)
EXTENDS Bus, FiniteSetTheorems, TLAPS

-----------------------------------------------------------------------------
(***************************************************************************)
(* The inductive invariant.                                                *)
(***************************************************************************)
(* The frames of the stack.  TypeOK leaves them out.                       *)
ClientFrame   == [op : {"client"}, why : {"callback", "last_value", "on_close"}, who : Subscribers]
WriteFrame    == [op : {"write"}, callbacks : Seq(Subscribers), i : Nat]
RemovingFrame == [op : {"removing"}, rest : Seq(Subscribers)]
ClosingFrame  == [op : {"closing"}, i : Nat, last : Nat]

Frame == ClientFrame \cup WriteFrame \cup RemovingFrame \cup ClosingFrame

StackOK == stack \in Seq(Frame)

(* No callback starts a loop of the bus while another one runs.            *)
OneLoop == \A j, k \in 1..Len(stack) :
              stack[j].op # "client" /\ stack[k].op # "client" => j = k

(* Each call of client code lies on the loop that makes it, but the call   *)
(* of Last_value.send, which only client code causes.                      *)
Calls(k, why) == stack[k].op = "client" /\ stack[k].why = why

CallersOK ==
  \A k \in 1..Len(stack) :
     /\ Calls(k, "callback") => k < Len(stack) /\ stack[k + 1].op = "write"
     /\ Calls(k, "last_value") => /\ stack[k].who \in known
                                  /\ k = Len(stack) \/ stack[k + 1].op = "client"
     /\ Calls(k, "on_close") => k < Len(stack) /\ stack[k + 1].op = "closing"

Shape == StackOK /\ OneLoop /\ CallersOK

Loops == {f \in Elements(stack) : f.op # "client"}

LoopRuns(op) == \E k \in 1..Len(stack) : stack[k].op = op

(* What each state of the bus says about the loops and the unsubscribes    *)
(* that were put off; on_close waits for close.                            *)
WriteOrRemoving == LoopRuns("write") \/ LoopRuns("removing")

StateOK ==
  /\ state = "Ok_to_write" => unsubscribes_during_write = <<>> /\ ~ WriteOrRemoving
  /\ LoopRuns("closing") => state = "Closed" /\ unsubscribes_during_write = <<>>
  /\ state # "Closed" \/ WriteOrRemoving => \A s \in Subscribers : told[s] = 0

(* The array and the indices in it agree.                                  *)
ArrayOK ==
  /\ \A i \in 1..Len(subscribers) :
        /\ subscribers[i] # NoSubscriber => subscribers_index[subscribers[i]] = i - 1
        /\ i > num_subscribers => subscribers[i] = NoSubscriber
  /\ \A s \in Subscribers : subscribers_index[s] >= 0 =>
        /\ s \in known
        /\ subscribers_index[s] < num_subscribers
        /\ subscribers[subscribers_index[s] + 1] = s

(* The array has no holes but those on_close makes.                        *)
FullOK ==
  \/ state # "Closed" \/ WriteOrRemoving
  \/ ~ LoopRuns("closing") /\ "on_close" \notin manners.raises
  => \A i \in 1..num_subscribers : subscribers[i] # NoSubscriber

(* The array is what the running loop found, up to what it did itself.     *)
WriteOK(f, n, slots) == /\ f.i <= Len(f.callbacks)
                        /\ Len(f.callbacks) <= n
                        /\ \A j \in 1..Len(f.callbacks) : f.callbacks[j] = slots[j]

RemovingOK(f, list, index) ==
  /\ Elements(f.rest) \subseteq Elements(list)
  /\ \A s \in Subscribers : s \in Elements(list) /\ index[s] >= 0 => s \in Elements(f.rest)

ClosingOK(f, n, slots, calls) == /\ f.last = n /\ f.i <= n
                                 /\ \A j \in 1..n : slots[j] = NoSubscriber <=> j <= f.i
                                 /\ \A j \in f.i + 2..n : calls[slots[j]] = 0

LoopOK ==
  \A k \in 1..Len(stack) :
    /\ stack[k].op = "write" => WriteOK(stack[k], num_subscribers, subscribers)
    /\ stack[k].op = "removing" => k = 1 /\ RemovingOK(stack[k], unsubscribes_during_write, subscribers_index)
    /\ stack[k].op = "closing" =>
          /\ k <= 2 /\ ClosingOK(stack[k], num_subscribers, subscribers, told)
          /\ k = 1 /\ stack[k].i < num_subscribers => told[subscribers[stack[k].i + 1]] = 0
          /\ k = 2 => /\ stack[k].i < num_subscribers
                      /\ stack[1].who = subscribers[stack[k].i + 1]
                      /\ told[stack[1].who] # 0

(* Nothing happens to who was never subscribed.                            *)
KnownOK == /\ \A j \in 1..Len(unsubscribes_during_write) : unsubscribes_during_write[j] \in known
           /\ \A s \in Subscribers : s \notin known => told[s] = 0 /\ got[s] = 0

-----------------------------------------------------------------------------
(***************************************************************************)
(* Stacks and arrays.                                                      *)
(***************************************************************************)
LEMMA PushFacts ==
  ASSUME NEW S, NEW st \in Seq(S), NEW f \in S
  PROVE  /\ <<f>> \o st \in Seq(S)
         /\ Len(<<f>> \o st) = Len(st) + 1
         /\ (<<f>> \o st)[1] = f
         /\ \A k \in 2..Len(st) + 1 : (<<f>> \o st)[k] = st[k - 1]
  OBVIOUS

LEMMA PopFacts ==
  ASSUME NEW S, NEW st \in Seq(S), Len(st) > 0
  PROVE  /\ Tail(st) \in Seq(S)
         /\ Head(st) = st[1]
         /\ Len(Tail(st)) = Len(st) - 1
         /\ \A k \in 1..Len(st) - 1 : Tail(st)[k] = st[k + 1]
  OBVIOUS

LEMMA FrameFacts ==
  ASSUME NEW f \in Frame
  PROVE  /\ f.op \in {"client", "write", "removing", "closing"}
         /\ f.op = "client" => f \in ClientFrame
         /\ f.op = "write" => f \in WriteFrame
         /\ f.op = "removing" => f \in RemovingFrame
         /\ f.op = "closing" => f \in ClosingFrame
  BY DEF Frame, ClientFrame, WriteFrame, RemovingFrame, ClosingFrame

LEMMA EnlargeFacts ==
  ASSUME TypeOK, NEW e, e = enlarge_capacity(subscribers)
  PROVE  /\ e \in Seq(Subscribers \cup {NoSubscriber})
         /\ Len(e) > num_subscribers /\ Len(e) >= Len(subscribers)
         /\ \A i \in 1..Len(e) : e[i] = IF i <= Len(subscribers) THEN subscribers[i] ELSE NoSubscriber
<1> DEFINE n == IF Len(subscribers) = 0 THEN 1 ELSE 2 * Len(subscribers)
<1>1. subscribers \in Seq(Subscribers \cup {NoSubscriber}) /\ num_subscribers \in 0..Len(subscribers)
  BY DEF TypeOK, capacity
<1>2. CASE num_subscribers < Len(subscribers)
  BY <1>1, <1>2 DEF enlarge_capacity
<1>3. CASE ~ num_subscribers < Len(subscribers)
  <2>1. e = [i \in 1..n |-> IF i <= Len(subscribers) THEN subscribers[i] ELSE NoSubscriber]
    BY <1>3 DEF enlarge_capacity
  <2>2. n \in Nat /\ n > num_subscribers /\ n >= Len(subscribers)
    BY <1>1, <1>3
  <2> QED
    BY <1>1, <2>1, <2>2
<1> QED
  BY <1>2, <1>3

LEMMA ShrinkFacts ==
  ASSUME NEW S, NEW slots \in Seq(S), NEW n \in Nat, n <= Len(slots), NEW r, r = maybe_shrink_capacity(n, slots)
  PROVE  /\ r \in Seq(S)
         /\ Len(r) >= n /\ Len(r) <= Len(slots)
         /\ \A i \in 1..Len(r) : r[i] = slots[i]
         /\ n = 0 => r = <<>>
  BY DEF maybe_shrink_capacity

BusInv == TypeOK /\ Shape /\ StateOK /\ ArrayOK /\ FullOK /\ LoopOK /\ KnownOK

(* What a step does to the stack: it drops n frames, or puts f in their    *)
(* place.                                                                  *)
Popped(n) == /\ n <= Len(stack)
             /\ stack' \in Seq(Frame)
             /\ Len(stack') = Len(stack) - n
             /\ \A k \in 1..Len(stack) - n : stack'[k] = stack[k + n]

Replaced(n, f) == /\ n <= Len(stack)
                  /\ stack' \in Seq(Frame)
                  /\ Len(stack') = Len(stack) - n + 1
                  /\ stack'[1] = f
                  /\ \A k \in 2..Len(stack) - n + 1 : stack'[k] = stack[k + n - 1]

LEMMA TopFacts ==
  ASSUME StackOK, stack # <<>>
  PROVE  /\ Len(stack) \in Nat \ {0} /\ Top = stack[1] /\ Top \in Frame
         /\ Tail(stack) \in Seq(Frame) /\ Len(Tail(stack)) = Len(stack) - 1
         /\ \A k \in 1..Len(stack) - 1 : Tail(stack)[k] = stack[k + 1]
<1>1. stack \in Seq(Frame) /\ Len(stack) > 0
  BY DEF StackOK
<1> QED
  BY <1>1, PopFacts DEF Top

LEMMA ReplaceFacts ==
  ASSUME StackOK, NEW f \in Frame
  PROVE  /\ stack' = <<f>> \o stack => Replaced(0, f)
         /\ stack # <<>> /\ stack' = Tail(stack) => Popped(1)
         /\ stack # <<>> /\ stack' = <<f>> \o Tail(stack) => Replaced(1, f)
         /\ Len(stack) > 1 /\ stack' = Tail(Tail(stack)) => Popped(2)
         /\ Len(stack) > 1 /\ stack' = <<f>> \o Tail(Tail(stack)) => Replaced(2, f)
<1> USE DEF Replaced, Popped, StackOK
<1>1. stack' = <<f>> \o stack => Replaced(0, f)
  BY PushFacts
<1>2. stack # <<>> /\ stack' = Tail(stack) => Popped(1)
  BY PopFacts
<1>3. stack # <<>> /\ stack' = <<f>> \o Tail(stack) => Replaced(1, f)
  BY PopFacts, PushFacts
<1>5. ASSUME Len(stack) > 1
      PROVE  /\ Tail(Tail(stack)) \in Seq(Frame)
             /\ Len(Tail(Tail(stack))) = Len(stack) - 2
             /\ \A k \in 1..Len(stack) - 2 : Tail(Tail(stack))[k] = stack[k + 2]
  <2>1. /\ Tail(stack) \in Seq(Frame) /\ Len(Tail(stack)) = Len(stack) - 1
        /\ \A k \in 1..Len(stack) - 1 : Tail(stack)[k] = stack[k + 1]
    BY <1>5, PopFacts
  <2>2. /\ Tail(Tail(stack)) \in Seq(Frame) /\ Len(Tail(Tail(stack))) = Len(Tail(stack)) - 1
        /\ \A k \in 1..Len(Tail(stack)) - 1 : Tail(Tail(stack))[k] = Tail(stack)[k + 1]
    <3>1. Len(Tail(stack)) > 0
      BY <1>5, <2>1
    <3> HIDE DEF StackOK
    <3> QED
      BY <2>1, <3>1, PopFacts
  <2>3. ASSUME NEW k \in 1..Len(stack) - 2
        PROVE  Tail(Tail(stack))[k] = stack[k + 2]
    <3>1. k \in 1..Len(Tail(stack)) - 1 /\ k + 1 \in 1..Len(stack) - 1 /\ (k + 1) + 1 = k + 2
      BY <1>5, <2>1
    <3> QED
      BY <2>1, <2>2, <3>1
  <2> QED
    BY <2>1, <2>2, <2>3
<1>6. Len(stack) > 1 /\ stack' = Tail(Tail(stack)) => Popped(2)
  BY <1>5
<1>7. Len(stack) > 1 /\ stack' = <<f>> \o Tail(Tail(stack)) => Replaced(2, f)
  BY <1>5, PushFacts
<1> QED
  BY <1>1, <1>2, <1>3, <1>6, <1>7

LEMMA PopShape ==
  ASSUME Shape, NEW n \in Nat, Popped(n), known \subseteq known'
  PROVE  Shape'
<1>1. /\ Len(stack) \in Nat /\ Len(stack') = Len(stack) - n
      /\ stack' \in Seq(Frame) /\ Len(stack') \in Nat
      /\ \A k \in 1..Len(stack') : k + n \in 1..Len(stack) /\ stack'[k] = stack[k + n]
      /\ \A k \in 1..Len(stack') : k < Len(stack') => stack'[k + 1] = stack[(k + n) + 1]
  BY DEF Shape, StackOK, Popped
<1>2. ASSUME NEW j \in 1..Len(stack'), NEW k \in 1..Len(stack'),
             stack'[j].op # "client", stack'[k].op # "client"
      PROVE  j = k
  <2>1. j + n = k + n
    <3>1. OneLoop
      BY DEF Shape
    <3>2. j + n \in 1..Len(stack) /\ k + n \in 1..Len(stack)
          /\ stack[j + n].op # "client" /\ stack[k + n].op # "client"
      BY <1>1, <1>2, Zenon
    <3> QED
      BY <3>1, <3>2, Zenon DEF OneLoop
  <2> QED
    BY <2>1
<1>3. ASSUME NEW k \in 1..Len(stack')
      PROVE  /\ stack'[k].op = "client" /\ stack'[k].why = "callback" =>
                   k < Len(stack') /\ stack'[k + 1].op = "write"
             /\ stack'[k].op = "client" /\ stack'[k].why = "last_value" =>
                   stack'[k].who \in known' /\ (k = Len(stack') \/ stack'[k + 1].op = "client")
             /\ stack'[k].op = "client" /\ stack'[k].why = "on_close" =>
                   k < Len(stack') /\ stack'[k + 1].op = "closing"
  <2>1. /\ k + n \in 1..Len(stack) /\ stack'[k] = stack[k + n]
        /\ k + n < Len(stack) <=> k < Len(stack')
        /\ k + n = Len(stack) <=> k = Len(stack')
        /\ k < Len(stack') => stack'[k + 1] = stack[(k + n) + 1]
    BY <1>1, SMTT(60)
  <2>2. /\ Calls(k + n, "callback") => k + n < Len(stack) /\ stack[(k + n) + 1].op = "write"
        /\ Calls(k + n, "last_value") => stack[k + n].who \in known /\ (k + n = Len(stack) \/ stack[(k + n) + 1].op = "client")
        /\ Calls(k + n, "on_close") => k + n < Len(stack) /\ stack[(k + n) + 1].op = "closing"
    BY <2>1 DEF Shape, CallersOK
  <2> QED
    BY <2>1, <2>2 DEF Calls
<1> QED
  BY <1>1, <1>2, <1>3 DEF Shape, StackOK, OneLoop, CallersOK, Calls

LEMMA ReplaceShape ==
  ASSUME Shape, NEW n \in Nat, NEW f \in Frame, Replaced(n, f), known \subseteq known',
         f.op # "client" => \A k \in n + 1..Len(stack) : stack[k].op = "client",
         f.op = "client" =>
            /\ f.why = "callback" => n < Len(stack) /\ stack[n + 1].op = "write"
            /\ f.why = "last_value" => f.who \in known' /\ (n = Len(stack) \/ stack[n + 1].op = "client")
            /\ f.why = "on_close" => n < Len(stack) /\ stack[n + 1].op = "closing"
  PROVE  Shape'
<1>1. /\ Len(stack) \in Nat /\ Len(stack') = (Len(stack) - n) + 1
      /\ stack' \in Seq(Frame) /\ Len(stack') \in Nat
      /\ stack'[1] = f /\ n <= Len(stack)
      /\ \A k \in 2..Len(stack') : (k - 1) + n \in n + 1..Len(stack) /\ stack'[k] = stack[(k - 1) + n]
  BY DEF Shape, StackOK, Replaced
<1>2. ASSUME NEW j \in 1..Len(stack'), NEW k \in 1..Len(stack'),
             stack'[j].op # "client", stack'[k].op # "client"
      PROVE  j = k
  <2>1. ASSUME NEW m \in 2..Len(stack'), f.op # "client", stack'[m].op # "client"
        PROVE  FALSE
    BY <1>1, <2>1
  <2>2. CASE j = 1 \/ k = 1
    BY <1>1, <1>2, <2>1, <2>2
  <2>3. CASE j # 1 /\ k # 1
    <3>1. /\ (j - 1) + n \in 1..Len(stack) /\ stack'[j] = stack[(j - 1) + n]
          /\ (k - 1) + n \in 1..Len(stack) /\ stack'[k] = stack[(k - 1) + n]
      BY <1>1, <2>3
    <3>2. (j - 1) + n = (k - 1) + n
      BY <1>2, <3>1 DEF Shape, OneLoop
    <3> QED
      BY <3>2
  <2> QED
    BY <2>2, <2>3
<1>3. ASSUME NEW k \in 1..Len(stack')
      PROVE  /\ stack'[k].op = "client" /\ stack'[k].why = "callback" =>
                   k < Len(stack') /\ stack'[k + 1].op = "write"
             /\ stack'[k].op = "client" /\ stack'[k].why = "last_value" =>
                   stack'[k].who \in known' /\ (k = Len(stack') \/ stack'[k + 1].op = "client")
             /\ stack'[k].op = "client" /\ stack'[k].why = "on_close" =>
                   k < Len(stack') /\ stack'[k + 1].op = "closing"
  <2>1. CASE k = 1
    <3>1. 1 < Len(stack') => stack'[2] = stack[n + 1] /\ n < Len(stack)
      BY <1>1
    <3>2. (n < Len(stack) <=> 1 < Len(stack')) /\ (n = Len(stack) <=> 1 = Len(stack'))
      BY <1>1
    <3> QED
      BY <1>1, <2>1, <3>1, <3>2
  <2>2. CASE k # 1
    <3> DEFINE m == (k - 1) + n
    <3>1. /\ m \in 1..Len(stack) /\ stack'[k] = stack[m]
          /\ m < Len(stack) <=> k < Len(stack')
          /\ m = Len(stack) <=> k = Len(stack')
      BY <1>1, <2>2, SMTT(60)
    <3>2. k < Len(stack') => stack'[k + 1] = stack[m + 1]
      <4>1. k < Len(stack') => k + 1 \in 2..Len(stack') /\ ((k + 1) - 1) + n = m + 1
        BY <1>1, <2>2
      <4> QED
        BY <1>1, <4>1
    <3> HIDE DEF m
    <3>3. /\ Calls(m, "callback") => m < Len(stack) /\ stack[m + 1].op = "write"
          /\ Calls(m, "last_value") => stack[m].who \in known /\ (m = Len(stack) \/ stack[m + 1].op = "client")
          /\ Calls(m, "on_close") => m < Len(stack) /\ stack[m + 1].op = "closing"
      BY <3>1 DEF Shape, CallersOK
    <3> QED
      BY <1>1, <3>1, <3>2, <3>3 DEF Calls
  <2> QED
    BY <2>1, <2>2
<1> QED
  BY <1>1, <1>2, <1>3 DEF Shape, StackOK, OneLoop, CallersOK, Calls

LEMMA LoopsRun ==
  ASSUME NEW op, op # "client"
  PROVE  LoopRuns(op) <=> \E f \in Loops : f.op = op
  BY DEF LoopRuns, Loops, Elements

LEMMA LoopsRunNext ==
  ASSUME NEW op, op # "client"
  PROVE  LoopRuns(op)' <=> \E f \in Loops' : f.op = op
  BY DEF LoopRuns, Loops, Elements

LEMMA PoppedElements ==
  ASSUME Shape, NEW n \in Nat, Popped(n)
  PROVE  Elements(stack)' = {stack[k] : k \in n + 1..Len(stack)}
<1>1. /\ Len(stack) \in Nat /\ Len(stack') = Len(stack) - n
      /\ \A k \in 1..Len(stack') : k + n \in n + 1..Len(stack) /\ stack'[k] = stack[k + n]
  BY DEF Shape, StackOK, Popped
<1>2. ASSUME NEW k \in n + 1..Len(stack)
      PROVE  k - n \in 1..Len(stack') /\ stack'[k - n] = stack[k]
  <2>1. k - n \in 1..Len(stack') /\ (k - n) + n = k
    BY <1>1
  <2> QED
    BY <1>1, <2>1
<1>3. \A k \in 1..Len(stack') : stack'[k] \in {stack[j] : j \in n + 1..Len(stack)}
  BY <1>1
<1>4. \A k \in n + 1..Len(stack) : stack[k] \in {stack'[j] : j \in 1..Len(stack')}
  BY <1>2
<1> QED
  BY <1>3, <1>4 DEF Elements

LEMMA ReplacedElements ==
  ASSUME Shape, NEW n \in Nat, NEW f, Replaced(n, f)
  PROVE  Elements(stack)' = {f} \cup {stack[k] : k \in n + 1..Len(stack)}
<1>1. /\ Len(stack) \in Nat /\ Len(stack') = (Len(stack) - n) + 1 /\ n <= Len(stack)
      /\ stack'[1] = f
      /\ \A k \in 2..Len(stack') : (k - 1) + n \in n + 1..Len(stack) /\ stack'[k] = stack[(k - 1) + n]
  BY DEF Shape, StackOK, Replaced
<1>2. ASSUME NEW k \in n + 1..Len(stack)
      PROVE  (k - n) + 1 \in 2..Len(stack') /\ stack'[(k - n) + 1] = stack[k]
  <2>1. (k - n) + 1 \in 2..Len(stack') /\ (((k - n) + 1) - 1) + n = k
    BY <1>1
  <2> QED
    BY <1>1, <2>1
<1>3. 1 \in 1..Len(stack') /\ \A k \in 1..Len(stack') : k = 1 \/ k \in 2..Len(stack')
  BY <1>1
<1>4. 2..Len(stack') \subseteq 1..Len(stack')
  BY <1>1
<1>5. \A k \in 1..Len(stack') : stack'[k] \in {f} \cup {stack[j] : j \in n + 1..Len(stack)}
  BY <1>1, <1>3
<1>6. \A k \in n + 1..Len(stack) : stack[k] \in {stack'[j] : j \in 1..Len(stack')}
  BY <1>2, <1>4
<1>7. f \in {stack'[j] : j \in 1..Len(stack')}
  BY <1>1, <1>3
<1> QED
  BY <1>5, <1>6, <1>7 DEF Elements

LEMMA OneKindOfLoopNext ==
  ASSUME Shape', LoopRuns("closing")'
  PROVE  ~ LoopRuns("write")' /\ ~ LoopRuns("removing")'
  BY DEF Shape, OneLoop, LoopRuns

LEMMA PoppedLoops ==
  ASSUME Shape, NEW n \in Nat, Popped(n), NEW op
  PROVE  LoopRuns(op)' <=> \E k \in n + 1..Len(stack) : stack[k].op = op
<1>1. /\ Len(stack) \in Nat /\ Len(stack') = Len(stack) - n
      /\ \A k \in 1..Len(stack') : k + n \in n + 1..Len(stack) /\ stack'[k] = stack[k + n]
  BY DEF Shape, StackOK, Popped
<1>2. ASSUME NEW k \in n + 1..Len(stack)
      PROVE  k - n \in 1..Len(stack') /\ stack'[k - n] = stack[k]
  <2>1. k - n \in 1..Len(stack') /\ (k - n) + n = k
    BY <1>1
  <2> QED
    BY <1>1, <2>1
<1> QED
  BY <1>1, <1>2 DEF LoopRuns

LEMMA ReplacedLoops ==
  ASSUME Shape, NEW n \in Nat, NEW f, Replaced(n, f), NEW op
  PROVE  LoopRuns(op)' <=> f.op = op \/ \E k \in n + 1..Len(stack) : stack[k].op = op
<1>1. /\ Len(stack) \in Nat /\ Len(stack') = (Len(stack) - n) + 1 /\ n <= Len(stack)
      /\ stack'[1] = f
      /\ \A k \in 2..Len(stack') : (k - 1) + n \in n + 1..Len(stack) /\ stack'[k] = stack[(k - 1) + n]
  BY DEF Shape, StackOK, Replaced
<1>2. ASSUME NEW k \in n + 1..Len(stack)
      PROVE  (k - n) + 1 \in 2..Len(stack') /\ stack'[(k - n) + 1] = stack[k]
  <2>1. (k - n) + 1 \in 2..Len(stack') /\ (((k - n) + 1) - 1) + n = k
    BY <1>1
  <2> QED
    BY <1>1, <2>1
<1>3. 1 \in 1..Len(stack')
  BY <1>1
<1>4. \A k \in 1..Len(stack') : k = 1 \/ k \in 2..Len(stack')
  BY <1>1
<1>5. 2..Len(stack') \subseteq 1..Len(stack')
  BY <1>1
<1> QED
  BY <1>1, <1>2, <1>3, <1>4, <1>5, ZenonT(60) DEF LoopRuns

-----------------------------------------------------------------------------
(***************************************************************************)
(* Adding a subscriber to the array and removing one from it.              *)
(***************************************************************************)
LEMMA AddEffect ==
  ASSUME TypeOK, ArrayOK, NEW s \in Subscribers, AddSubscriber(s)
  PROVE  /\ num_subscribers' = num_subscribers + 1
         /\ subscribers' \in Seq(Subscribers \cup {NoSubscriber})
         /\ Len(subscribers') >= num_subscribers + 1
         /\ Len(subscribers') >= Len(subscribers)
         /\ subscribers'[num_subscribers + 1] = s
         /\ \A i \in 1..Len(subscribers') : i # num_subscribers + 1 =>
               subscribers'[i] = IF i <= Len(subscribers) THEN subscribers[i] ELSE NoSubscriber
         /\ subscribers_index' = [subscribers_index EXCEPT ![s] = num_subscribers]
         /\ subscribers_index[s] = -1
<1> DEFINE e == enlarge_capacity(subscribers)
<1>1. /\ e \in Seq(Subscribers \cup {NoSubscriber})
      /\ Len(e) > num_subscribers /\ Len(e) >= Len(subscribers)
      /\ \A i \in 1..Len(e) : e[i] = IF i <= Len(subscribers) THEN subscribers[i] ELSE NoSubscriber
  BY EnlargeFacts
<1>2. /\ num_subscribers' = num_subscribers + 1
      /\ subscribers' = [e EXCEPT ![num_subscribers + 1] = s]
      /\ subscribers_index' = [subscribers_index EXCEPT ![s] = num_subscribers]
      /\ s \notin known
  BY DEF AddSubscriber, SetArray, Array
<1>3. num_subscribers \in Nat /\ subscribers_index[s] \in Int /\ subscribers_index[s] >= -1
  BY DEF TypeOK, capacity
<1>4. subscribers_index[s] = -1
  BY <1>2, <1>3 DEF ArrayOK
<1> HIDE DEF e
<1>5. num_subscribers + 1 \in 1..Len(e)
  BY <1>1, <1>3
<1> QED
  BY <1>1, <1>2, <1>3, <1>4, <1>5

Full == \A i \in 1..num_subscribers : subscribers[i] # NoSubscriber

LEMMA RemovedEffect ==
  ASSUME TypeOK, ArrayOK, Full, NEW s \in Subscribers, is_subscribed(s), SetArray(Removed(s))
  PROVE  LET h == subscribers_index[s]
             n == num_subscribers
         IN /\ h \in 0..n - 1 /\ n \in Nat /\ n <= Len(subscribers)
            /\ subscribers[h + 1] = s
            /\ subscribers[n] \in Subscribers
            /\ subscribers_index[subscribers[n]] = n - 1
            /\ num_subscribers' = n - 1
            /\ subscribers' \in Seq(Subscribers \cup {NoSubscriber})
            /\ Len(subscribers') >= n - 1 /\ Len(subscribers') <= Len(subscribers)
            /\ \A i \in 1..Len(subscribers') :
                  subscribers'[i] = IF i = n THEN NoSubscriber
                                    ELSE IF i = h + 1 THEN subscribers[n] ELSE subscribers[i]
            /\ subscribers_index' =
                  [subscribers_index EXCEPT ![subscribers[n]] = h, ![s] = -1]
<1> DEFINE h == subscribers_index[s]
           n == num_subscribers
           slots == [subscribers EXCEPT ![h + 1] = subscribers[(n - 1) + 1], ![(n - 1) + 1] = NoSubscriber]
           r == maybe_shrink_capacity(n - 1, slots)
<1>1. /\ subscribers \in Seq(Subscribers \cup {NoSubscriber})
      /\ n \in Nat /\ n <= Len(subscribers) /\ Len(subscribers) \in Nat
  BY DEF TypeOK, capacity
<1>2. h \in 0..n - 1 /\ subscribers[h + 1] = s
  BY <1>1 DEF TypeOK, ArrayOK, is_subscribed
<1>3. subscribers[n] \in Subscribers /\ (n - 1) + 1 = n /\ n \in 1..Len(subscribers) /\ h + 1 \in 1..Len(subscribers)
  BY <1>1, <1>2 DEF Full
<1>4. subscribers_index[subscribers[n]] = n - 1
  BY <1>3, BusAssumption DEF ArrayOK
<1>5. /\ slots \in Seq(Subscribers \cup {NoSubscriber}) /\ Len(slots) = Len(subscribers)
      /\ \A i \in 1..Len(subscribers) :
            slots[i] = IF i = n THEN NoSubscriber
                       ELSE IF i = h + 1 THEN subscribers[n] ELSE subscribers[i]
  BY <1>1, <1>2, <1>3
<1>6. /\ num_subscribers' = n - 1
      /\ subscribers' = r
      /\ subscribers_index' = [subscribers_index EXCEPT ![subscribers[n]] = h, ![s] = -1]
  BY <1>3 DEF SetArray, Removed, Array
<1> HIDE DEF slots
<1>7. n - 1 \in Nat /\ n - 1 <= Len(slots)
  BY <1>1, <1>2, <1>5
<1>8. /\ r \in Seq(Subscribers \cup {NoSubscriber})
      /\ Len(r) >= n - 1 /\ Len(r) <= Len(slots)
      /\ \A i \in 1..Len(r) : r[i] = slots[i]
  BY <1>5, <1>7, ShrinkFacts
<1>9. \A i \in 1..Len(r) : r[i] = IF i = n THEN NoSubscriber
                                  ELSE IF i = h + 1 THEN subscribers[n] ELSE subscribers[i]
  <2> SUFFICES ASSUME NEW i \in 1..Len(r)
               PROVE  r[i] = IF i = n THEN NoSubscriber ELSE IF i = h + 1 THEN subscribers[n] ELSE subscribers[i]
    OBVIOUS
  <2>1. Len(r) \in Nat
    BY <1>8
  <2>2. i \in 1..Len(subscribers)
    BY <1>1, <1>5, <1>8, <2>1
  <2> QED
    BY <1>5, <1>8, <2>2
<1> QED
  BY <1>1, <1>2, <1>3, <1>4, <1>5, <1>6, <1>8, <1>9

ArrayType == /\ subscribers \in Seq(Subscribers \cup {NoSubscriber})
             /\ num_subscribers \in 0..capacity
             /\ subscribers_index \in [Subscribers -> Int]
             /\ \A s \in Subscribers : subscribers_index[s] \in -1..capacity - 1

LEMMA AddKeeps ==
  ASSUME TypeOK, ArrayOK, Full, NEW s \in Subscribers, AddSubscriber(s)
  PROVE  /\ ArrayType' /\ ArrayOK' /\ Full'
         /\ num_subscribers' = num_subscribers + 1
         /\ subscribers'[num_subscribers + 1] = s
         /\ \A i \in 1..num_subscribers : subscribers'[i] = subscribers[i]
         /\ Elements(subscribers)' \ {NoSubscriber} = (Elements(subscribers) \ {NoSubscriber}) \cup {s}
<1> DEFINE n == num_subscribers
<1>1. /\ n \in Nat /\ n <= Len(subscribers) /\ Len(subscribers) \in Nat
      /\ subscribers \in Seq(Subscribers \cup {NoSubscriber})
      /\ subscribers_index \in [Subscribers -> Int]
      /\ \A t \in Subscribers : subscribers_index[t] \in -1..Len(subscribers) - 1
  BY DEF TypeOK, capacity
<1>2. /\ num_subscribers' = n + 1
      /\ subscribers' \in Seq(Subscribers \cup {NoSubscriber})
      /\ Len(subscribers') >= n + 1 /\ Len(subscribers') \in Nat
      /\ Len(subscribers') >= Len(subscribers)
      /\ subscribers'[n + 1] = s
      /\ \A i \in 1..Len(subscribers') : i # n + 1 =>
            subscribers'[i] = IF i <= Len(subscribers) THEN subscribers[i] ELSE NoSubscriber
      /\ subscribers_index' = [subscribers_index EXCEPT ![s] = n]
      /\ subscribers_index[s] = -1
  BY AddEffect
<1>3. known' = known \cup {s}
  BY DEF AddSubscriber
<1>4. ArrayType'
  <2>1. num_subscribers' \in 0..Len(subscribers')
    BY <1>1, <1>2
  <2>2. /\ subscribers_index' \in [Subscribers -> Int]
        /\ \A t \in Subscribers : subscribers_index'[t] \in -1..Len(subscribers') - 1
    BY <1>1, <1>2
  <2> QED
    BY <1>2, <2>1, <2>2, Zenon DEF ArrayType, capacity
<1>5. \A i \in 1..n : subscribers'[i] = subscribers[i]
  BY <1>1, <1>2, SMTT(60)
<1>6. s # NoSubscriber /\ \A i \in 1..Len(subscribers) : subscribers[i] # s
  BY <1>2, BusAssumption DEF ArrayOK
<1>7. ASSUME NEW i \in 1..Len(subscribers'), subscribers'[i] # NoSubscriber
      PROVE  subscribers_index'[subscribers'[i]] = i - 1 /\ i <= n + 1
  <2>1. CASE i = n + 1
    BY <1>1, <1>2, <2>1
  <2>2. CASE i # n + 1
    <3>1. i \in 1..Len(subscribers) /\ subscribers'[i] = subscribers[i]
      BY <1>1, <1>2, <1>7, <2>2
    <3>2. subscribers[i] # s /\ subscribers[i] \in Subscribers
      BY <1>1, <1>6, <1>7, <3>1
    <3>3. subscribers_index[subscribers[i]] = i - 1 /\ ~ (i > n)
      BY <1>7, <3>1 DEF ArrayOK
    <3> QED
      BY <1>1, <1>2, <3>1, <3>2, <3>3
  <2> QED
    BY <2>1, <2>2
<1>8. ASSUME NEW t \in Subscribers, subscribers_index'[t] >= 0
      PROVE  t \in known' /\ subscribers_index'[t] < n + 1 /\ subscribers'[subscribers_index'[t] + 1] = t
  <2>1. CASE t = s
    BY <1>1, <1>2, <1>3, <2>1
  <2>2. CASE t # s
    <3>1. subscribers_index'[t] = subscribers_index[t]
      BY <1>1, <1>2, <2>2
    <3>2. /\ t \in known /\ subscribers_index[t] \in 0..n - 1
          /\ subscribers[subscribers_index[t] + 1] = t
      BY <1>1, <1>8, <3>1 DEF ArrayOK
    <3> QED
      BY <1>1, <1>3, <1>5, <3>1, <3>2
  <2> QED
    BY <2>1, <2>2
<1>9. ArrayOK'
  BY <1>1, <1>2, <1>7, <1>8 DEF ArrayOK
<1>10. Full'
  <2>1. ASSUME NEW i \in 1..n + 1
        PROVE  subscribers'[i] # NoSubscriber
    <3>1. CASE i = n + 1
      BY <1>2, <1>6, <3>1
    <3>2. CASE i # n + 1
      BY <1>1, <1>5, <3>2 DEF Full
    <3> QED
      BY <3>1, <3>2
  <2> QED
    BY <1>2, <2>1 DEF Full
<1>11. Elements(subscribers)' \ {NoSubscriber} = (Elements(subscribers) \ {NoSubscriber}) \cup {s}
  <2>1. ASSUME NEW i \in 1..Len(subscribers), subscribers[i] # NoSubscriber
        PROVE  i \in 1..Len(subscribers') /\ subscribers'[i] = subscribers[i]
    BY <1>1, <1>2, <1>5, <2>1 DEF ArrayOK
  <2>2. n + 1 \in 1..Len(subscribers')
    BY <1>1, <1>2
  <2>3. ASSUME NEW i \in 1..Len(subscribers'), subscribers'[i] # NoSubscriber, subscribers'[i] # s
        PROVE  i \in 1..Len(subscribers) /\ subscribers'[i] = subscribers[i]
    BY <1>1, <1>2, <2>3
  <2> QED
    BY <1>2, <1>6, <2>1, <2>2, <2>3 DEF Elements
<1> QED
  BY <1>2, <1>4, <1>5, <1>9, <1>10, <1>11

LEMMA RemovedKeeps ==
  ASSUME TypeOK, ArrayOK, Full, NEW s \in Subscribers, is_subscribed(s), SetArray(Removed(s)), known' = known
  PROVE  /\ ArrayType' /\ ArrayOK' /\ Full'
         /\ num_subscribers' = num_subscribers - 1
         /\ \A t \in Subscribers : is_subscribed(t)' <=> is_subscribed(t) /\ t # s
         /\ Elements(subscribers)' \ {NoSubscriber} = (Elements(subscribers) \ {NoSubscriber}) \ {s}
<1> DEFINE h == subscribers_index[s]
           n == num_subscribers
           m == subscribers[n]
<1>1. /\ n \in Nat /\ n <= Len(subscribers) /\ Len(subscribers) \in Nat
      /\ subscribers \in Seq(Subscribers \cup {NoSubscriber})
      /\ subscribers_index \in [Subscribers -> Int]
      /\ \A t \in Subscribers : subscribers_index[t] \in -1..Len(subscribers) - 1
  BY DEF TypeOK, capacity
<1>2. /\ h \in 0..n - 1
      /\ subscribers[h + 1] = s
      /\ m \in Subscribers
      /\ subscribers_index[m] = n - 1
      /\ num_subscribers' = n - 1
      /\ subscribers' \in Seq(Subscribers \cup {NoSubscriber})
      /\ Len(subscribers') >= n - 1 /\ Len(subscribers') <= Len(subscribers) /\ Len(subscribers') \in Nat
      /\ \A i \in 1..Len(subscribers') :
            subscribers'[i] = IF i = n THEN NoSubscriber ELSE IF i = h + 1 THEN m ELSE subscribers[i]
      /\ subscribers_index' = [subscribers_index EXCEPT ![m] = h, ![s] = -1]
  BY RemovedEffect
<1> HIDE DEF m
<1>3. /\ subscribers_index'[s] = -1
      /\ m # s => subscribers_index'[m] = h
      /\ \A t \in Subscribers : t # s /\ t # m => subscribers_index'[t] = subscribers_index[t]
      /\ subscribers_index' \in [Subscribers -> Int]
      /\ h = n - 1 <=> m = s
  <2>1. h = n - 1 => m = s
    <3>1. n - 1 + 1 = n
      BY <1>1
    <3> QED
      BY <1>2, <3>1 DEF m
  <2> QED
    BY <1>1, <1>2, <2>1
<1>4. \A t \in Subscribers : t # s /\ t # m /\ subscribers_index[t] >= 0 =>
           subscribers_index[t] < n - 1 /\ subscribers_index[t] # h
  <2> SUFFICES ASSUME NEW t \in Subscribers, t # s, t # m, subscribers_index[t] >= 0
               PROVE  subscribers_index[t] < n - 1 /\ subscribers_index[t] # h
    OBVIOUS
  <2>1. subscribers_index[t] < n /\ subscribers[subscribers_index[t] + 1] = t /\ subscribers_index[t] \in Int
    BY <1>1 DEF ArrayOK
  <2>2. subscribers_index[t] # h
    BY <1>2, <2>1
  <2>3. subscribers_index[t] # n - 1
    BY <1>1, <2>1 DEF m
  <2> QED
    BY <1>1, <2>1, <2>2, <2>3
<1>5. ArrayType'
  <2>1. ASSUME NEW t \in Subscribers
        PROVE  subscribers_index'[t] \in -1..Len(subscribers') - 1
    BY <1>1, <1>2, <1>3, <1>4, SMTT(60)
  <2> QED
    BY <1>1, <1>2, <1>3, <2>1, SMTT(60) DEF ArrayType, capacity
<1>6. ASSUME NEW i \in 1..Len(subscribers'), subscribers'[i] # NoSubscriber
      PROVE  subscribers_index'[subscribers'[i]] = i - 1 /\ i <= n - 1
  <2>1. i # n /\ i \in 1..Len(subscribers)
    BY <1>1, <1>2, <1>6
  <2>2. CASE i = h + 1
    BY <1>1, <1>2, <1>3, <2>1, <2>2
  <2>3. CASE i # h + 1
    <3>1. subscribers'[i] = subscribers[i] /\ subscribers[i] \in Subscribers
      BY <1>1, <1>2, <1>6, <2>1, <2>3
    <3>2. subscribers_index[subscribers[i]] = i - 1 /\ ~ (i > n)
      BY <1>6, <2>1, <3>1 DEF ArrayOK
    <3> QED
      BY <1>1, <1>2, <1>3, <2>1, <2>3, <3>1, <3>2
  <2> QED
    BY <2>2, <2>3
<1>7. ASSUME NEW t \in Subscribers, subscribers_index'[t] >= 0
      PROVE  t \in known /\ subscribers_index'[t] < n - 1 /\ subscribers'[subscribers_index'[t] + 1] = t
             /\ subscribers_index[t] >= 0 /\ t # s
  <2>1. t # s
    BY <1>3, <1>7
  <2>2. CASE t = m
    BY <1>1, <1>2, <1>3, <2>1, <2>2 DEF ArrayOK
  <2>3. CASE t # m
    <3>1. subscribers_index'[t] = subscribers_index[t] /\ subscribers_index[t] < n - 1 /\ subscribers_index[t] # h
      BY <1>3, <1>4, <1>7, <2>1, <2>3
    <3>2. t \in known /\ subscribers[subscribers_index[t] + 1] = t /\ subscribers_index[t] \in Int
      BY <1>1, <1>7, <3>1 DEF ArrayOK
    <3>3. subscribers_index[t] + 1 \in 1..Len(subscribers') /\ subscribers_index[t] + 1 # n /\ subscribers_index[t] + 1 # h + 1
      BY <1>1, <1>2, <1>7, <3>1, <3>2
    <3> QED
      BY <1>2, <1>7, <2>1, <3>1, <3>2, <3>3
  <2> QED
    BY <2>2, <2>3
<1>8. \A t \in Subscribers : is_subscribed(t)' <=> is_subscribed(t) /\ t # s
  <2>1. ASSUME NEW t \in Subscribers, subscribers_index[t] >= 0, t # s
        PROVE  subscribers_index'[t] >= 0
    BY <1>1, <1>2, <1>3, <2>1, SMTT(60)
  <2> QED
    BY <1>7, <2>1, SMTT(60) DEF is_subscribed
<1>9. ArrayOK'
  <2>1. ASSUME NEW i \in 1..Len(subscribers')
        PROVE  /\ subscribers'[i] # NoSubscriber => subscribers_index'[subscribers'[i]] = i - 1
               /\ i > num_subscribers' => subscribers'[i] = NoSubscriber
    <3>1. i \in Int /\ n - 1 \in Int /\ num_subscribers' = n - 1
      BY <1>1, <1>2
    <3> QED
      BY <1>6, <3>1
  <2>2. ASSUME NEW t \in Subscribers, subscribers_index'[t] >= 0
        PROVE  t \in known' /\ subscribers_index'[t] < num_subscribers' /\ subscribers'[subscribers_index'[t] + 1] = t
    <3>1. t \in known /\ subscribers_index'[t] < n - 1 /\ subscribers'[subscribers_index'[t] + 1] = t
      BY <1>7, <2>2
    <3>2. known' = known /\ num_subscribers' = n - 1
      BY <1>2
    <3> QED
      BY <3>1, <3>2
  <2> QED
    BY <2>1, <2>2 DEF ArrayOK
<1>10. Full'
  <2>1. ASSUME NEW i \in 1..n - 1
        PROVE  subscribers'[i] # NoSubscriber
    <3>1. i \in 1..Len(subscribers') /\ i # n /\ i \in 1..n
      BY <1>1, <1>2
    <3>2. subscribers[i] # NoSubscriber
      BY <3>1 DEF Full
    <3> QED
      BY <1>2, <3>1, <3>2, BusAssumption
  <2> QED
    BY <1>2, <2>1 DEF Full
<1>11. Elements(subscribers)' \ {NoSubscriber} = (Elements(subscribers) \ {NoSubscriber}) \ {s}
  <2>1. ASSUME NEW t \in Subscribers
        PROVE  t \in Elements(subscribers) <=> is_subscribed(t)
    <3>1. ASSUME NEW i \in 1..Len(subscribers), subscribers[i] = t
          PROVE  is_subscribed(t)
      BY <3>1, BusAssumption DEF is_subscribed, ArrayOK
    <3>2. ASSUME is_subscribed(t)
          PROVE  t \in Elements(subscribers)
      <4>1. subscribers_index[t] + 1 \in 1..Len(subscribers) /\ subscribers[subscribers_index[t] + 1] = t
        BY <1>1, <3>2 DEF is_subscribed, ArrayOK
      <4> QED
        BY <4>1 DEF Elements
    <3> QED
      BY <3>1, <3>2 DEF Elements
  <2>2. ASSUME NEW t \in Subscribers
        PROVE  t \in Elements(subscribers)' <=> is_subscribed(t)'
    <3>1. ASSUME NEW i \in 1..Len(subscribers'), subscribers'[i] = t
          PROVE  is_subscribed(t)'
      BY <1>6, <3>1, BusAssumption DEF is_subscribed
    <3>2. ASSUME is_subscribed(t)'
          PROVE  t \in Elements(subscribers)'
      <4>1. subscribers_index'[t] + 1 \in 1..Len(subscribers')
        BY <1>1, <1>2, <1>3, <1>7, <3>2, SMTT(60) DEF is_subscribed
      <4> QED
        BY <1>7, <3>2, <4>1 DEF Elements, is_subscribed
    <3> QED
      BY <3>1, <3>2 DEF Elements
  <2>3. Elements(subscribers) \subseteq Subscribers \cup {NoSubscriber} /\ Elements(subscribers)' \subseteq Subscribers \cup {NoSubscriber}
    BY <1>1, <1>2 DEF Elements
  <2> QED
    BY <1>8, <2>1, <2>2, <2>3
<1> QED
  BY <1>2, <1>5, <1>8, <1>9, <1>10, <1>11

-----------------------------------------------------------------------------
(***************************************************************************)
(* The actions that leave the stack alone.                                 *)
(***************************************************************************)
LEMMA FullWhileOpen ==
  ASSUME FullOK, state # "Closed" \/ WriteOrRemoving
  PROVE  Full
  BY DEF FullOK, Full

LEMMA SubscribeClosedStep ==
  ASSUME BusInv, NEW s \in Subscribers, SubscribeClosed(s)
  PROVE  BusInv'
<1> USE DEF BusInv, SubscribeClosed, settings, array, put_off, history
<1>1. TypeOK'
  BY DEF TypeOK, capacity
<1>2. Shape' /\ StateOK'
  BY DEF Shape, StackOK, OneLoop, CallersOK, Calls, StateOK, LoopRuns, WriteOrRemoving
<1>3. ArrayOK' /\ FullOK' /\ KnownOK'
  BY DEF ArrayOK, FullOK, KnownOK, LoopRuns, WriteOrRemoving
<1>4. LoopOK'
  BY DEF LoopOK
<1> QED
  BY <1>1, <1>2, <1>3, <1>4

LEMMA WriteRefusedStep ==
  ASSUME BusInv, WriteRefused
  PROVE  BusInv'
<1> USE DEF BusInv, WriteRefused, array, put_off, history, client
<1>1. TypeOK'
  BY DEF TypeOK, capacity
<1>2. Shape' /\ StateOK'
  BY DEF Shape, StackOK, OneLoop, CallersOK, Calls, StateOK, LoopRuns, WriteOrRemoving
<1>3. ArrayOK' /\ FullOK' /\ KnownOK'
  BY DEF ArrayOK, FullOK, KnownOK, LoopRuns, WriteOrRemoving
<1>4. LoopOK'
  BY DEF LoopOK
<1> QED
  BY <1>1, <1>2, <1>3, <1>4

LEMMA CloseDuringWriteStep ==
  ASSUME BusInv, CloseDuringWrite
  PROVE  BusInv'
<1> USE DEF BusInv, CloseDuringWrite, settings, array, put_off, history, client
<1>1. TypeOK'
  BY DEF TypeOK, capacity, StillSubscribed
<1>2. Shape' /\ StateOK'
  BY DEF Shape, StackOK, OneLoop, CallersOK, Calls, StateOK, LoopRuns, WriteOrRemoving
<1>3. ArrayOK' /\ FullOK' /\ KnownOK'
  BY DEF ArrayOK, FullOK, KnownOK, LoopRuns, WriteOrRemoving
<1>4. LoopOK'
  BY DEF LoopOK
<1> QED
  BY <1>1, <1>2, <1>3, <1>4

LEMMA NoRemovingInClient ==
  ASSUME BusInv, InClient
  PROVE  ~ LoopRuns("removing")
<1>1. stack \in Seq(Frame)
  BY DEF BusInv, Shape, StackOK
<1>2. stack # <<>> => stack[1].op = "client"
  BY <1>1 DEF InClient, Running, Top
<1> QED
  BY <1>1, <1>2 DEF BusInv, LoopOK, LoopRuns

LEMMA UnsubscribeDuringWriteStep ==
  ASSUME BusInv, NEW s \in Subscribers, UnsubscribeDuringWrite(s)
  PROVE  BusInv'
<1> USE DEF BusInv, UnsubscribeDuringWrite, settings, array, put_off, history, client
<1>0. unsubscribes_during_write \in Seq(Subscribers) /\ handles \subseteq known
  BY DEF TypeOK
<1>a. /\ unsubscribes_during_write' \in Seq(Subscribers)
       /\ Len(unsubscribes_during_write') = Len(unsubscribes_during_write) + 1
       /\ unsubscribes_during_write'[1] = s
       /\ \A j \in 2..Len(unsubscribes_during_write) + 1 :
             unsubscribes_during_write'[j] = unsubscribes_during_write[j - 1]
  BY <1>0, PushFacts
<1>1. TypeOK'
  BY <1>a DEF TypeOK, capacity
<1>2. Shape'
  BY DEF Shape, StackOK, OneLoop, CallersOK, Calls
<1>b. StateOK'
  BY DEF StateOK, LoopRuns, WriteOrRemoving
<1>3. ArrayOK' /\ FullOK'
  BY DEF ArrayOK, FullOK, LoopRuns, WriteOrRemoving
<1>c. KnownOK'
  <2>1. ASSUME NEW j \in 1..Len(unsubscribes_during_write')
        PROVE  unsubscribes_during_write'[j] \in known
    BY <1>0, <1>a DEF KnownOK
  <2> QED
    BY <2>1 DEF KnownOK
<1>4. LoopOK'
  <2>1. \A k \in 1..Len(stack) : stack[k].op # "removing"
    BY NoRemovingInClient DEF LoopRuns
  <2> QED
    BY <2>1 DEF LoopOK
<1> QED
  BY <1>1, <1>2, <1>b, <1>3, <1>c, <1>4

LEMMA OnlyClients ==
  ASSUME BusInv, state = "Ok_to_write"
  PROVE  (\A k \in 1..Len(stack) : stack[k].op = "client") /\ Loops = {}
<1>1. ASSUME NEW k \in 1..Len(stack)
      PROVE  stack[k] \in Frame /\ \A op \in {"write", "removing", "closing"} : stack[k].op # op
  BY DEF BusInv, Shape, StackOK, StateOK, WriteOrRemoving, LoopRuns
<1>2. \A k \in 1..Len(stack) : stack[k].op = "client"
  BY <1>1, FrameFacts
<1> QED
  BY <1>2 DEF Loops, Elements

LEMMA UnsubscribeStep ==
  ASSUME BusInv, NEW s \in Subscribers, Unsubscribe(s)
  PROVE  BusInv'
<1> USE DEF BusInv, Unsubscribe, settings, put_off, history, client
<1>1. Full
  BY FullWhileOpen
<1>2. ArrayType' /\ ArrayOK' /\ Full'
  BY <1>1, RemovedKeeps
<1>3. TypeOK'
  BY <1>2 DEF TypeOK, ArrayType, capacity
<1>4. \A k \in 1..Len(stack) : stack[k].op = "client"
  BY OnlyClients
<1>5. Shape'
  BY DEF Shape, StackOK, OneLoop, CallersOK, Calls
<1>6. StateOK' /\ KnownOK'
  BY DEF StateOK, KnownOK, LoopRuns, WriteOrRemoving
<1>7. FullOK'
  BY <1>2 DEF FullOK, Full
<1>8. LoopOK'
  BY <1>4 DEF LoopOK
<1> QED
  BY <1>2, <1>3, <1>5, <1>6, <1>7, <1>8

LEMMA NoClosingWhileOpen ==
  ASSUME BusInv, state # "Closed"
  PROVE  ~ LoopRuns("closing")
  BY DEF BusInv, StateOK

LEMMA AddingKeepsLoops ==
  ASSUME BusInv, NEW s \in Subscribers, AddSubscriber(s), InClient, UNCHANGED unsubscribes_during_write
  PROVE  /\ ArrayType' /\ ArrayOK' /\ Full'
         /\ \A k \in 1..Len(stack) :
               /\ stack[k].op \in {"client", "write"}
               /\ stack[k].op = "write" =>
                     /\ stack[k].i <= Len(stack[k].callbacks)
                     /\ Len(stack[k].callbacks) <= num_subscribers'
                     /\ \A j \in 1..Len(stack[k].callbacks) : stack[k].callbacks[j] = subscribers'[j]
<1> USE DEF BusInv
<1>1. Full /\ state # "Closed"
  BY FullWhileOpen DEF AddSubscriber
<1>2. /\ ArrayType' /\ ArrayOK' /\ Full'
      /\ num_subscribers' = num_subscribers + 1
      /\ \A i \in 1..num_subscribers : subscribers'[i] = subscribers[i]
  BY <1>1, AddKeeps
<1>3. ASSUME NEW k \in 1..Len(stack)
      PROVE  stack[k].op \in {"client", "write"}
  <2>1. stack[k] \in Frame
    BY DEF Shape, StackOK
  <2>2. stack[k].op # "closing" /\ stack[k].op # "removing"
    BY <1>1, NoClosingWhileOpen, NoRemovingInClient DEF LoopRuns
  <2> QED
    BY <2>1, <2>2, FrameFacts
<1>4. ASSUME NEW k \in 1..Len(stack), stack[k].op = "write"
      PROVE  /\ stack[k].i <= Len(stack[k].callbacks)
             /\ Len(stack[k].callbacks) <= num_subscribers'
             /\ \A j \in 1..Len(stack[k].callbacks) : stack[k].callbacks[j] = subscribers'[j]
  <2>1. /\ stack[k].i <= Len(stack[k].callbacks)
        /\ Len(stack[k].callbacks) <= num_subscribers
        /\ \A j \in 1..Len(stack[k].callbacks) : stack[k].callbacks[j] = subscribers[j]
    BY <1>4 DEF LoopOK, WriteOK
  <2>2. num_subscribers \in Nat
    BY DEF TypeOK
  <2>3. Len(stack[k].callbacks) \in Nat
    <3>1. stack[k] \in Frame
      BY DEF Shape, StackOK
    <3> QED
      BY <1>4, <3>1, FrameFacts DEF WriteFrame
  <2> QED
    BY <1>2, <2>1, <2>2, <2>3
<1> QED
  BY <1>2, <1>3, <1>4

LEMMA SubscribeStep ==
  ASSUME BusInv, NEW s \in Subscribers, Subscribe(s)
  PROVE  BusInv'
<1> USE DEF BusInv, Subscribe, settings, put_off, history
<1>0. AddSubscriber(s) /\ InClient /\ state # "Closed" /\ s \notin known /\ known' = known \cup {s}
  BY DEF AddSubscriber
<1>1. /\ ArrayType' /\ ArrayOK' /\ Full'
      /\ \A k \in 1..Len(stack) :
            /\ stack[k].op \in {"client", "write"}
            /\ stack[k].op = "write" =>
                  /\ stack[k].i <= Len(stack[k].callbacks)
                  /\ Len(stack[k].callbacks) <= num_subscribers'
                  /\ \A j \in 1..Len(stack[k].callbacks) : stack[k].callbacks[j] = subscribers'[j]
  BY <1>0, AddingKeepsLoops
<1>2. TypeOK'
  BY <1>0, <1>1 DEF TypeOK, ArrayType, capacity
<1>3. Shape'
  BY <1>0 DEF Shape, StackOK, OneLoop, CallersOK, Calls
<1>4. StateOK' /\ KnownOK'
  BY <1>0 DEF StateOK, KnownOK, LoopRuns, WriteOrRemoving
<1>5. FullOK'
  BY <1>1 DEF FullOK, Full
<1>6. LoopOK'
  BY <1>1 DEF LoopOK, WriteOK
<1> QED
  BY <1>1, <1>2, <1>3, <1>4, <1>5, <1>6

LEMMA SubscribeAndSendStep ==
  ASSUME BusInv, NEW s \in Subscribers, SubscribeAndSend(s)
  PROVE  BusInv' /\ Loops' = Loops
<1> DEFINE f == Client("last_value", s)
<1> USE DEF BusInv, SubscribeAndSend, settings, put_off
<1>0. AddSubscriber(s) /\ InClient /\ state # "Closed" /\ s \notin known /\ known' = known \cup {s}
  BY DEF AddSubscriber
<1>1. /\ ArrayType' /\ ArrayOK' /\ Full'
      /\ \A k \in 1..Len(stack) :
            /\ stack[k].op \in {"client", "write"}
            /\ stack[k].op = "write" =>
                  /\ stack[k].i <= Len(stack[k].callbacks)
                  /\ Len(stack[k].callbacks) <= num_subscribers'
                  /\ \A j \in 1..Len(stack[k].callbacks) : stack[k].callbacks[j] = subscribers'[j]
  BY <1>0, AddingKeepsLoops
<1>2. TypeOK'
  <2>1. last_value \in 0..MaxWrites
    BY BusAssumption DEF TypeOK
  <2>2. got' \in [Subscribers -> 0..MaxWrites]
    BY <2>1 DEF TypeOK
  <2> QED
    BY <1>0, <1>1, <2>2 DEF TypeOK, ArrayType, capacity
<1>3. f \in Frame /\ f.op = "client" /\ f.why = "last_value" /\ f.who = s
  BY DEF Frame, ClientFrame, Client
<1>4. Replaced(0, f) /\ stack \in Seq(Frame)
  BY <1>3, ReplaceFacts DEF Shape, StackOK
<1>5. stack # <<>> => stack[1].op = "client"
  BY <1>0, <1>4 DEF InClient, Running, Top
<1>6. Shape'
  BY <1>0, <1>3, <1>4, <1>5, ReplaceShape
<1>7. ASSUME NEW op, op # "client"
      PROVE  LoopRuns(op)' <=> LoopRuns(op)
  <2>1. LoopRuns(op)' <=> f.op = op \/ \E k \in 0 + 1..Len(stack) : stack[k].op = op
    BY <1>4, ReplacedLoops
  <2>2. (\E k \in 0 + 1..Len(stack) : stack[k].op = op) <=> LoopRuns(op)
    BY DEF LoopRuns
  <2> QED
    BY <1>3, <1>7, <2>1, <2>2
<1>8. StateOK'
  BY <1>7 DEF StateOK, WriteOrRemoving
<1>a. KnownOK'
  BY <1>0 DEF KnownOK, TypeOK
<1>9. FullOK'
  BY <1>1 DEF FullOK, Full
<1>10. LoopOK'
  <2>1. ASSUME NEW k \in 1..Len(stack'), stack'[k].op # "client"
        PROVE  k - 1 \in 1..Len(stack) /\ stack'[k] = stack[k - 1]
    BY <1>3, <1>4, <2>1 DEF Replaced
  <2>2. ASSUME NEW k \in 1..Len(stack'), stack'[k].op # "client"
        PROVE  stack'[k].op = "write" /\ WriteOK(stack'[k], num_subscribers', subscribers')
    BY <1>1, <2>1, <2>2 DEF WriteOK
  <2> QED
    BY <2>2 DEF LoopOK
<1>11. Loops' = Loops
  <2>1. Elements(stack)' = {f} \cup {stack[k] : k \in 0 + 1..Len(stack)}
    BY <1>4, ReplacedElements
  <2>2. {stack[k] : k \in 0 + 1..Len(stack)} = Elements(stack)
    BY DEF Elements
  <2> QED
    BY <1>3, <2>1, <2>2 DEF Loops
<1> QED
  BY <1>1, <1>11, <1>2, <1>6, <1>8, <1>a, <1>9, <1>10

-----------------------------------------------------------------------------
(***************************************************************************)
(* The actions that start a loop of the bus.                               *)
(***************************************************************************)
LEMMA ClientOnTop ==
  ASSUME BusInv, InClient, stack # <<>>
  PROVE  stack[1].op = "client"
<1>1. stack \in Seq(Frame)
  BY DEF BusInv, Shape, StackOK
<1> QED
  BY <1>1 DEF InClient, Running, Top

LEMMA CloseStep ==
  ASSUME BusInv, Close
  PROVE  BusInv' /\ Loops = {} /\ Loops' = {Closing(num_subscribers)}
<1> DEFINE f == Closing(num_subscribers)
<1> USE DEF BusInv, Close, settings, array, put_off, history, client
<1>1. TypeOK'
  BY DEF TypeOK, capacity, StillSubscribed
<1>2. num_subscribers \in Nat /\ num_subscribers <= Len(subscribers) /\ Len(subscribers) \in Nat
      /\ subscribers \in Seq(Subscribers \cup {NoSubscriber})
  BY DEF TypeOK, capacity
<1>3. f \in Frame /\ f.op = "closing" /\ f.i = 0 /\ f.last = num_subscribers
  BY <1>2 DEF Frame, ClosingFrame, Closing
<1>4. Replaced(0, f) /\ stack \in Seq(Frame)
  BY <1>3, ReplaceFacts DEF Shape, StackOK
<1>5. \A k \in 1..Len(stack) : stack[k].op = "client"
  BY OnlyClients
<1>6. Shape'
  BY <1>3, <1>4, <1>5, ReplaceShape
<1>7. \A op : op # "client" => (LoopRuns(op)' <=> op = "closing")
  BY <1>3, <1>4, <1>5, ReplacedLoops
<1>8. StateOK' /\ KnownOK'
  BY <1>7 DEF StateOK, KnownOK, WriteOrRemoving
<1>9. ArrayOK' /\ FullOK'
  BY <1>7 DEF ArrayOK, FullOK, WriteOrRemoving
<1>10. LoopOK'
  <2>1. Full
    BY FullWhileOpen
  <2>2. \A j \in 1..num_subscribers : subscribers[j] \in Subscribers /\ told[subscribers[j]] = 0
    BY <1>2, <2>1 DEF Full, StateOK
  <2>3. ClosingOK(f, num_subscribers', subscribers', told')
    BY <1>2, <1>3, <2>1, <2>2 DEF ClosingOK, Full
  <2>4. num_subscribers > 0 => told[subscribers[1]] = 0
    BY <1>2, <2>2
  <2>5. ASSUME NEW k \in 1..Len(stack'), stack'[k].op # "client"
        PROVE  k = 1 /\ stack'[k] = f
    BY <1>4, <1>5, <2>5 DEF Replaced
  <2> HIDE DEF f
  <2> QED
    BY <1>3, <2>3, <2>4, <2>5 DEF LoopOK
<1>11. Loops = {} /\ Loops' = {f}
  <2>1. Elements(stack)' = {f} \cup {stack[k] : k \in 0 + 1..Len(stack)}
    BY <1>4, ReplacedElements
  <2>2. Loops = {} /\ \A k \in 0 + 1..Len(stack) : stack[k].op = "client"
    BY <1>5, OnlyClients
  <2> QED
    BY <1>3, <2>1, <2>2 DEF Loops
<1> QED
  BY <1>1, <1>6, <1>8, <1>9, <1>10, <1>11

LEMMA WriteStep ==
  ASSUME BusInv, Write
  PROVE  /\ BusInv' /\ Loops = {}
         /\ num_subscribers = 0 => Loops' = {}
         /\ num_subscribers # 0 => Loops' = {Writing(SubSeq(subscribers, 1, num_subscribers))}
<1> DEFINE cb == SubSeq(subscribers, 1, num_subscribers)
           f == Writing(cb)
<1> USE DEF BusInv, Write, array, put_off, history
<1>1. TypeOK'
  BY BusAssumption DEF TypeOK, capacity, NewLastValue
<1>2. num_subscribers \in Nat /\ num_subscribers <= Len(subscribers) /\ Len(subscribers) \in Nat
      /\ subscribers \in Seq(Subscribers \cup {NoSubscriber})
  BY DEF TypeOK, capacity
<1>3. Full /\ \A k \in 1..Len(stack) : stack[k].op = "client"
  BY FullWhileOpen, OnlyClients
<1>4. /\ cb \in Seq(Subscribers) /\ Len(cb) = num_subscribers
      /\ \A j \in 1..Len(cb) : cb[j] = subscribers[j]
  BY <1>2, <1>3 DEF Full
<1>5. f \in Frame /\ f.op = "write" /\ f.i = 0 /\ f.callbacks = cb
  BY <1>4 DEF Frame, WriteFrame, Writing
<1>6. ArrayOK' /\ KnownOK'
  BY DEF ArrayOK, KnownOK
<1> HIDE DEF cb, f
<1>9. Loops = {}
  BY OnlyClients
<1>7. CASE num_subscribers = 0
  <2>1. Shape' /\ StateOK'
    BY <1>2, <1>7 DEF Shape, StackOK, OneLoop, CallersOK, Calls, StateOK, LoopRuns, WriteOrRemoving
  <2>2. FullOK' /\ LoopOK'
    BY <1>2, <1>3, <1>7 DEF FullOK, Full, LoopOK
  <2> QED
    BY <1>1, <1>2, <1>6, <1>7, <1>9, <2>1, <2>2 DEF Loops
<1>8. CASE num_subscribers # 0
  <2>1. stack' = <<f>> \o stack /\ state' = "Write_in_progress"
    BY <1>2, <1>8 DEF f, cb
  <2>2. Replaced(0, f) /\ stack \in Seq(Frame)
    BY <1>5, <2>1, ReplaceFacts DEF Shape, StackOK
  <2>3. Shape'
    BY <1>3, <1>5, <2>2, ReplaceShape
  <2>4. \A op : op # "client" => (LoopRuns(op)' <=> op = "write")
    BY <1>3, <1>5, <2>2, ReplacedLoops
  <2>5. StateOK' /\ FullOK'
    BY <1>3, <2>1, <2>4 DEF StateOK, FullOK, Full, WriteOrRemoving
  <2>6. ASSUME NEW k \in 1..Len(stack'), stack'[k].op # "client"
        PROVE  stack'[k] = f
    <3>1. CASE k = 1
      BY <2>2, <3>1 DEF Replaced
    <3>2. CASE k # 1
      <4>1. k \in 2..Len(stack) - 0 + 1 /\ k + 0 - 1 \in 1..Len(stack)
        BY <2>2, <3>2, SMTT(60) DEF Replaced
      <4>2. stack'[k] = stack[k + 0 - 1]
        BY <2>2, <4>1, Zenon DEF Replaced
      <4> QED
        BY <1>3, <2>6, <4>1, <4>2, Zenon
    <3> QED
      BY <3>1, <3>2
  <2>7. WriteOK(f, num_subscribers', subscribers')
    BY <1>2, <1>4, <1>5 DEF WriteOK
  <2>8. LoopOK'
    BY <1>5, <2>6, <2>7 DEF LoopOK
  <2>9. Loops' = {f}
    <3>1. Elements(stack)' = {f} \cup {stack[k] : k \in 0 + 1..Len(stack)}
      BY <2>2, ReplacedElements
    <3>2. \A k \in 0 + 1..Len(stack) : stack[k].op = "client"
      BY <1>3
    <3> QED
      BY <1>5, <3>1, <3>2 DEF Loops
  <2> QED
    BY <1>1, <1>6, <1>8, <1>9, <2>3, <2>5, <2>8, <2>9 DEF f, cb
<1> QED
  BY <1>7, <1>8

-----------------------------------------------------------------------------
(***************************************************************************)
(* The turns of the loops.                                                 *)
(***************************************************************************)
LEMMA LoopOnTop ==
  ASSUME BusInv, NEW op, op # "client", Running(op)
  PROVE  /\ Len(stack) \in Nat \ {0} /\ stack \in Seq(Frame) /\ Top = stack[1]
         /\ Top \in Frame /\ Top.op = op
         /\ \A k \in 2..Len(stack) : stack[k].op = "client"
         /\ \A o : o # "client" => (LoopRuns(o) <=> o = op)
         /\ Loops = {Top}
<1>1. stack \in Seq(Frame) /\ stack # <<>> /\ Top.op = op
  BY DEF BusInv, Shape, StackOK, Running
<1>2. Len(stack) \in Nat \ {0} /\ Top = stack[1] /\ Top \in Frame
  BY <1>1, TopFacts DEF StackOK
<1>3. \A k \in 2..Len(stack) : stack[k].op = "client"
  BY <1>1, <1>2 DEF BusInv, Shape, OneLoop
<1>4. Loops = {Top}
  BY <1>1, <1>2, <1>3 DEF Loops, Elements
<1> QED
  BY <1>1, <1>2, <1>3, <1>4 DEF LoopRuns

LEMMA CallBackStep ==
  ASSUME BusInv, CallBack
  PROVE  BusInv' /\ Loops = {Top} /\ Loops' = {[Top EXCEPT !.i = @ + 1]}
<1> DEFINE s == Top.callbacks[Top.i + 1]
           f == Client("callback", s)
           g == [Top EXCEPT !.i = @ + 1]
           n == Len(stack)
<1> USE DEF BusInv, settings, array, put_off, client
<1>0. /\ Running("write") /\ Top.i < Len(Top.callbacks)
      /\ stack' = <<f, g>> \o Tail(stack)
      /\ got' = [got EXCEPT ![s] = writes]
      /\ UNCHANGED <<settings, state, array, put_off, client, told, at_close>>
  BY DEF CallBack
<1>1. /\ n \in Nat \ {0} /\ stack \in Seq(Frame) /\ Top = stack[1]
      /\ Top \in WriteFrame /\ Top.op = "write"
      /\ \A k \in 2..n : stack[k].op = "client"
      /\ \A o : o # "client" => (LoopRuns(o) <=> o = "write")
  BY <1>0, LoopOnTop, FrameFacts
<1>2. /\ Top.i \in Nat /\ Top.callbacks \in Seq(Subscribers) /\ s \in Subscribers
  BY <1>0, <1>1 DEF WriteFrame
<1>3. /\ f \in Frame /\ f.op = "client" /\ f.why = "callback"
      /\ g \in Frame /\ g.op = "write" /\ g.callbacks = Top.callbacks /\ g.i = Top.i + 1
  BY <1>1, <1>2 DEF Frame, ClientFrame, Client, WriteFrame
<1> HIDE DEF f, g, s
<1>4. Tail(stack) \in Seq(Frame) /\ Len(Tail(stack)) = n - 1 /\ \A k \in 1..n - 1 : Tail(stack)[k] = stack[k + 1]
  BY <1>1, PopFacts
<1>5. /\ stack' \in Seq(Frame) /\ Len(stack') = n + 1
      /\ stack'[1] = f /\ stack'[2] = g
      /\ \A k \in 3..n + 1 : stack'[k] = Tail(stack)[k - 2]
  <2> HIDE DEF n
  <2> DEFINE t == Tail(stack)
  <2>1. t \in Seq(Frame) /\ Len(t) = n - 1 /\ stack' = <<f, g>> \o t
    BY <1>0, <1>4
  <2> HIDE DEF t
  <2>2. stack' \in Seq(Frame) /\ Len(stack') = n + 1 /\ stack'[1] = f /\ stack'[2] = g /\ \A k \in 3..n + 1 : stack'[k] = t[k - 2]
    BY <1>1, <1>3, <2>1 DEF n
  <2> QED
    BY <2>2 DEF t
<1>6. ASSUME NEW k \in 3..n + 1
      PROVE  k - 1 \in 2..n /\ stack'[k] = stack[k - 1] /\ stack'[k].op = "client"
    <2>1. k - 2 \in 1..n - 1 /\ (k - 2) + 1 = k - 1 /\ k - 1 \in 2..n
      BY <1>1
    <2> QED
      BY <1>1, <1>4, <1>5, <2>1
<1>7. OneLoop'
  <2>1. ASSUME NEW k \in 1..n + 1, stack'[k].op # "client"
        PROVE  k = 2
    BY <1>1, <1>3, <1>5, <1>6, <2>1
  <2> QED
    BY <1>5, <2>1 DEF OneLoop
<1>8. ASSUME NEW k \in 1..n + 1
      PROVE  /\ stack'[k].op = "client" /\ stack'[k].why = "callback" => k < n + 1 /\ stack'[k + 1].op = "write"
             /\ stack'[k].op = "client" /\ stack'[k].why = "last_value" =>
                   stack'[k].who \in known' /\ (k = n + 1 \/ stack'[k + 1].op = "client")
             /\ stack'[k].op = "client" /\ stack'[k].why = "on_close" => k < n + 1 /\ stack'[k + 1].op = "closing"
  <2>1. CASE k \in {1, 2}
    BY <1>1, <1>3, <1>5, <2>1
  <2>2. CASE k \in 3..n + 1
    <3>1. k - 1 \in 2..n /\ stack'[k] = stack[k - 1] /\ (k < n + 1 => stack'[k + 1] = stack[(k - 1) + 1])
      <4>1. k < n + 1 => k + 1 \in 3..n + 1 /\ (k + 1) - 1 = (k - 1) + 1
        BY <1>1, <2>2
      <4> QED
        BY <1>6, <2>2, <4>1
    <3>2. (k - 1 < n <=> k < n + 1) /\ (k - 1 = n <=> k = n + 1) /\ k - 1 \in 1..n
      BY <1>1, <3>1
    <3> DEFINE m == k - 1
    <3>3. /\ Calls(m, "callback") => m < n /\ stack[m + 1].op = "write"
          /\ Calls(m, "last_value") => stack[m].who \in known /\ (m = n \/ stack[m + 1].op = "client")
          /\ Calls(m, "on_close") => m < n /\ stack[m + 1].op = "closing"
      BY <3>2 DEF Shape, CallersOK
    <3> QED
      BY <1>0, <3>1, <3>2, <3>3, SMTT(60) DEF Calls
  <2> QED
    BY <1>1, <2>1, <2>2
<1>9. Shape'
  BY <1>5, <1>7, <1>8 DEF Shape, StackOK, CallersOK, Calls
<1>10. \A o : o # "client" => (LoopRuns(o)' <=> o = "write")
  <2>1. ASSUME NEW k \in 1..n + 1, stack'[k].op # "client"
        PROVE  stack'[k].op = "write"
    BY <1>1, <1>3, <1>5, <1>6, <2>1
  <2>2. 2 \in 1..n + 1
    BY <1>1
  <2> QED
    BY <1>3, <1>5, <2>1, <2>2 DEF LoopRuns
<1>11. TypeOK'
  <2>1. got' \in [Subscribers -> 0..MaxWrites]
    BY <1>0, <1>2 DEF TypeOK
  <2> QED
    BY <1>0, <2>1 DEF TypeOK, capacity
<1>12. StateOK' /\ ArrayOK' /\ FullOK'
  BY <1>0, <1>1, <1>10 DEF StateOK, ArrayOK, FullOK, WriteOrRemoving
<1>13. Len(Top.callbacks) <= num_subscribers /\ \A j \in 1..Len(Top.callbacks) : Top.callbacks[j] = subscribers[j]
  BY <1>1 DEF LoopOK, WriteOK
<1>14. KnownOK'
  <2>1. s \in known
    <3>0. Top.i + 1 \in 1..Len(Top.callbacks)
      BY <1>0, <1>2
    <3>1. num_subscribers \in 0..Len(subscribers) /\ Len(subscribers) \in Nat
      BY DEF TypeOK, capacity
    <3>11. Top.i + 1 \in 1..Len(subscribers) /\ subscribers[Top.i + 1] = s
      BY <1>2, <1>13, <3>0, <3>1 DEF s
    <3>2. subscribers_index[s] = (Top.i + 1) - 1
      BY <1>2, <3>11, BusAssumption DEF ArrayOK
    <3> QED
      BY <1>2, <3>1, <3>2 DEF ArrayOK
  <2> QED
    BY <1>0, <2>1 DEF KnownOK, TypeOK
<1>15. LoopOK'
  <2>1. WriteOK(g, num_subscribers', subscribers')
    BY <1>0, <1>2, <1>3, <1>13 DEF WriteOK
  <2>2. ASSUME NEW k \in 1..n + 1, stack'[k].op # "client"
        PROVE  stack'[k] = g
    BY <1>1, <1>3, <1>5, <1>6, <2>2
  <2> QED
    BY <1>3, <1>5, <2>1, <2>2 DEF LoopOK
<1>16. Loops = {Top} /\ Loops' = {g}
  <2>1. ASSUME NEW k \in 1..n + 1, stack'[k].op # "client"
        PROVE  k = 2
    BY <1>1, <1>3, <1>5, <1>6, <2>1
  <2>2. 2 \in 1..n + 1
    BY <1>1
  <2>3. Loops' = {g}
    BY <1>3, <1>5, <2>1, <2>2, SMTT(60) DEF Loops, Elements
  <2> QED
    BY <1>0, <2>3, LoopOnTop
<1> QED
  BY <1>16, <1>9, <1>11, <1>12, <1>14, <1>15 DEF g

LEMMA LoopReplaced ==
  ASSUME BusInv, NEW op, op # "client", Running(op), NEW f \in Frame, f.op # "client",
         stack' = <<f>> \o Tail(stack), known' = known
  PROVE  /\ Shape' /\ stack'[1] = f /\ Len(stack') \in Nat \ {0}
         /\ Loops' = {f}
         /\ \A k \in 1..Len(stack') : stack'[k].op # "client" => k = 1
         /\ \A o : o # "client" => (LoopRuns(o)' <=> o = f.op)
<1>1. /\ Len(stack) \in Nat \ {0} /\ stack \in Seq(Frame)
      /\ \A k \in 2..Len(stack) : stack[k].op = "client"
  BY LoopOnTop
<1>2. Replaced(1, f)
  BY <1>1, ReplaceFacts DEF BusInv, Shape
<1>3. Shape'
  BY <1>1, <1>2, ReplaceShape DEF BusInv
<1>4. ASSUME NEW k \in 1..Len(stack'), stack'[k].op # "client"
      PROVE  k = 1
  <2>1. k # 1 => stack'[k] = stack[k] /\ k \in 2..Len(stack)
    BY <1>1, <1>2 DEF Replaced
  <2> QED
    BY <1>1, <1>4, <2>1
<1>5. \A o : o # "client" => (LoopRuns(o)' <=> o = f.op)
  <2>1. \A o : LoopRuns(o)' <=> f.op = o \/ \E k \in 1 + 1..Len(stack) : stack[k].op = o
    BY <1>2, ReplacedLoops DEF BusInv
  <2> QED
    BY <1>1, <2>1
<1>6. stack'[1] = f /\ Len(stack') \in Nat \ {0}
  BY <1>1, <1>2 DEF Replaced
<1>7. Loops' = {f}
  BY <1>4, <1>6 DEF Loops, Elements
<1> QED
  BY <1>3, <1>4, <1>5, <1>6, <1>7

LEMMA LoopPopped ==
  ASSUME BusInv, NEW op, op # "client", Running(op), stack' = Tail(stack), known' = known
  PROVE  /\ Shape' /\ LoopOK'
         /\ \A o : o # "client" => ~ LoopRuns(o)'
         /\ Loops' = {}
<1>1. /\ Len(stack) \in Nat \ {0} /\ stack \in Seq(Frame)
      /\ \A k \in 2..Len(stack) : stack[k].op = "client"
  BY LoopOnTop
<1>2. stack # <<>> /\ StackOK
  BY <1>1 DEF StackOK
<1>3. Popped(1)
  BY <1>1, PopFacts DEF Popped
<1>4. Shape'
  BY <1>3, PopShape DEF BusInv
<1>5. \A o : o # "client" => ~ LoopRuns(o)'
  BY <1>1, <1>3, PoppedLoops DEF BusInv
<1>6. LoopOK'
  BY <1>5 DEF LoopOK, LoopRuns
<1>7. Loops' = {}
  BY <1>5 DEF Loops, LoopRuns, Elements
<1> QED
  BY <1>4, <1>5, <1>6, <1>7

LEMMA ClosingStarts ==
  ASSUME BusInv, Full, \A s \in Subscribers : told[s] = 0
  PROVE  /\ Closing(num_subscribers) \in Frame
         /\ Closing(num_subscribers).op = "closing" /\ Closing(num_subscribers).i = 0
         /\ ClosingOK(Closing(num_subscribers), num_subscribers, subscribers, told)
         /\ 0 < num_subscribers => told[subscribers[1]] = 0
<1>1. num_subscribers \in Nat /\ num_subscribers <= Len(subscribers) /\ Len(subscribers) \in Nat
      /\ subscribers \in Seq(Subscribers \cup {NoSubscriber})
  BY DEF BusInv, TypeOK, capacity
<1>2. \A j \in 1..num_subscribers : subscribers[j] \in Subscribers /\ told[subscribers[j]] = 0
  BY <1>1 DEF Full
<1> QED
  BY <1>1, <1>2 DEF ClosingOK, Closing, Frame, ClosingFrame, Full

LEMMA SettleKeeps ==
  ASSUME BusInv, NEW op \in {"write", "removing"}, Running(op), Settle(Tail(stack)),
         unsubscribes_during_write' = <<>>, UNCHANGED <<settings, array, client, history>>
  PROVE  BusInv'
<1> USE DEF BusInv, settings, array, client, history
<1>1. WriteOrRemoving /\ op # "client"
  BY LoopOnTop DEF WriteOrRemoving
<1>2. TypeOK'
  BY DEF TypeOK, capacity, Settle
<1>3. ArrayOK' /\ KnownOK'
  BY DEF ArrayOK, KnownOK
<1>4. CASE state = "Closed"
  <2> DEFINE f == Closing(num_subscribers)
  <2>1. stack' = <<f>> \o Tail(stack) /\ state' = "Closed"
    BY <1>4 DEF Settle
  <2>2. /\ f \in Frame /\ f.op = "closing" /\ f.i = 0
        /\ ClosingOK(f, num_subscribers, subscribers, told)
        /\ 0 < num_subscribers => told[subscribers[1]] = 0
    BY <1>1, ClosingStarts, FullWhileOpen DEF StateOK
  <2> HIDE DEF f
  <2>3. /\ Shape' /\ stack'[1] = f
        /\ \A k \in 1..Len(stack') : stack'[k].op # "client" => k = 1
        /\ \A o : o # "client" => (LoopRuns(o)' <=> o = "closing")
    BY <1>1, <2>1, <2>2, LoopReplaced
  <2>4. StateOK' /\ FullOK'
    BY <2>1, <2>3 DEF StateOK, FullOK, WriteOrRemoving
  <2>5. LoopOK'
    BY <2>2, <2>3 DEF LoopOK
  <2> QED
    BY <1>2, <1>3, <2>3, <2>4, <2>5
<1>5. CASE state # "Closed"
  <2>1. stack' = Tail(stack) /\ state' = "Ok_to_write"
    BY <1>5 DEF Settle
  <2>2. Shape' /\ LoopOK' /\ \A o : o # "client" => ~ LoopRuns(o)'
    BY <1>1, <2>1, LoopPopped
  <2>3. StateOK' /\ FullOK'
    BY <1>5, <2>1, <2>2 DEF StateOK, FullOK, WriteOrRemoving
  <2> QED
    BY <1>2, <1>3, <2>2, <2>3
<1> QED
  BY <1>4, <1>5

LEMMA FinishWriteStep ==
  ASSUME BusInv, FinishWrite
  PROVE  BusInv'
<1>1. /\ Running("write") /\ Settle(Tail(stack)) /\ unsubscribes_during_write' = <<>>
      /\ UNCHANGED <<settings, array, client, history>>
  BY DEF FinishWrite, put_off
<1> QED
  BY <1>1, SettleKeeps

LEMMA EndRemovingStep ==
  ASSUME BusInv, EndRemoving
  PROVE  BusInv'
<1>1. /\ Running("removing") /\ Settle(Tail(stack)) /\ unsubscribes_during_write' = <<>>
      /\ UNCHANGED <<settings, array, client, history>>
  BY DEF EndRemoving
<1> QED
  BY <1>1, SettleKeeps

LEMMA StartRemovingStep ==
  ASSUME BusInv, StartRemoving
  PROVE  BusInv'
<1> DEFINE f == Removing(unsubscribes_during_write)
<1> USE DEF BusInv, StartRemoving, settings, array, put_off, client, history
<1>1. WriteOrRemoving
  BY LoopOnTop DEF WriteOrRemoving
<1>2. f \in Frame /\ f.op = "removing" /\ f.rest = unsubscribes_during_write
  BY DEF Frame, RemovingFrame, Removing, TypeOK
<1> HIDE DEF f
<1>3. /\ Shape' /\ stack'[1] = f
      /\ \A k \in 1..Len(stack') : stack'[k].op # "client" => k = 1
      /\ \A o : o # "client" => (LoopRuns(o)' <=> o = "removing")
  <2>1. stack' = <<f>> \o Tail(stack)
    BY DEF f
  <2> QED
    BY <1>2, <2>1, LoopReplaced
<1>4. TypeOK' /\ ArrayOK' /\ KnownOK'
  BY DEF TypeOK, capacity, ArrayOK, KnownOK
<1>5. LoopRuns("write")
  BY LoopOnTop
<1>6. StateOK' /\ FullOK'
  BY <1>1, <1>3, <1>5 DEF StateOK, FullOK, WriteOrRemoving
<1>7. LoopOK'
  BY <1>2, <1>3 DEF LoopOK, RemovingOK
<1> QED
  BY <1>3, <1>4, <1>6, <1>7

LEMMA RemoveNextStep ==
  ASSUME BusInv, RemoveNext
  PROVE  BusInv'
<1> DEFINE s == Head(Top.rest)
           f == Removing(Tail(Top.rest))
<1> USE DEF BusInv, RemoveNext, settings, put_off, client, history
<1>1. /\ WriteOrRemoving /\ LoopRuns("removing") /\ ~ LoopRuns("closing")
      /\ Top \in RemovingFrame /\ Top = stack[1] /\ 1 \in 1..Len(stack) /\ Top.op = "removing"
  BY LoopOnTop, FrameFacts DEF WriteOrRemoving
<1>2. Top.rest \in Seq(Subscribers) /\ s \in Subscribers /\ Tail(Top.rest) \in Seq(Subscribers)
      /\ Elements(Top.rest) = {s} \cup Elements(Tail(Top.rest))
  <2>1. Top.rest \in Seq(Subscribers) /\ Len(Top.rest) > 0 /\ Len(Top.rest) \in Nat
    BY <1>1 DEF RemovingFrame
  <2>2. /\ Tail(Top.rest) \in Seq(Subscribers) /\ s = Top.rest[1] /\ Len(Tail(Top.rest)) = Len(Top.rest) - 1
        /\ \A k \in 1..Len(Top.rest) - 1 : Tail(Top.rest)[k] = Top.rest[k + 1]
    BY <2>1, PopFacts
  <2>3. ASSUME NEW i \in 1..Len(Top.rest)
        PROVE  Top.rest[i] = s \/ Top.rest[i] \in Elements(Tail(Top.rest))
    <3>1. CASE i = 1
      BY <2>2, <3>1
    <3>2. CASE i # 1
      <4>1. i - 1 \in 1..Len(Tail(Top.rest)) /\ (i - 1) + 1 = i
        BY <2>1, <2>2, <3>2
      <4> QED
        BY <2>2, <4>1 DEF Elements
    <3> QED
      BY <3>1, <3>2
  <2>4. ASSUME NEW i \in 1..Len(Tail(Top.rest))
        PROVE  Tail(Top.rest)[i] \in Elements(Top.rest)
    <3>1. i + 1 \in 1..Len(Top.rest)
      BY <2>1, <2>2
    <3> QED
      BY <2>1, <2>2, <3>1 DEF Elements
  <2>5. s \in Elements(Top.rest)
    BY <2>1, <2>2 DEF Elements
  <2>6. Elements(Top.rest) \subseteq {s} \cup Elements(Tail(Top.rest))
    BY <2>3 DEF Elements
  <2>7. Elements(Tail(Top.rest)) \subseteq Elements(Top.rest)
    BY <2>4 DEF Elements
  <2> QED
    BY <2>1, <2>2, <2>5, <2>6, <2>7
<1>3. f \in Frame /\ f.op = "removing" /\ f.rest = Tail(Top.rest)
  BY <1>2 DEF Frame, RemovingFrame, Removing
<1>4. /\ Shape' /\ stack'[1] = f
      /\ \A k \in 1..Len(stack') : stack'[k].op # "client" => k = 1
      /\ \A o : o # "client" => (LoopRuns(o)' <=> o = "removing")
  BY <1>3, LoopReplaced
<1>5. /\ ArrayType' /\ ArrayOK' /\ Full'
      /\ \A t \in Subscribers : is_subscribed(t)' <=> is_subscribed(t) /\ t # s
  BY <1>1, <1>2, FullWhileOpen, RemovedKeeps
<1> HIDE DEF f, s
<1>6. TypeOK' /\ KnownOK'
  BY <1>5 DEF TypeOK, ArrayType, capacity, KnownOK
<1>7. StateOK' /\ FullOK'
  BY <1>1, <1>4, <1>5 DEF StateOK, FullOK, Full, WriteOrRemoving
<1>8. RemovingOK(f, unsubscribes_during_write, subscribers_index')
  <2>1. RemovingOK(Top, unsubscribes_during_write, subscribers_index)
    BY <1>1 DEF LoopOK
  <2> QED
    BY <1>2, <1>3, <1>5, <2>1 DEF RemovingOK, is_subscribed
<1>9. LoopOK'
  BY <1>3, <1>4, <1>8 DEF LoopOK
<1> QED
  BY <1>4, <1>5, <1>6, <1>7, <1>9

LEMMA RemoveFailsStep ==
  ASSUME BusInv, RemoveFails
  PROVE  BusInv'
<1> USE DEF BusInv, RemoveFails, settings, array, put_off, client, history
<1>1. WriteOrRemoving
  BY LoopOnTop DEF WriteOrRemoving
<1>2. Shape' /\ LoopOK' /\ \A o : o # "client" => ~ LoopRuns(o)'
  BY LoopPopped
<1>3. TypeOK' /\ ArrayOK' /\ KnownOK'
  BY DEF TypeOK, capacity, ArrayOK, KnownOK
<1>4. StateOK' /\ FullOK'
  BY <1>1, <1>2 DEF StateOK, FullOK, WriteOrRemoving
<1> QED
  BY <1>2, <1>3, <1>4

LEMMA EndClosingStep ==
  ASSUME BusInv, EndClosing
  PROVE  BusInv'
<1> USE DEF BusInv, settings, put_off, client, history
<1>1. /\ Running("closing") /\ Top.i = Top.last /\ stack' = Tail(stack)
      /\ num_subscribers' = 0 /\ subscribers' = maybe_shrink_capacity(0, subscribers)
      /\ subscribers_index' = subscribers_index
      /\ UNCHANGED <<settings, state, put_off, client, history>>
  BY DEF EndClosing, SetArray, Array
<1>2. /\ LoopRuns("closing") /\ Top \in ClosingFrame /\ Top = stack[1] /\ 1 \in 1..Len(stack) /\ Top.op = "closing"
  BY <1>1, LoopOnTop, FrameFacts
<1>3. Shape' /\ LoopOK' /\ \A o : o # "client" => ~ LoopRuns(o)'
  BY <1>1, LoopPopped
<1>4. /\ num_subscribers \in Nat /\ num_subscribers <= Len(subscribers)
      /\ subscribers \in Seq(Subscribers \cup {NoSubscriber})
      /\ subscribers_index \in [Subscribers -> Int]
      /\ \A s \in Subscribers : subscribers_index[s] >= -1
  BY DEF TypeOK, capacity
<1>5. subscribers' = <<>>
  BY <1>1, <1>4, ShrinkFacts
<1>6. ASSUME NEW s \in Subscribers
      PROVE  subscribers_index[s] = -1
  <2>1. ClosingOK(Top, num_subscribers, subscribers, told)
    BY <1>2 DEF LoopOK
  <2>2. \A j \in 1..num_subscribers : subscribers[j] = NoSubscriber
    <3>1. Top.i = num_subscribers
      BY <1>1, <1>2, <1>4, <2>1 DEF ClosingOK, ClosingFrame
    <3> QED
      BY <1>4, <2>1, <3>1 DEF ClosingOK
  <2>3. ~ (subscribers_index[s] >= 0)
    BY <1>4, <2>2, BusAssumption DEF ArrayOK
  <2> QED
    BY <1>4, <2>3
<1>7. TypeOK' /\ KnownOK'
  <2>0. subscribers' \in Seq(Subscribers \cup {NoSubscriber}) /\ Len(subscribers') = 0
    BY <1>5
  <2>1. ArrayType'
    BY <1>1, <1>4, <1>6, <2>0 DEF ArrayType, capacity
  <2> QED
    BY <1>1, <2>1 DEF TypeOK, ArrayType, capacity, KnownOK
<1>a. ArrayOK'
  BY <1>1, <1>5, <1>6 DEF ArrayOK
<1>8. StateOK' /\ FullOK'
  BY <1>1, <1>2, <1>3 DEF StateOK, FullOK, WriteOrRemoving
<1> QED
  BY <1>3, <1>7, <1>a, <1>8

LEMMA CallOnCloseStep ==
  ASSUME BusInv, CallOnClose
  PROVE  BusInv' /\ Loops = {Top} /\ Loops' = {Top}
<1> DEFINE s == subscribers[Top.i + 1]
           f == Client("on_close", s)
<1> USE DEF BusInv, settings, array, put_off, client
<1>1. /\ Running("closing") /\ Top.i < Top.last /\ stack' = <<f>> \o stack
      /\ told' = [told EXCEPT ![s] = @ + 1]
      /\ UNCHANGED <<settings, state, array, put_off, client, got, at_close>>
  BY DEF CallOnClose
<1>2. /\ LoopRuns("closing") /\ Top \in ClosingFrame /\ Top = stack[1] /\ Len(stack) \in Nat \ {0} /\ Top.op = "closing"
      /\ stack \in Seq(Frame)
      /\ \A k \in 2..Len(stack) : stack[k].op = "client"
      /\ \A o : o # "client" => (LoopRuns(o) <=> o = "closing")
  BY <1>1, LoopOnTop, FrameFacts
<1>3. /\ ClosingOK(Top, num_subscribers, subscribers, told)
  BY <1>2 DEF LoopOK
<1>4. /\ num_subscribers \in Nat /\ num_subscribers <= Len(subscribers) /\ Len(subscribers) \in Nat
      /\ subscribers \in Seq(Subscribers \cup {NoSubscriber}) /\ told \in [Subscribers -> Nat]
  BY DEF TypeOK, capacity
<1>5. /\ Top.i \in Nat /\ Top.last = num_subscribers /\ Top.i < num_subscribers /\ s \in Subscribers
  <2>1. Top.i \in Nat /\ Top.last = num_subscribers /\ Top.i < num_subscribers
    BY <1>1, <1>2, <1>3 DEF ClosingOK, ClosingFrame
  <2>2. Top.i + 1 \in 1..num_subscribers /\ s # NoSubscriber
    BY <1>3, <1>4, <2>1 DEF ClosingOK
  <2> QED
    BY <1>4, <2>1, <2>2
<1>6. f \in Frame /\ f.op = "client" /\ f.why = "on_close" /\ f.who = s
  BY <1>5 DEF Frame, ClientFrame, Client
<1> HIDE DEF f
<1>7. Replaced(0, f)
  BY <1>1, <1>6, ReplaceFacts DEF Shape
<1>8. Shape'
  BY <1>1, <1>2, <1>6, <1>7, ReplaceShape
<1>9. \A o : o # "client" => (LoopRuns(o)' <=> o = "closing")
  <2>1. ASSUME NEW o, o # "client"
        PROVE  LoopRuns(o)' <=> f.op = o \/ \E k \in 0 + 1..Len(stack) : stack[k].op = o
    BY <1>7, ReplacedLoops
  <2>2. ASSUME NEW o
        PROVE  (\E k \in 0 + 1..Len(stack) : stack[k].op = o) <=> LoopRuns(o)
    BY DEF LoopRuns
  <2> QED
    BY <1>2, <1>6, <2>1, <2>2
<1>10. state = "Closed" /\ unsubscribes_during_write = <<>> /\ ~ WriteOrRemoving
  BY <1>2 DEF StateOK, WriteOrRemoving
<1>11. told' \in [Subscribers -> Nat] /\ told'[s] # 0 /\ \A t \in Subscribers : t # s => told'[t] = told[t]
  BY <1>1, <1>4, <1>5
<1> HIDE DEF s
<1>12. TypeOK' /\ ArrayOK'
  BY <1>1, <1>11 DEF TypeOK, capacity, ArrayOK
<1>13. StateOK' /\ FullOK'
  BY <1>1, <1>9, <1>10 DEF StateOK, FullOK, WriteOrRemoving
<1>14. subscribers_index[s] = Top.i /\ s = subscribers[Top.i + 1]
  BY <1>4, <1>5, BusAssumption DEF ArrayOK, s
<1>15. KnownOK'
  BY <1>1, <1>5, <1>11, <1>14 DEF KnownOK, ArrayOK
<1>16. ClosingOK(Top, num_subscribers, subscribers, told')
  <2>1. ASSUME NEW j \in Top.i + 2..num_subscribers
        PROVE  told'[subscribers[j]] = 0
    <3>1. j \in 1..Len(subscribers) /\ j \in 1..num_subscribers /\ ~ (j <= Top.i)
      BY <1>4, <1>5
    <3>2. subscribers[j] \in Subscribers
      BY <1>3, <1>4, <3>1 DEF ClosingOK
    <3>3. subscribers_index[subscribers[j]] = j - 1
      BY <3>1, <3>2, BusAssumption DEF ArrayOK
    <3>4. subscribers[j] # s
      BY <1>5, <1>14, <3>3
    <3> QED
      BY <1>3, <1>11, <3>2, <3>4 DEF ClosingOK
  <2> QED
    BY <1>3, <2>1 DEF ClosingOK
<1>17. ASSUME NEW k \in 1..Len(stack'), stack'[k].op # "client"
       PROVE  k = 2 /\ stack'[k] = Top
  BY <1>2, <1>6, <1>7, <1>17 DEF Replaced
<1>18. LoopOK'
  <2>1. stack'[1].who = s
    BY <1>6, <1>7 DEF Replaced
  <2>2. \A k \in 1..Len(stack') : stack'[k].op # "client" => k = 2 /\ stack'[k] = Top
    BY <1>17
  <2>3. stack'[1].who = subscribers[Top.i + 1] /\ told'[stack'[1].who] # 0
    BY <1>11, <1>14, <2>1
  <2>4. num_subscribers' = num_subscribers /\ subscribers' = subscribers
    BY <1>1
  <2> QED
    BY <1>2, <1>5, <1>16, <2>2, <2>3, <2>4, SMTT(60) DEF LoopOK
<1>19. Loops = {Top} /\ Loops' = {Top}
  <2>1. Elements(stack)' = {f} \cup {stack[k] : k \in 0 + 1..Len(stack)}
    BY <1>7, ReplacedElements
  <2>2. {stack[k] : k \in 0 + 1..Len(stack)} = Elements(stack)
    BY DEF Elements
  <2>3. Loops' = Loops
    BY <1>6, <2>1, <2>2 DEF Loops
  <2> QED
    BY <1>1, <2>3, LoopOnTop
<1> QED
  BY <1>19, <1>8, <1>12, <1>13, <1>15, <1>18

-----------------------------------------------------------------------------
(***************************************************************************)
(* Client code returns or raises.                                          *)
(***************************************************************************)
LEMMA ClientFacts ==
  ASSUME BusInv, Running("client")
  PROVE  /\ Len(stack) \in Nat \ {0} /\ stack \in Seq(Frame) /\ stack # <<>>
         /\ Top = stack[1] /\ Top \in ClientFrame
         /\ Top.op = "client"
<1>1. stack \in Seq(Frame) /\ stack # <<>> /\ Top.op = "client"
  BY DEF BusInv, Shape, StackOK, Running
<1>2. Len(stack) \in Nat \ {0} /\ Top = stack[1] /\ Top \in Frame
  BY <1>1, TopFacts DEF StackOK
<1> QED
  BY <1>1, <1>2, FrameFacts

LEMMA CallerPopped ==
  ASSUME BusInv, Running("client"), Top.why \in {"callback", "last_value"}, stack' = Tail(stack),
         UNCHANGED <<array, put_off, told, known>>
  PROVE  /\ Shape' /\ LoopOK'
         /\ \A o : o # "client" => (LoopRuns(o)' <=> LoopRuns(o))
         /\ Loops' = Loops /\ ~ LoopRuns("closing") /\ ~ LoopRuns("removing")
<1>1. /\ Len(stack) \in Nat \ {0} /\ stack \in Seq(Frame) /\ stack # <<>>
      /\ Top = stack[1] /\ Top.op = "client"
  BY ClientFacts
<1>2. Popped(1)
  BY <1>1, PopFacts DEF Popped
<1>3. Shape'
  BY <1>2, PopShape DEF BusInv
<1>4. ASSUME NEW o, o # "client"
      PROVE  LoopRuns(o)' <=> LoopRuns(o)
  <2>1. LoopRuns(o)' <=> \E k \in 1 + 1..Len(stack) : stack[k].op = o
    BY <1>2, PoppedLoops DEF BusInv
  <2>2. (\E k \in 1 + 1..Len(stack) : stack[k].op = o) <=> LoopRuns(o)
    BY <1>1, <1>4 DEF LoopRuns
  <2> QED
    BY <2>1, <2>2
<1>5. ~ LoopRuns("closing") /\ ~ LoopRuns("removing")
  <2>1. 1 \in 1..Len(stack)
    BY <1>1
  <2>2. Len(stack) > 1 => stack[2].op \in {"client", "write"}
    BY <1>1, <2>1 DEF BusInv, Shape, CallersOK, Calls
  <2>3. ASSUME NEW k \in 1..Len(stack), stack[k].op = "removing"
        PROVE  FALSE
    BY <1>1, <2>3 DEF BusInv, LoopOK
  <2>4. ASSUME NEW k \in 1..Len(stack), stack[k].op = "closing"
        PROVE  FALSE
    <3>1. k <= 2
      BY <2>4 DEF BusInv, LoopOK
    <3> QED
      BY <1>1, <2>2, <2>4, <3>1
  <2> QED
    BY <2>3, <2>4 DEF LoopRuns
<1>6. ASSUME NEW k \in 1..Len(stack'), stack'[k].op # "client"
      PROVE  stack'[k].op = "write" /\ WriteOK(stack'[k], num_subscribers', subscribers')
  <2>1. k + 1 \in 1..Len(stack) /\ stack'[k] = stack[k + 1]
    BY <1>1, <1>2 DEF Popped
  <2>2. stack[k + 1].op = "write"
    BY <1>1, <1>5, <1>6, <2>1, FrameFacts DEF LoopRuns
  <2> QED
    BY <2>1, <2>2 DEF BusInv, LoopOK, array
<1>7. LoopOK'
  BY <1>6 DEF LoopOK
<1>8. Loops' = Loops
  <2>1. Elements(stack)' = {stack[k] : k \in 1 + 1..Len(stack)}
    BY <1>2, PoppedElements DEF BusInv
  <2>2. ASSUME NEW k \in 1..Len(stack), stack[k].op # "client"
        PROVE  stack[k] \in {stack[j] : j \in 1 + 1..Len(stack)}
    <3>1. k \in 1 + 1..Len(stack)
      BY <1>1, <2>2
    <3> QED
      BY <3>1
  <2>3. {stack[j] : j \in 1 + 1..Len(stack)} \subseteq {stack[j] : j \in 1..Len(stack)}
    BY <1>1
  <2> QED
    BY <2>1, <2>2, <2>3 DEF Loops, Elements
<1> QED
  BY <1>3, <1>4, <1>5, <1>7, <1>8

LEMMA CallbackReturnsStep ==
  ASSUME BusInv, CallbackReturns
  PROVE  BusInv'
<1> USE DEF BusInv, CallbackReturns, settings, client, history
<1>1. Shape' /\ LoopOK' /\ \A o : o # "client" => (LoopRuns(o)' <=> LoopRuns(o))
  BY CallerPopped
<1>2. TypeOK' /\ ArrayOK' /\ KnownOK'
  BY DEF TypeOK, capacity, ArrayOK, KnownOK, array, put_off
<1>3. StateOK' /\ FullOK'
  BY <1>1 DEF StateOK, FullOK, WriteOrRemoving, array, put_off
<1> QED
  BY <1>1, <1>2, <1>3

LEMMA LastValueReturnsStep ==
  ASSUME BusInv, LastValueReturns
  PROVE  BusInv'
<1> USE DEF BusInv, LastValueReturns, settings, history
<1>1. Shape' /\ LoopOK' /\ \A o : o # "client" => (LoopRuns(o)' <=> LoopRuns(o))
  BY CallerPopped
<1>2. Top.who \in known
  <2>1. Top = stack[1] /\ Top.op = "client" /\ Len(stack) \in Nat \ {0}
    BY ClientFacts
  <2> QED
    BY <2>1 DEF Shape, CallersOK, Calls
<1>3. TypeOK' /\ ArrayOK' /\ KnownOK'
  BY <1>2 DEF TypeOK, capacity, ArrayOK, KnownOK, array, put_off
<1>4. StateOK' /\ FullOK'
  BY <1>1 DEF StateOK, FullOK, WriteOrRemoving, array, put_off
<1> QED
  BY <1>1, <1>3, <1>4

LEMMA LastValueRaisesStep ==
  ASSUME BusInv, LastValueRaises
  PROVE  BusInv'
<1> USE DEF BusInv, LastValueRaises, settings, client, history
<1>1. Shape' /\ LoopOK' /\ \A o : o # "client" => (LoopRuns(o)' <=> LoopRuns(o))
  BY CallerPopped
<1>2. TypeOK' /\ ArrayOK' /\ KnownOK'
  BY DEF TypeOK, capacity, ArrayOK, KnownOK, array, put_off
<1>3. StateOK' /\ FullOK'
  BY <1>1 DEF StateOK, FullOK, WriteOrRemoving, array, put_off
<1> QED
  BY <1>1, <1>2, <1>3

LEMMA TwoPopped ==
  ASSUME BusInv, Running("client"), Top.why \in {"callback", "on_close"}, stack' = Tail(Tail(stack)),
         known' = known
  PROVE  /\ Shape' /\ LoopOK'
         /\ \A o : o # "client" => ~ LoopRuns(o)'
         /\ Loops' = {}
         /\ LoopRuns(IF Top.why = "callback" THEN "write" ELSE "closing")
<1>1. /\ Len(stack) \in Nat \ {0} /\ stack \in Seq(Frame) /\ stack # <<>>
      /\ Top = stack[1] /\ Top.op = "client" /\ 1 \in 1..Len(stack)
  BY ClientFacts
<1>2. /\ Len(stack) > 1
      /\ stack[2].op = IF Top.why = "callback" THEN "write" ELSE "closing"
  BY <1>1 DEF BusInv, Shape, CallersOK, Calls
<1>3. Popped(2)
  <2>1. Client("on_close", Top.who) \in Frame
    BY <1>1, ClientFacts DEF Frame, ClientFrame, Client
  <2> QED
    BY <1>2, <2>1, ReplaceFacts DEF BusInv, Shape
<1>4. Shape'
  BY <1>3, PopShape DEF BusInv
<1>5. ASSUME NEW k \in 3..Len(stack)
      PROVE  stack[k].op = "client"
  BY <1>1, <1>2 DEF BusInv, Shape, OneLoop
<1>6. ASSUME NEW o, o # "client"
      PROVE  ~ LoopRuns(o)'
  <2>1. LoopRuns(o)' <=> \E k \in 2 + 1..Len(stack) : stack[k].op = o
    BY <1>3, PoppedLoops DEF BusInv
  <2>2. ~ \E k \in 2 + 1..Len(stack) : stack[k].op = o
    BY <1>5, <1>6
  <2> QED
    BY <2>1, <2>2
<1>7. LoopOK'
  BY <1>6 DEF LoopOK, LoopRuns
<1>8. 2 \in 1..Len(stack)
  BY <1>1, <1>2
<1>9. Loops' = {}
  BY <1>6 DEF Loops, LoopRuns, Elements
<1> QED
  BY <1>2, <1>4, <1>6, <1>7, <1>8, <1>9 DEF LoopRuns

LEMMA HandlerRaisesStep ==
  ASSUME BusInv, HandlerRaises
  PROVE  BusInv'
<1> USE DEF BusInv, HandlerRaises, settings, client, history, array, put_off
<1>1. /\ Shape' /\ LoopOK' /\ LoopRuns("write")
      /\ \A o : o # "client" => ~ LoopRuns(o)'
  BY TwoPopped
<1>2. TypeOK' /\ ArrayOK' /\ KnownOK'
  BY DEF TypeOK, capacity, StillSubscribed, ArrayOK, KnownOK
<1>3. StateOK' /\ FullOK'
  BY <1>1 DEF StateOK, FullOK, WriteOrRemoving
<1> QED
  BY <1>1, <1>2, <1>3

LEMMA OnCloseRaisesStep ==
  ASSUME BusInv, OnCloseRaises
  PROVE  BusInv'
<1> USE DEF BusInv, OnCloseRaises, settings, client, history, array, put_off
<1>1. /\ Shape' /\ LoopOK' /\ LoopRuns("closing")
      /\ \A o : o # "client" => ~ LoopRuns(o)'
  BY TwoPopped
<1>2. TypeOK' /\ ArrayOK' /\ KnownOK'
  BY DEF TypeOK, capacity, ArrayOK, KnownOK
<1>3. state = "Closed"
  BY <1>1 DEF StateOK
<1>4. StateOK' /\ FullOK'
  BY <1>1, <1>3 DEF StateOK, FullOK, WriteOrRemoving
<1> QED
  BY <1>1, <1>2, <1>4

LEMMA OnCloseReturnsStep ==
  ASSUME BusInv, OnCloseReturns
  PROVE  BusInv' /\ LoopRuns("closing") /\ LoopRuns("closing")'
<1> DEFINE s == Top.who
           loop == stack[2]
           f == [loop EXCEPT !.i = @ + 1]
           n == num_subscribers
<1> USE DEF BusInv, settings, put_off, client, history
<1>1. /\ Running("client") /\ Top.why = "on_close"
      /\ num_subscribers' = n
      /\ subscribers' = [subscribers EXCEPT ![subscribers_index[s] + 1] = NoSubscriber]
      /\ subscribers_index' = [subscribers_index EXCEPT ![s] = -1]
      /\ stack' = <<f>> \o Tail(Tail(stack))
      /\ UNCHANGED <<settings, state, put_off, client, history>>
  BY DEF OnCloseReturns, SetArray, Array
<1>2. /\ Len(stack) \in Nat \ {0} /\ stack \in Seq(Frame) /\ stack # <<>>
      /\ Top = stack[1] /\ Top.op = "client" /\ 1 \in 1..Len(stack) /\ s \in Subscribers
  BY <1>1, ClientFacts DEF ClientFrame
<1>3. Len(stack) > 1 /\ loop.op = "closing" /\ 2 \in 1..Len(stack)
  BY <1>1, <1>2 DEF Shape, CallersOK, Calls
<1>4. loop \in ClosingFrame
  BY <1>2, <1>3, FrameFacts
<1>5. /\ ClosingOK(loop, n, subscribers, told)
      /\ loop.i < n /\ s = subscribers[loop.i + 1]
  BY <1>2, <1>3 DEF LoopOK
<1>6. /\ f \in Frame /\ f.op = "closing" /\ f.i = loop.i + 1 /\ f.last = loop.last
      /\ loop.i \in Nat
  BY <1>4 DEF Frame, ClosingFrame
<1> HIDE DEF f, loop, s
<1>7. /\ n \in Nat /\ n <= Len(subscribers) /\ Len(subscribers) \in Nat
      /\ subscribers \in Seq(Subscribers \cup {NoSubscriber})
      /\ subscribers_index \in [Subscribers -> Int]
      /\ \A t \in Subscribers : subscribers_index[t] \in -1..Len(subscribers) - 1
  BY DEF TypeOK, capacity
<1>8. subscribers_index[s] = loop.i /\ loop.i + 1 \in 1..Len(subscribers)
  BY <1>2, <1>5, <1>6, <1>7, BusAssumption, SMTT(60) DEF ArrayOK
<1>9. /\ subscribers' \in Seq(Subscribers \cup {NoSubscriber}) /\ Len(subscribers') = Len(subscribers)
      /\ subscribers'[loop.i + 1] = NoSubscriber
      /\ \A j \in 1..Len(subscribers) : j # loop.i + 1 => subscribers'[j] = subscribers[j]
      /\ subscribers_index' \in [Subscribers -> Int]
      /\ subscribers_index'[s] = -1
      /\ \A t \in Subscribers : t # s => subscribers_index'[t] = subscribers_index[t]
  BY <1>1, <1>2, <1>7, <1>8
<1>10. ASSUME NEW k \in 3..Len(stack)
       PROVE  stack[k].op = "client"
  BY <1>2, <1>3 DEF Shape, OneLoop, loop
<1>11. Replaced(2, f)
  BY <1>1, <1>3, <1>6, ReplaceFacts DEF Shape
<1>12. Shape'
  BY <1>1, <1>6, <1>10, <1>11, ReplaceShape
<1>13. ASSUME NEW o, o # "client"
       PROVE  LoopRuns(o)' <=> o = "closing"
  <2>1. LoopRuns(o)' <=> f.op = o \/ \E k \in 2 + 1..Len(stack) : stack[k].op = o
    BY <1>11, ReplacedLoops
  <2> QED
    BY <1>6, <1>10, <1>13, <2>1
<1>14. LoopRuns("closing")
  BY <1>3 DEF LoopRuns, loop
<1>15. TypeOK'
  <2>1. ArrayType'
    <3>1. ASSUME NEW t \in Subscribers
          PROVE  subscribers_index'[t] \in -1..Len(subscribers') - 1
      <4>1. CASE t = s
        BY <1>7, <1>9, <4>1
      <4>2. CASE t # s
        BY <1>7, <1>9, <4>2
      <4> QED
        BY <4>1, <4>2
    <3> QED
      BY <1>1, <1>7, <1>9, <3>1 DEF ArrayType, capacity
  <2> QED
    BY <1>1, <2>1 DEF TypeOK, ArrayType, capacity
<1>16. ArrayOK'
  <2>1. ASSUME NEW j \in 1..Len(subscribers')
        PROVE  /\ subscribers'[j] # NoSubscriber => subscribers_index'[subscribers'[j]] = j - 1
               /\ j > n => subscribers'[j] = NoSubscriber
    <3>1. CASE j = loop.i + 1
      BY <1>9, <3>1
    <3>2. CASE j # loop.i + 1
      <4>1. subscribers'[j] = subscribers[j] /\ (subscribers[j] # NoSubscriber => subscribers[j] \in Subscribers)
        BY <1>7, <1>9, <3>2
      <4>2. /\ subscribers[j] # NoSubscriber => subscribers_index[subscribers[j]] = j - 1
            /\ j > n => subscribers[j] = NoSubscriber
        BY <1>9 DEF ArrayOK
      <4>3. subscribers[j] # NoSubscriber => subscribers[j] # s
        BY <1>6, <1>8, <3>2, <4>2
      <4> QED
        BY <1>9, <4>1, <4>2, <4>3
    <3> QED
      BY <3>1, <3>2
  <2>2. ASSUME NEW t \in Subscribers, subscribers_index'[t] >= 0
        PROVE  t \in known /\ subscribers_index'[t] < n /\ subscribers'[subscribers_index'[t] + 1] = t
    <3>1. t # s /\ subscribers_index'[t] = subscribers_index[t]
      BY <1>9, <2>2
    <3>2. t \in known /\ subscribers_index[t] < n /\ subscribers[subscribers_index[t] + 1] = t
      BY <2>2, <3>1 DEF ArrayOK
    <3>3. subscribers_index[t] \in Int /\ subscribers_index[t] >= 0
      BY <1>7, <2>2, <3>1
    <3>4. subscribers_index[t] + 1 \in 1..Len(subscribers) /\ subscribers_index[t] + 1 # loop.i + 1
      BY <1>5, <1>6, <1>7, <3>1, <3>2, <3>3
    <3> QED
      BY <1>9, <3>1, <3>2, <3>4
  <2> QED
    BY <1>1, <2>1, <2>2 DEF ArrayOK
<1>17. StateOK' /\ KnownOK' /\ FullOK'
  BY <1>1, <1>13, <1>14 DEF StateOK, FullOK, KnownOK, WriteOrRemoving
<1>18. ClosingOK(f, n, subscribers', told)
  <2>1. /\ loop.last = n /\ loop.i <= n
        /\ \A j \in 1..n : subscribers[j] = NoSubscriber <=> j <= loop.i
        /\ \A j \in loop.i + 2..n : told[subscribers[j]] = 0
    BY <1>5 DEF ClosingOK
  <2>2. ASSUME NEW j \in 1..n
        PROVE  subscribers'[j] = NoSubscriber <=> j <= loop.i + 1
    <3>1. CASE j = loop.i + 1
      BY <1>6, <1>9, <3>1
    <3>2. CASE j # loop.i + 1
      <4>1. j \in 1..Len(subscribers) /\ (j <= loop.i <=> j <= loop.i + 1)
        BY <1>6, <1>7, <3>2
      <4> QED
        BY <1>9, <2>1, <3>2, <4>1
    <3> QED
      BY <3>1, <3>2
  <2>3. ASSUME NEW j \in loop.i + 3..n
        PROVE  told[subscribers'[j]] = 0
    <3>1. j \in loop.i + 2..n /\ j \in 1..Len(subscribers) /\ j # loop.i + 1
      BY <1>6, <1>7
    <3> QED
      BY <1>9, <2>1, <3>1
  <2> QED
    BY <1>5, <1>6, <1>7, <2>1, <2>2, <2>3 DEF ClosingOK
<1>19. loop.i + 1 < n => told[subscribers'[(loop.i + 1) + 1]] = 0
  <2>1. \A j \in loop.i + 2..n : told[subscribers[j]] = 0
    BY <1>5 DEF ClosingOK
  <2> SUFFICES ASSUME loop.i + 1 < n
               PROVE  told[subscribers'[loop.i + 2]] = 0
    BY <1>6
  <2>2. loop.i + 2 \in loop.i + 2..n /\ loop.i + 2 \in 1..Len(subscribers) /\ loop.i + 2 # loop.i + 1
    BY <1>6, <1>7
  <2> QED
    BY <1>9, <2>1, <2>2
<1>20. ASSUME NEW k \in 1..Len(stack'), stack'[k].op # "client"
       PROVE  k = 1 /\ stack'[k] = f
  BY <1>2, <1>10, <1>11, <1>20 DEF Replaced
<1>21. LoopOK'
  <2>1. num_subscribers' = n /\ told' = told
    BY <1>1
  <2>2. f.i < n => told[subscribers'[f.i + 1]] = 0
    BY <1>6, <1>19
  <2> HIDE DEF n
  <2> QED
    BY <1>6, <1>18, <1>20, <2>1, <2>2 DEF LoopOK
<1> QED
  BY <1>12, <1>13, <1>14, <1>15, <1>16, <1>17, <1>21

-----------------------------------------------------------------------------
(***************************************************************************)
(* The first inductive invariant and what follows from it.                 *)
(***************************************************************************)
LEMMA InitBusInv ==
  ASSUME Init
  PROVE  BusInv
<1> USE DEF Init
<1>1. /\ subscribers \in Seq(Subscribers \cup {NoSubscriber}) /\ Len(subscribers) = 0
      /\ unsubscribes_during_write \in Seq(Subscribers) /\ Len(unsubscribes_during_write) = 0
      /\ stack \in Seq(Frame) /\ Len(stack) = 0
  OBVIOUS
<1>2. TypeOK
  <2>1. /\ num_subscribers \in 0..Len(subscribers)
        /\ subscribers_index \in [Subscribers -> Int]
        /\ \A s \in Subscribers : subscribers_index[s] \in -1..Len(subscribers) - 1
    BY <1>1
  <2>2. /\ last_value \in 0..writes /\ writes \in 0..MaxWrites
        /\ got \in [Subscribers -> 0..MaxWrites] /\ told \in [Subscribers -> Nat]
    BY BusAssumption
  <2> QED
    BY <1>1, <2>1, <2>2 DEF TypeOK, capacity
<1>3. Shape /\ StateOK /\ LoopOK
  BY <1>1 DEF Shape, StackOK, OneLoop, CallersOK, StateOK, LoopOK, LoopRuns, WriteOrRemoving
<1>4. ArrayOK /\ FullOK /\ KnownOK
  BY <1>1 DEF ArrayOK, FullOK, KnownOK
<1> QED
  BY <1>2, <1>3, <1>4 DEF BusInv

LEMMA NextBusInv ==
  ASSUME BusInv, [Next]_vars
  PROVE  BusInv'
<1>1. CASE ClientCall
  BY <1>1, SubscribeClosedStep, SubscribeStep, SubscribeAndSendStep, UnsubscribeStep,
     UnsubscribeDuringWriteStep, CloseStep, CloseDuringWriteStep, WriteStep, WriteRefusedStep
     DEF ClientCall
<1>2. CASE BusLoop
  BY <1>2, CallBackStep, FinishWriteStep, StartRemovingStep, RemoveNextStep, RemoveFailsStep,
     EndRemovingStep, CallOnCloseStep, EndClosingStep DEF BusLoop
<1>3. CASE ClientReturn
  BY <1>3, CallbackReturnsStep, HandlerRaisesStep, LastValueReturnsStep, LastValueRaisesStep,
     OnCloseReturnsStep, OnCloseRaisesStep DEF ClientReturn, CallbackRaises
<1>4. CASE UNCHANGED vars
  <2> USE <1>4 DEF vars, settings, array, put_off, client, history, BusInv
  <2>1. TypeOK' /\ Shape'
    BY DEF TypeOK, capacity, Shape, StackOK, OneLoop, CallersOK, Calls
  <2>2. StateOK' /\ ArrayOK' /\ FullOK' /\ KnownOK'
    BY DEF StateOK, ArrayOK, FullOK, KnownOK, LoopRuns, WriteOrRemoving
  <2>3. LoopOK'
    BY DEF LoopOK
  <2> QED
    BY <2>1, <2>2, <2>3
<1> QED
  BY <1>1, <1>2, <1>3, <1>4 DEF Next

LEMMA BusInvAlways == Spec => []BusInv
<1>1. Init => BusInv
  BY InitBusInv
<1>2. BusInv /\ [Next]_vars => BusInv'
  BY NextBusInv
<1> QED
  BY <1>1, <1>2, PTL DEF Spec

(* Every variable keeps its type: in particular num_subscribers stays     *)
(* within the capacity and every index within the array, whatever the     *)
(* callbacks do in the middle of a write.                                 *)
THEOREM BusTypeCorrect == Spec => []TypeOK
<1>1. BusInv => TypeOK
  BY DEF BusInv
<1> QED
  BY <1>1, BusInvAlways, PTL

LEMMA ArraysFromBusInv ==
  ASSUME BusInv
  PROVE  ArraysConsistent
<1> USE DEF BusInv
<1>1. subscribers_index \in [Subscribers -> Int] /\ num_subscribers \in Nat /\ num_subscribers <= Len(subscribers)
      /\ Len(subscribers) \in Nat
  BY DEF TypeOK, capacity
<1>2. ASSUME Frames("closing") = {}, "on_close" \notin manners.raises
      PROVE  Full
  BY <1>2 DEF Frames, FullOK, Full, LoopRuns
<1>3. ASSUME Full, NEW i \in 1..Len(subscribers)
      PROVE  IF i <= num_subscribers
             THEN subscribers[i] # NoSubscriber /\ subscribers_index[subscribers[i]] = i - 1
             ELSE subscribers[i] = NoSubscriber
  BY <1>1, <1>3 DEF Full, ArrayOK
<1>4. ASSUME NEW s \in Subscribers, is_subscribed(s)
      PROVE  s \in Elements(subscribers)
  <2>1. subscribers_index[s] + 1 \in 1..Len(subscribers) /\ subscribers[subscribers_index[s] + 1] = s
    BY <1>1, <1>4 DEF ArrayOK, is_subscribed
  <2> QED
    BY <2>1 DEF Elements
<1> QED
  BY <1>2, <1>3, <1>4 DEF ArraysConsistent, capacity

(* The invariant of bus.ml for its arrays survives every re-entrant        *)
(* subscription and removal, for any number of subscribers and writes and  *)
(* whatever clients do.                                                    *)
THEOREM BusArraysConsistent == Spec => []ArraysConsistent
<1>1. BusInv => ArraysConsistent
  BY ArraysFromBusInv
<1> QED
  BY <1>1, BusInvAlways, PTL

(* The slots a write captured keep their subscribers until it ends, which  *)
(* makes the unchecked reads of write safe.                                *)
THEOREM BusCapturedSlotsStable == Spec => []CapturedSlotsStable
<1>1. BusInv => CapturedSlotsStable
  BY DEF BusInv, LoopOK, WriteOK, CapturedSlotsStable, Frames
<1> QED
  BY <1>1, BusInvAlways, PTL

-----------------------------------------------------------------------------
(***************************************************************************)
(* Clients with manners: the unsubscribes that are put off are distinct    *)
(* and of subscribers still in the array, so that none of them fails.      *)
(***************************************************************************)
Once(list, index) == /\ \A i, j \in 1..Len(list) : list[i] = list[j] => i = j
                     /\ \A j \in 1..Len(list) : index[list[j]] >= 0

OnceOK ==
  manners.repeats = 0 =>
    /\ state = "Write_in_progress" => WriteOrRemoving
    /\ LoopRuns("write") => Once(unsubscribes_during_write, subscribers_index)
    /\ \A f \in Loops : f.op = "removing" => Once(f.rest, subscribers_index)

(* A closed bus is being emptied or is empty.                              *)
ClosedOK ==
  state = "Closed" /\ manners.raises \cap {"handler", "on_close"} = {} /\ manners.repeats = 0
  => WriteOrRemoving \/ LoopRuns("closing") \/ subscribers = <<>>

MannersInv == BusInv /\ OnceOK /\ ClosedOK

LEMMA OnceKept ==
  ASSUME MannersInv, Loops' = Loops, ~ LoopRuns("removing"),
         UNCHANGED <<manners, unsubscribes_during_write>>, state' \in {state, "Closed"},
         \A s \in Subscribers : subscribers_index[s] >= 0 => subscribers_index'[s] >= 0
  PROVE  OnceOK' /\ \A o : o # "client" => (LoopRuns(o)' <=> LoopRuns(o))
<1>1. \A o : o # "client" => (LoopRuns(o)' <=> LoopRuns(o))
  BY LoopsRun, LoopsRunNext
<1>2. unsubscribes_during_write \in Seq(Subscribers)
  BY DEF MannersInv, BusInv, TypeOK
<1>3. \A f \in Loops' : f.op # "removing"
  BY LoopsRun
<1>4. ASSUME Once(unsubscribes_during_write, subscribers_index)
      PROVE  Once(unsubscribes_during_write, subscribers_index')
  BY <1>2, <1>4 DEF Once
<1> QED
  BY <1>1, <1>3, <1>4 DEF MannersInv, OnceOK, WriteOrRemoving

LEMMA OnceGone ==
  ASSUME ~ LoopRuns("write")', ~ LoopRuns("removing")', state' # "Write_in_progress"
  PROVE  OnceOK'
<1>1. \A f \in Loops' : f.op # "removing"
  BY LoopsRunNext
<1> QED
  BY <1>1 DEF OnceOK

LEMMA CallsKeepManners ==
  ASSUME MannersInv, NEW s \in Subscribers,
         SubscribeClosed(s) \/ Subscribe(s) \/ SubscribeAndSend(s) \/ Unsubscribe(s)
  PROVE  OnceOK' /\ ClosedOK'
<1> USE DEF MannersInv
<1>0. BusInv /\ InClient /\ ~ LoopRuns("removing") /\ UNCHANGED <<manners, unsubscribes_during_write, state>>
  BY NoRemovingInClient DEF SubscribeClosed, Subscribe, SubscribeAndSend, AddSubscriber, Unsubscribe, settings, put_off
<1>1. CASE SubscribeClosed(s)
  <2>1. Loops' = Loops /\ subscribers_index' = subscribers_index /\ subscribers' = subscribers
    BY <1>1 DEF SubscribeClosed, array, Loops
  <2>2. OnceOK' /\ \A o : o # "client" => (LoopRuns(o)' <=> LoopRuns(o))
    BY <1>0, <2>1, OnceKept
  <2> QED
    BY <1>0, <2>1, <2>2 DEF ClosedOK, WriteOrRemoving
<1>2. CASE Subscribe(s) \/ SubscribeAndSend(s)
  <2>1. AddSubscriber(s) /\ state # "Closed"
    BY <1>2 DEF Subscribe, SubscribeAndSend, AddSubscriber
  <2>2. Loops' = Loops
    BY <1>2, SubscribeAndSendStep DEF Subscribe, Loops
  <2>3. num_subscribers \in Nat /\ subscribers_index \in [Subscribers -> Int]
    BY DEF BusInv, TypeOK
  <2>4. subscribers_index' = [subscribers_index EXCEPT ![s] = num_subscribers]
    BY <2>1, AddEffect DEF BusInv
  <2>5. OnceOK'
    BY <1>0, <2>2, <2>3, <2>4, OnceKept
  <2> QED
    BY <1>0, <2>1, <2>5 DEF ClosedOK
<1>3. CASE Unsubscribe(s)
  <2>1. state = "Ok_to_write" /\ Loops' = Loops /\ Loops = {}
    BY <1>3, OnlyClients DEF Unsubscribe, Loops
  <2>2. ~ LoopRuns("write")' /\ ~ LoopRuns("removing")'
    BY <2>1, LoopsRunNext
  <2> QED
    BY <1>0, <2>1, <2>2, OnceGone DEF ClosedOK
<1> QED
  BY <1>1, <1>2, <1>3

LEMMA UnsubscribeDuringWriteManners ==
  ASSUME MannersInv, NEW s \in Subscribers, UnsubscribeDuringWrite(s)
  PROVE  OnceOK' /\ ClosedOK'
<1> DEFINE list == unsubscribes_during_write
           same == {i \in 1..Len(list) : list[i] = s}
<1> USE DEF MannersInv
<1>1. /\ InClient /\ is_subscribed(s) /\ state = "Write_in_progress"
      /\ Cardinality(same) <= manners.repeats
      /\ list' = <<s>> \o list
      /\ UNCHANGED <<manners, state, subscribers, subscribers_index, stack>>
  BY DEF UnsubscribeDuringWrite, settings, array
<1>2. list \in Seq(Subscribers) /\ ~ LoopRuns("removing")
  BY <1>1, NoRemovingInClient DEF BusInv, TypeOK
<1>3. Loops' = Loops /\ \A o : o # "client" => (LoopRuns(o)' <=> LoopRuns(o))
  BY <1>1 DEF Loops, LoopRuns
<1>4. ASSUME manners.repeats = 0, Once(list, subscribers_index)
      PROVE  Once(list', subscribers_index)
  <2> HIDE DEF same
  <2>0. same \in SUBSET (1..Len(list)) /\ Len(list) \in Int
    BY <1>2 DEF same
  <2>00. IsFiniteSet(1..Len(list))
    BY <2>0, FS_Interval
  <2>01. IsFiniteSet(same)
    BY <2>0, <2>00, FS_Subset
  <2>1. IsFiniteSet(same) /\ Cardinality(same) \in Nat
    BY <2>01, FS_CardinalityType
  <2>2. Cardinality(same) = 0
    BY <1>1, <1>4, <2>1
  <2>a. same = {}
    BY <2>1, <2>2, FS_EmptySet
  <2>3. /\ list' \in Seq(Subscribers) /\ Len(list') = Len(list) + 1 /\ list'[1] = s
        /\ \A k \in 2..Len(list) + 1 : list'[k] = list[k - 1]
    BY <1>1, <1>2, PushFacts
  <2> HIDE DEF list
  <2>4. ASSUME NEW i \in 1..Len(list'), NEW j \in 1..Len(list'), list'[i] = list'[j]
        PROVE  i = j
    <3>1. ASSUME NEW k \in 2..Len(list')
          PROVE  k - 1 \in 1..Len(list) /\ list'[k] = list[k - 1] /\ list'[k] # s
      BY <1>2, <2>a, <2>3 DEF same
    <3>2. CASE i = 1 \/ j = 1
      BY <1>2, <2>3, <2>4, <3>1, <3>2
    <3>3. CASE i # 1 /\ j # 1
      <4>1. i - 1 = j - 1
        BY <1>2, <1>4, <2>3, <2>4, <3>1, <3>3, SMTT(60) DEF Once
      <4> QED
        BY <4>1, <2>3, <1>2
    <3> QED
      BY <3>2, <3>3
  <2>5. ASSUME NEW i \in 1..Len(list')
        PROVE  subscribers_index[list'[i]] >= 0
    <3>1. CASE i = 1
      BY <1>1, <2>3, <3>1 DEF is_subscribed
    <3>2. CASE i # 1
      <4>1. i - 1 \in 1..Len(list) /\ list'[i] = list[i - 1]
        BY <1>2, <2>3, <3>2
      <4> QED
        BY <1>4, <4>1 DEF Once
    <3> QED
      BY <3>1, <3>2
  <2> QED
    BY <2>4, <2>5 DEF Once
<1>5. \A f \in Loops' : f.op # "removing"
  BY <1>2, <1>3, LoopsRun
<1>6. OnceOK'
  BY <1>1, <1>3, <1>4, <1>5 DEF OnceOK, WriteOrRemoving
<1> QED
  BY <1>1, <1>6 DEF ClosedOK

LEMMA ClosingKeepsManners ==
  ASSUME MannersInv, Close \/ CloseDuringWrite \/ Write \/ WriteRefused
  PROVE  OnceOK' /\ ClosedOK'
<1> USE DEF MannersInv
<1>0. UNCHANGED <<manners, unsubscribes_during_write, subscribers, subscribers_index>> /\ InClient
  BY DEF Close, CloseDuringWrite, Write, WriteRefused, settings, array, put_off
<1>1. CASE Close
  <2>1. Loops' = {Closing(num_subscribers)} /\ state' = "Closed"
    BY <1>1, CloseStep DEF Close
  <2>2. ~ LoopRuns("write")' /\ ~ LoopRuns("removing")' /\ LoopRuns("closing")'
    BY <2>1, LoopsRunNext DEF Closing
  <2> QED
    BY <2>1, <2>2, OnceGone DEF ClosedOK
<1>2. CASE CloseDuringWrite
  <2>1. /\ Loops' = Loops /\ ~ LoopRuns("removing") /\ state' = "Closed" /\ state = "Write_in_progress"
    BY <1>0, <1>2, NoRemovingInClient DEF CloseDuringWrite, Loops
  <2>2. OnceOK' /\ \A o : o # "client" => (LoopRuns(o)' <=> LoopRuns(o))
    BY <1>0, <2>1, OnceKept
  <2>3. ClosedOK'
    BY <1>0, <2>1, <2>2 DEF ClosedOK, OnceOK, WriteOrRemoving
  <2> QED
    BY <2>2, <2>3
<1>3. CASE Write
  <2>1. state = "Ok_to_write" /\ unsubscribes_during_write = <<>>
    BY <1>3 DEF Write, BusInv, StateOK
  <2>2. CASE num_subscribers = 0
    <3>1. Loops' = {} /\ state' = state
      BY <1>3, <2>2, WriteStep DEF Write
    <3>2. ~ LoopRuns("write")' /\ ~ LoopRuns("removing")'
      BY <3>1, LoopsRunNext
    <3> QED
      BY <2>1, <3>1, <3>2, OnceGone DEF ClosedOK
  <2>3. CASE num_subscribers # 0
    <3>1. Loops' = {Writing(SubSeq(subscribers, 1, num_subscribers))}
      BY <1>3, <2>3, WriteStep
    <3>2. state' = "Write_in_progress"
      BY <1>3, <2>3 DEF Write, BusInv, TypeOK
    <3>3. LoopRuns("write")' /\ \A f \in Loops' : f.op # "removing"
      BY <3>1, LoopsRunNext DEF Writing
    <3>4. Once(<<>>, subscribers_index)
      BY DEF Once
    <3> QED
      BY <1>0, <2>1, <3>2, <3>3, <3>4 DEF OnceOK, ClosedOK, WriteOrRemoving
  <2> QED
    BY <2>2, <2>3
<1>4. CASE WriteRefused
  <2>1. Loops' = Loops /\ ~ LoopRuns("removing") /\ state' = state
    BY <1>0, <1>4, NoRemovingInClient DEF WriteRefused, Loops
  <2>2. OnceOK' /\ \A o : o # "client" => (LoopRuns(o)' <=> LoopRuns(o))
    BY <1>0, <2>1, OnceKept
  <2> QED
    BY <1>0, <2>1, <2>2 DEF ClosedOK, WriteOrRemoving
<1> QED
  BY <1>1, <1>2, <1>3, <1>4

LEMMA SettleKeepsManners ==
  ASSUME MannersInv, NEW op \in {"write", "removing"}, Running(op), Settle(Tail(stack)), known' = known
  PROVE  OnceOK' /\ ClosedOK'
<1> USE DEF MannersInv
<1>1. CASE state = "Closed"
  <2>1. stack' = <<Closing(num_subscribers)>> \o Tail(stack) /\ state' = "Closed"
    BY <1>1 DEF Settle
  <2>2. Closing(num_subscribers) \in Frame /\ Closing(num_subscribers).op = "closing"
    BY DEF Closing, Frame, ClosingFrame, BusInv, TypeOK
  <2>3. Loops' = {Closing(num_subscribers)}
    BY <2>1, <2>2, LoopReplaced
  <2>4. ~ LoopRuns("write")' /\ ~ LoopRuns("removing")' /\ LoopRuns("closing")'
    BY <2>2, <2>3, LoopsRunNext
  <2> QED
    BY <2>1, <2>4, OnceGone DEF ClosedOK
<1>2. CASE state # "Closed"
  <2>1. stack' = Tail(stack) /\ state' = "Ok_to_write"
    BY <1>2 DEF Settle
  <2>2. Loops' = {}
    BY <2>1, LoopPopped
  <2>3. ~ LoopRuns("write")' /\ ~ LoopRuns("removing")'
    BY <2>2, LoopsRunNext
  <2> QED
    BY <2>1, <2>3, OnceGone DEF ClosedOK
<1> QED
  BY <1>1, <1>2

LEMMA LoopsKeepManners ==
  ASSUME MannersInv, BusLoop
  PROVE  OnceOK' /\ ClosedOK'
<1> USE DEF MannersInv
<1>1. CASE CallBack
  <2>1. /\ Loops = {Top} /\ Loops' = {[Top EXCEPT !.i = @ + 1]} /\ Top.op = "write" /\ Top \in Frame
        /\ UNCHANGED <<manners, state, unsubscribes_during_write, subscribers_index>>
    BY <1>1, CallBackStep, LoopOnTop DEF CallBack, settings, array, put_off
  <2>2. [Top EXCEPT !.i = @ + 1].op = "write"
    BY <2>1, FrameFacts DEF WriteFrame
  <2>3. LoopRuns("write")' /\ LoopRuns("write") /\ \A f \in Loops' : f.op # "removing"
    BY <2>1, <2>2, LoopsRunNext, LoopsRun
  <2> QED
    BY <2>1, <2>3 DEF OnceOK, ClosedOK, WriteOrRemoving
<1>2. CASE FinishWrite \/ EndRemoving
  BY <1>2, SettleKeepsManners DEF FinishWrite, EndRemoving, client
<1>3. CASE StartRemoving
  <2> DEFINE f == Removing(unsubscribes_during_write)
  <2>1. /\ Running("write") /\ stack' = <<f>> \o Tail(stack)
        /\ UNCHANGED <<manners, state, unsubscribes_during_write, subscribers_index, known>>
    BY <1>3 DEF StartRemoving, settings, array, put_off, client
  <2>2. f \in Frame /\ f.op = "removing" /\ f.rest = unsubscribes_during_write
    BY DEF Frame, RemovingFrame, Removing, BusInv, TypeOK
  <2> HIDE DEF f
  <2>3. Loops' = {f}
    BY <2>1, <2>2, LoopReplaced
  <2>4. LoopRuns("write")
    BY <2>1, LoopOnTop
  <2>5. LoopRuns("removing")' /\ ~ LoopRuns("write")'
    BY <2>2, <2>3, LoopsRunNext
  <2> QED
    BY <2>1, <2>2, <2>3, <2>4, <2>5 DEF OnceOK, ClosedOK, WriteOrRemoving
<1>4. CASE RemoveNext
  <2> DEFINE s == Head(Top.rest)
             f == Removing(Tail(Top.rest))
  <2>1. /\ Running("removing") /\ stack' = <<f>> \o Tail(stack) /\ Top.rest # <<>>
        /\ is_subscribed(s) /\ SetArray(Removed(s))
        /\ UNCHANGED <<manners, state, unsubscribes_during_write, known>>
    BY <1>4 DEF RemoveNext, settings, put_off, client
  <2>2. Top \in RemovingFrame /\ Loops = {Top} /\ Top.op = "removing" /\ LoopRuns("removing")
    BY <2>1, LoopOnTop, FrameFacts
  <2>3. Top.rest \in Seq(Subscribers) /\ Len(Top.rest) > 0
    BY <2>1, <2>2 DEF RemovingFrame
  <2>4. /\ Tail(Top.rest) \in Seq(Subscribers) /\ s = Top.rest[1] /\ Len(Tail(Top.rest)) = Len(Top.rest) - 1
        /\ \A k \in 1..Len(Top.rest) - 1 : Tail(Top.rest)[k] = Top.rest[k + 1]
    BY <2>3, PopFacts
  <2>5. s \in Subscribers
    BY <2>3, <2>4
  <2>6. \A t \in Subscribers : subscribers_index'[t] >= 0 <=> subscribers_index[t] >= 0 /\ t # s
    BY <2>1, <2>2, <2>5, FullWhileOpen, RemovedKeeps DEF BusInv, is_subscribed, WriteOrRemoving
  <2>7. f \in Frame /\ f.op = "removing" /\ f.rest = Tail(Top.rest)
    BY <2>4 DEF Frame, RemovingFrame, Removing
  <2> HIDE DEF f, s
  <2>8. Loops' = {f}
    BY <2>1, <2>7, LoopReplaced
  <2>9. LoopRuns("removing")' /\ ~ LoopRuns("write")'
    BY <2>7, <2>8, LoopsRunNext
  <2>10. ASSUME Once(Top.rest, subscribers_index)
         PROVE  Once(Tail(Top.rest), subscribers_index')
    <3> DEFINE l == Top.rest
               t == Tail(Top.rest)
    <3>1. /\ \A i, j \in 1..Len(l) : l[i] = l[j] => i = j
          /\ \A j \in 1..Len(l) : subscribers_index[l[j]] >= 0
      BY <2>10 DEF Once
    <3>2. ASSUME NEW i \in 1..Len(t)
          PROVE  i + 1 \in 1..Len(l) /\ t[i] = l[i + 1] /\ 1 \in 1..Len(l) /\ l[i + 1] \in Subscribers
      <4>1. i + 1 \in 1..Len(l) /\ t[i] = l[i + 1] /\ 1 \in 1..Len(l)
        BY <2>3, <2>4
      <4> QED
        BY <2>3, <4>1
    <3>3. ASSUME NEW i \in 1..Len(t), NEW j \in 1..Len(t), t[i] = t[j]
          PROVE  i = j
      <4>1. i + 1 = j + 1
        BY <3>1, <3>2, <3>3
      <4> QED
        BY <4>1
    <3>4. ASSUME NEW i \in 1..Len(t)
          PROVE  subscribers_index'[t[i]] >= 0
      <4>1. l[i + 1] # l[1]
        <5>1. i + 1 # 1
          OBVIOUS
        <5> QED
          BY <3>1, <3>2, <5>1
      <4> QED
        BY <2>4, <2>6, <3>1, <3>2, <4>1
    <3> HIDE DEF t
    <3>5. Once(t, subscribers_index')
      BY <3>3, <3>4 DEF Once
    <3> QED
      BY <3>5 DEF t
  <2>11. OnceOK'
    BY <2>1, <2>2, <2>7, <2>8, <2>9, <2>10 DEF OnceOK, WriteOrRemoving
  <2> QED
    BY <2>9, <2>11 DEF ClosedOK, WriteOrRemoving
<1>5. CASE RemoveFails
  <2>1. Running("removing") /\ Top.rest # <<>> /\ ~ is_subscribed(Head(Top.rest)) /\ manners' = manners
    BY <1>5 DEF RemoveFails, settings
  <2>2. Top \in RemovingFrame /\ Loops = {Top} /\ Top.op = "removing"
    BY <2>1, LoopOnTop, FrameFacts
  <2>3. Top.rest \in Seq(Subscribers) /\ 1 \in 1..Len(Top.rest) /\ Head(Top.rest) = Top.rest[1]
    BY <2>1, <2>2 DEF RemovingFrame
  <2>4. manners.repeats # 0
    BY <2>1, <2>2, <2>3 DEF OnceOK, Once, is_subscribed
  <2> QED
    BY <2>1, <2>4 DEF OnceOK, ClosedOK
<1>6. CASE CallOnClose
  <2>1. /\ Loops = {Top} /\ Loops' = {Top} /\ Top.op = "closing" /\ state' = state /\ LoopRuns("closing")
    BY <1>6, CallOnCloseStep, LoopOnTop DEF CallOnClose
  <2>2. ~ LoopRuns("write")' /\ ~ LoopRuns("removing")' /\ LoopRuns("closing")'
    BY <2>1, LoopsRunNext
  <2>3. state' = "Closed"
    BY <2>1 DEF BusInv, StateOK
  <2> QED
    BY <2>2, <2>3, OnceGone DEF ClosedOK
<1>7. CASE EndClosing
  <2>1. /\ Running("closing") /\ stack' = Tail(stack) /\ state' = state /\ known' = known
        /\ subscribers' = maybe_shrink_capacity(0, subscribers)
    BY <1>7 DEF EndClosing, SetArray, Array, client
  <2>2. Loops' = {} /\ LoopRuns("closing")
    BY <2>1, LoopPopped, LoopOnTop
  <2>3. ~ LoopRuns("write")' /\ ~ LoopRuns("removing")'
    BY <2>2, LoopsRunNext
  <2>4. subscribers' = <<>>
    BY <2>1, ShrinkFacts DEF BusInv, TypeOK
  <2>5. state' = "Closed"
    BY <2>1, <2>2 DEF BusInv, StateOK
  <2> QED
    BY <2>3, <2>4, <2>5, OnceGone DEF ClosedOK
<1> QED
  BY <1>1, <1>2, <1>3, <1>4, <1>5, <1>6, <1>7 DEF BusLoop

LEMMA ReturnsKeepManners ==
  ASSUME MannersInv, ClientReturn
  PROVE  OnceOK' /\ ClosedOK'
<1> USE DEF MannersInv
<1>1. CASE CallbackReturns \/ LastValueReturns \/ LastValueRaises
  <2>1. /\ Running("client") /\ Top.why \in {"callback", "last_value"} /\ stack' = Tail(stack)
        /\ UNCHANGED <<array, put_off, told, known, manners, state>>
    BY <1>1 DEF CallbackReturns, LastValueReturns, LastValueRaises, settings, client, history
  <2>2. Loops' = Loops /\ ~ LoopRuns("removing")
    BY <2>1, CallerPopped
  <2>3. UNCHANGED <<subscribers, subscribers_index, unsubscribes_during_write>>
    BY <2>1 DEF array, put_off
  <2>4. OnceOK' /\ \A o : o # "client" => (LoopRuns(o)' <=> LoopRuns(o))
    BY <2>1, <2>2, <2>3, OnceKept
  <2> QED
    BY <2>1, <2>3, <2>4 DEF ClosedOK, WriteOrRemoving
<1>2. CASE HandlerRaises \/ OnCloseRaises
  <2>1. /\ Running("client") /\ Top.why \in {"callback", "on_close"} /\ stack' = Tail(Tail(stack))
        /\ known' = known /\ manners' = manners /\ manners.raises \cap {"handler", "on_close"} # {}
    BY <1>2 DEF HandlerRaises, OnCloseRaises, client, settings
  <2>2. /\ Loops' = {}
        /\ OnCloseRaises => LoopRuns("closing")
    BY <2>1, TwoPopped DEF OnCloseRaises
  <2>3. state' = "Closed"
    BY <1>2, <2>2 DEF HandlerRaises, OnCloseRaises, BusInv, StateOK
  <2>4. ~ LoopRuns("write")' /\ ~ LoopRuns("removing")'
    BY <2>2, LoopsRunNext
  <2> QED
    BY <2>1, <2>3, <2>4, OnceGone DEF ClosedOK
<1>3. CASE OnCloseReturns
  <2>1. BusInv' /\ LoopRuns("closing") /\ LoopRuns("closing")' /\ state' = state
    BY <1>3, OnCloseReturnsStep DEF OnCloseReturns
  <2>2. state' = "Closed"
    BY <2>1 DEF BusInv, StateOK
  <2>3. ~ LoopRuns("write")' /\ ~ LoopRuns("removing")'
    BY <2>1, OneKindOfLoopNext DEF BusInv
  <2> QED
    BY <2>1, <2>2, <2>3, OnceGone DEF ClosedOK
<1> QED
  BY <1>1, <1>2, <1>3 DEF ClientReturn, CallbackRaises

LEMMA MannersInvAlways == Spec => []MannersInv
<1>1. Init => MannersInv
  <2> SUFFICES ASSUME Init
               PROVE  MannersInv
    OBVIOUS
  <2>1. Loops = {} /\ ~ LoopRuns("write")
    BY DEF Init, Loops, LoopRuns, Elements
  <2> QED
    BY <2>1, InitBusInv DEF MannersInv, OnceOK, ClosedOK, Init
<1>2. MannersInv /\ [Next]_vars => MannersInv'
  <2> SUFFICES ASSUME MannersInv, [Next]_vars
               PROVE  MannersInv'
    OBVIOUS
  <2>1. BusInv'
    BY NextBusInv DEF MannersInv
  <2>2. CASE ClientCall
    BY <2>1, <2>2, CallsKeepManners, UnsubscribeDuringWriteManners, ClosingKeepsManners DEF ClientCall, MannersInv
  <2>3. CASE BusLoop
    BY <2>1, <2>3, LoopsKeepManners DEF MannersInv
  <2>4. CASE ClientReturn
    BY <2>1, <2>4, ReturnsKeepManners DEF MannersInv
  <2>5. CASE UNCHANGED vars
    BY <2>1, <2>5 DEF MannersInv, OnceOK, ClosedOK, Once, Loops, LoopRuns, WriteOrRemoving, Elements,
                vars, settings, array, put_off
  <2> QED
    BY <2>2, <2>3, <2>4, <2>5 DEF Next
<1> QED
  BY <1>1, <1>2, PTL DEF Spec

(* The outermost call never leaves the bus in Write_in_progress, if no     *)
(* client repeats an unsubscribe within a write: the callbacks may raise,  *)
(* and so may the handlers and the on_close functions.                     *)
THEOREM BusNeverStuckWriting == Spec => []NeverStuckWriting
<1>1. MannersInv => NeverStuckWriting
  BY DEF MannersInv, OnceOK, NeverStuckWriting, AlwaysLeavesWriting, WriteOrRemoving, LoopRuns
<1> QED
  BY <1>1, MannersInvAlways, PTL

-----------------------------------------------------------------------------
(***************************************************************************)
(* The subscribers a write has still to call.                              *)
(***************************************************************************)
PendingIn(f) == {f.callbacks[i] : i \in f.i + 1..Len(f.callbacks)}

Pending == UNION {PendingIn(f) : f \in {g \in Loops : g.op = "write"}}

LEMMA PendingNow == UNION {PendingOf(k) : k \in Frames("write")} = Pending
<1>1. \A k \in Frames("write") : stack[k] \in Loops /\ stack[k].op = "write" /\ PendingOf(k) = PendingIn(stack[k])
  BY DEF Frames, Loops, Elements, PendingOf, PendingIn
<1>2. \A f \in Loops : f.op = "write" => \E k \in Frames("write") : stack[k] = f
  BY DEF Frames, Loops, Elements
<1> QED
  BY <1>1, <1>2 DEF Pending

LEMMA PendingNext == (UNION {PendingOf(k) : k \in Frames("write")})' = Pending'
<1>1. \A k \in Frames("write")' : stack'[k] \in Loops' /\ stack'[k].op = "write" /\ PendingOf(k)' = PendingIn(stack'[k])
  BY DEF Frames, Loops, Elements, PendingOf, PendingIn
<1>2. \A f \in Loops' : f.op = "write" => \E k \in Frames("write")' : stack'[k] = f
  BY DEF Frames, Loops, Elements
<1>3. Pending' = UNION {PendingIn(f) : f \in {g \in Loops' : g.op = "write"}}
  BY DEF Pending, PendingIn
<1>4. (UNION {PendingOf(k) : k \in Frames("write")})' = UNION {PendingOf(k)' : k \in Frames("write")'}
  OBVIOUS
<1> QED
  BY <1>1, <1>2, <1>3, <1>4

LEMMA PendingOfLoop ==
  ASSUME NEW f, Loops = {f}
  PROVE  Pending = IF f.op = "write" THEN PendingIn(f) ELSE {}
  BY DEF Pending

LEMMA PendingOfLoopNext ==
  ASSUME NEW f, Loops' = {f}
  PROVE  Pending' = IF f.op = "write" THEN PendingIn(f) ELSE {}
  BY DEF Pending, PendingIn

LEMMA NothingPending ==
  ASSUME BusInv, NEW op \in {"write", "removing", "closing"}, Running(op),
         op = "write" => Top.i = Len(Top.callbacks)
  PROVE  Pending = {}
<1>1. Loops = {Top} /\ Top.op = op /\ Top \in Frame
  BY LoopOnTop
<1>2. op = "write" => PendingIn(Top) = {}
  BY <1>1, FrameFacts DEF PendingIn, WriteFrame
<1> QED
  BY <1>1, <1>2 DEF Pending

LEMMA PendingSubscribed ==
  ASSUME BusInv
  PROVE  Pending \subseteq {t \in Subscribers : subscribers_index[t] >= 0}
<1>1. ASSUME NEW f \in Loops, f.op = "write", NEW i \in f.i + 1..Len(f.callbacks)
      PROVE  f.callbacks[i] \in {t \in Subscribers : subscribers_index[t] >= 0}
  <2>1. PICK k \in 1..Len(stack) : f = stack[k]
    BY <1>1 DEF Loops, Elements
  <2>2. f \in WriteFrame
    BY <1>1, <2>1, FrameFacts DEF BusInv, Shape, StackOK
  <2>3. WriteOK(f, num_subscribers, subscribers)
    BY <1>1, <2>1 DEF BusInv, LoopOK
  <2>4. num_subscribers \in Nat /\ num_subscribers <= Len(subscribers) /\ Len(subscribers) \in Nat
    BY DEF BusInv, TypeOK, capacity
  <2>5. i \in 1..Len(f.callbacks) /\ i \in 1..Len(subscribers) /\ f.callbacks \in Seq(Subscribers)
    BY <2>2, <2>3, <2>4 DEF WriteFrame, WriteOK
  <2>6. f.callbacks[i] \in Subscribers /\ f.callbacks[i] = subscribers[i]
    BY <2>3, <2>5 DEF WriteOK
  <2>7. subscribers_index[subscribers[i]] = i - 1
    BY <2>5, <2>6, BusAssumption DEF BusInv, ArrayOK
  <2> QED
    BY <2>5, <2>6, <2>7
<1> QED
  BY <1>1 DEF Pending, PendingIn

LEMMA CallBackPending ==
  ASSUME BusInv, CallBack
  PROVE  LET s == Top.callbacks[Top.i + 1]
         IN s \in Subscribers /\ s \in Pending /\ Pending' = Pending \ {s} /\ got' = [got EXCEPT ![s] = writes]
<1> DEFINE cb == Top.callbacks
           s == cb[Top.i + 1]
           g == [Top EXCEPT !.i = @ + 1]
<1>1. /\ Running("write") /\ Loops = {Top} /\ Loops' = {g} /\ Top.op = "write" /\ Top \in WriteFrame
      /\ Top.i < Len(cb) /\ got' = [got EXCEPT ![s] = writes] /\ Top = stack[1] /\ 1 \in 1..Len(stack)
  BY CallBackStep, LoopOnTop, FrameFacts DEF CallBack
<1>2. /\ cb \in Seq(Subscribers) /\ Top.i \in Nat /\ Len(cb) \in Nat
      /\ g.op = "write" /\ g.callbacks = cb /\ g.i = Top.i + 1
  BY <1>1 DEF WriteFrame
<1> HIDE DEF g
<1>3. Pending = PendingIn(Top)
  BY <1>1 DEF Pending
<1>4. Pending' = PendingIn(g)
  <2>1. \A f : Loops' = {f} => Pending' = IF f.op = "write" THEN PendingIn(f) ELSE {}
    BY DEF Pending, PendingIn
  <2> QED
    BY <1>1, <1>2, <2>1
<1> HIDE DEF cb
<1>5. \A i, j \in 1..Len(cb) : cb[i] = cb[j] => i = j
  <2>1. Len(cb) <= num_subscribers /\ \A j \in 1..Len(cb) : cb[j] = subscribers[j]
    BY <1>1 DEF BusInv, LoopOK, WriteOK, cb
  <2>2. num_subscribers \in Nat /\ num_subscribers <= Len(subscribers) /\ Len(subscribers) \in Nat
    BY DEF BusInv, TypeOK, capacity
  <2>3. ASSUME NEW i \in 1..Len(cb)
        PROVE  subscribers_index[cb[i]] = i - 1
    <3>1. i \in 1..Len(subscribers) /\ cb[i] = subscribers[i] /\ cb[i] \in Subscribers
      BY <1>2, <2>1, <2>2
    <3> QED
      BY <3>1, BusAssumption DEF BusInv, ArrayOK
  <2> QED
    BY <1>2, <2>3, SMTT(60)
<1>6. Top.i + 1 \in 1..Len(cb) /\ s \in Subscribers
  BY <1>1, <1>2
<1>7. PendingIn(Top) = {cb[i] : i \in Top.i + 1..Len(cb)} /\ PendingIn(g) = {cb[i] : i \in (Top.i + 1) + 1..Len(cb)}
  BY <1>2 DEF PendingIn, cb
<1>8. \A i \in (Top.i + 1) + 1..Len(cb) : i \in Top.i + 1..Len(cb) /\ cb[i] # s
  BY <1>2, <1>5, <1>6
<1>9. \A i \in Top.i + 1..Len(cb) : i = Top.i + 1 \/ i \in (Top.i + 1) + 1..Len(cb)
  BY <1>2
<1>10. Top.i + 1 \in Top.i + 1..Len(cb)
  BY <1>2, <1>6
<1>11. s \in Pending
  BY <1>3, <1>7, <1>10
<1>12. Pending' = Pending \ {s}
  <2> DEFINE A == {cb[i] : i \in Top.i + 1..Len(cb)}
             B == {cb[i] : i \in (Top.i + 1) + 1..Len(cb)}
  <2>1. B \subseteq A \ {s}
    BY <1>8
  <2>2. A \ {s} \subseteq B
    BY <1>9
  <2> QED
    BY <1>3, <1>4, <1>7, <2>1, <2>2
<1> QED
  BY <1>1, <1>6, <1>11, <1>12 DEF cb

LEMMA WritePending ==
  ASSUME BusInv, Write
  PROVE  /\ Pending = {}
         /\ num_subscribers = 0 => Pending' = {}
         /\ num_subscribers # 0 => Pending' = {t \in Subscribers : subscribers_index[t] >= 0}
<1> DEFINE cb == SubSeq(subscribers, 1, num_subscribers)
           f == Writing(cb)
<1>1. Loops = {} /\ (num_subscribers = 0 => Loops' = {}) /\ (num_subscribers # 0 => Loops' = {f})
  BY WriteStep
<1>2. Pending = {} /\ (num_subscribers = 0 => Pending' = {})
  BY <1>1 DEF Pending
<1>3. num_subscribers # 0 => Pending' = PendingIn(f)
  <2>1. \A g : Loops' = {g} => Pending' = IF g.op = "write" THEN PendingIn(g) ELSE {}
    BY DEF Pending, PendingIn
  <2>2. f.op = "write"
    BY DEF Writing
  <2> QED
    BY <1>1, <2>1, <2>2
<1>4. Full
  BY FullWhileOpen DEF BusInv, Write
<1>5. /\ num_subscribers \in Nat /\ num_subscribers <= Len(subscribers) /\ Len(subscribers) \in Nat
      /\ subscribers \in Seq(Subscribers \cup {NoSubscriber})
      /\ subscribers_index \in [Subscribers -> Int]
  BY DEF BusInv, TypeOK, capacity
<1>6. Len(cb) = num_subscribers /\ \A i \in 1..num_subscribers : cb[i] = subscribers[i]
  BY <1>5
<1>7. PendingIn(f) = {cb[i] : i \in 0 + 1..Len(cb)}
  BY DEF PendingIn, Writing
<1> HIDE DEF cb
<1>8. \A i \in 1..num_subscribers : subscribers[i] \in Subscribers /\ subscribers_index[subscribers[i]] >= 0
  <2> SUFFICES ASSUME NEW i \in 1..num_subscribers
               PROVE  subscribers[i] \in Subscribers /\ subscribers_index[subscribers[i]] >= 0
    OBVIOUS
  <2>1. i \in 1..Len(subscribers) /\ subscribers[i] # NoSubscriber
    BY <1>4, <1>5 DEF Full
  <2> QED
    BY <1>5, <2>1 DEF BusInv, ArrayOK
<1>9. \A s \in Subscribers : subscribers_index[s] >= 0 => \E i \in 1..num_subscribers : subscribers[i] = s
  <2> SUFFICES ASSUME NEW s \in Subscribers, subscribers_index[s] >= 0
               PROVE  \E i \in 1..num_subscribers : subscribers[i] = s
    OBVIOUS
  <2>1. subscribers_index[s] + 1 \in 1..num_subscribers /\ subscribers[subscribers_index[s] + 1] = s
    BY <1>5 DEF BusInv, ArrayOK
  <2> QED
    BY <2>1
<1>10. {cb[i] : i \in 0 + 1..Len(cb)} = {t \in Subscribers : subscribers_index[t] >= 0}
  BY <1>5, <1>6, <1>8, <1>9
<1> QED
  BY <1>2, <1>3, <1>7, <1>10

-----------------------------------------------------------------------------
(***************************************************************************)
(* The values the subscribers have seen.                                   *)
(***************************************************************************)
(* Whether the next value still reaches who is subscribed now.             *)
Live == state = "Ok_to_write" \/ WriteOrRemoving

(* A subscriber has seen nothing, or every value up to the last but those  *)
(* the write has still to bring it.                                        *)
SeenOK == \A s \in Subscribers : subscribers_index[s] >= 0 =>
             got[s] \in IF s \in Pending THEN {0, writes - 1} ELSE {0, writes}

GotOK == policy = "Allow_and_send_last_value" => last_value = writes /\ (Live => SeenOK)

ValuesInv == BusInv /\ GotOK

LEMMA GotKept ==
  ASSUME ValuesInv, UNCHANGED <<policy, last_value, writes, got>>, Pending' = Pending, Live' => Live,
         \A s \in Subscribers : subscribers_index'[s] >= 0 => subscribers_index[s] >= 0
  PROVE  GotOK'
  BY DEF ValuesInv, GotOK, SeenOK

LEMMA GotGone ==
  ASSUME ValuesInv, UNCHANGED <<policy, last_value, writes>>, ~ Live'
  PROVE  GotOK'
  BY DEF ValuesInv, GotOK

LEMMA PendingKept ==
  ASSUME Loops' = Loops
  PROVE  /\ Pending' = Pending
         /\ \A o : o # "client" => (LoopRuns(o)' <=> LoopRuns(o))
         /\ WriteOrRemoving' <=> WriteOrRemoving
<1>1. \A o : o # "client" => (LoopRuns(o)' <=> LoopRuns(o))
  BY LoopsRun, LoopsRunNext
<1>2. Pending' = Pending
  BY DEF Pending, PendingIn
<1> QED
  BY <1>1, <1>2 DEF WriteOrRemoving

LEMMA CallsKeepGot ==
  ASSUME ValuesInv, ClientCall
  PROVE  GotOK'
<1> USE DEF ValuesInv
<1>1. ASSUME NEW s \in Subscribers, SubscribeClosed(s) \/ UnsubscribeDuringWrite(s)
      PROVE  GotOK'
  <2>1. /\ Loops' = Loops /\ UNCHANGED <<policy, last_value, writes, got, state, subscribers_index>>
    BY <1>1 DEF SubscribeClosed, UnsubscribeDuringWrite, settings, array, client, history, Loops
  <2> QED
    BY <2>1, PendingKept, GotKept DEF Live
<1>2. ASSUME NEW s \in Subscribers, Subscribe(s) \/ SubscribeAndSend(s)
      PROVE  GotOK'
  <2>1. AddSubscriber(s) /\ s \notin known /\ UNCHANGED <<policy, last_value, writes, state>>
    BY <1>2 DEF Subscribe, SubscribeAndSend, AddSubscriber, settings
  <2>2. Loops' = Loops
    BY <1>2, SubscribeAndSendStep DEF Subscribe, Loops
  <2>3. /\ subscribers_index' = [subscribers_index EXCEPT ![s] = num_subscribers]
        /\ subscribers_index[s] = -1 /\ subscribers_index \in [Subscribers -> Int]
    BY <2>1, AddEffect DEF BusInv, TypeOK
  <2>4. s \notin Pending
    BY <2>3, PendingSubscribed
  <2>5. got[s] = 0 /\ got \in [Subscribers -> 0..MaxWrites]
    BY <2>1 DEF BusInv, KnownOK, TypeOK
  <2>6. got' = [got EXCEPT ![s] = last_value] \/ got' = got
    BY <1>2 DEF Subscribe, SubscribeAndSend, history
  <2>7. ASSUME policy = "Allow_and_send_last_value", SeenOK
        PROVE  SeenOK'
    <3>1. ASSUME NEW t \in Subscribers, subscribers_index'[t] >= 0
          PROVE  got'[t] \in IF t \in Pending THEN {0, writes - 1} ELSE {0, writes}
      <4>1. CASE t = s
        BY <2>4, <2>5, <2>6, <2>7, <4>1 DEF GotOK
      <4>2. CASE t # s
        BY <2>3, <2>5, <2>6, <2>7, <3>1, <4>2 DEF SeenOK
      <4> QED
        BY <4>1, <4>2
    <3> QED
      BY <2>1, <2>2, <3>1, PendingKept DEF SeenOK
  <2> QED
    BY <2>1, <2>2, <2>7, PendingKept DEF GotOK, Live
<1>3. ASSUME NEW s \in Subscribers, Unsubscribe(s)
      PROVE  GotOK'
  <2>1. Loops' = Loops /\ UNCHANGED <<policy, last_value, writes, got, state, known>>
    BY <1>3 DEF Unsubscribe, settings, client, history, Loops
  <2>2. \A t \in Subscribers : subscribers_index'[t] >= 0 => subscribers_index[t] >= 0
    BY <1>3, <2>1, FullWhileOpen, RemovedKeeps DEF Unsubscribe, BusInv, is_subscribed
  <2> QED
    BY <2>1, <2>2, PendingKept, GotKept DEF Live
<1>4. CASE CloseDuringWrite \/ WriteRefused
  <2>1. Loops' = Loops /\ UNCHANGED <<policy, last_value, writes, got, subscribers_index>> /\ state' \in {state, "Closed"}
    BY <1>4 DEF CloseDuringWrite, WriteRefused, settings, array, client, history, Loops
  <2> QED
    BY <2>1, PendingKept, GotKept DEF Live
<1>5. CASE Close
  <2>1. Loops' = {Closing(num_subscribers)} /\ state' = "Closed" /\ UNCHANGED <<policy, last_value, writes>>
    BY <1>5, CloseStep DEF Close, settings, client
  <2>2. ~ LoopRuns("write")' /\ ~ LoopRuns("removing")'
    BY <2>1, LoopsRunNext DEF Closing
  <2> QED
    BY <2>1, <2>2, GotGone DEF Live, WriteOrRemoving
<1>6. CASE Write
  <2>1. /\ state = "Ok_to_write" /\ writes' = writes + 1 /\ last_value' = NewLastValue(writes')
        /\ UNCHANGED <<policy, got, subscribers_index, num_subscribers>>
    BY <1>6 DEF Write, array, history
  <2>2. Pending = {} /\ (num_subscribers # 0 => Pending' = {t \in Subscribers : subscribers_index[t] >= 0})
    BY <1>6, WritePending
  <2>3. /\ writes \in Int /\ num_subscribers \in Nat
        /\ \A s \in Subscribers : subscribers_index[s] >= 0 => subscribers_index[s] < num_subscribers /\ subscribers_index[s] \in Int
    BY DEF BusInv, TypeOK, ArrayOK
  <2>4. ASSUME policy = "Allow_and_send_last_value", NEW s \in Subscribers, subscribers_index[s] >= 0
        PROVE  num_subscribers # 0 /\ got[s] \in {0, writes' - 1} /\ s \in Pending'
    <3>1. num_subscribers # 0
      BY <2>3, <2>4
    <3>2. got[s] \in {0, writes} /\ writes' - 1 = writes
      BY <2>1, <2>2, <2>3, <2>4 DEF GotOK, Live, SeenOK
    <3> QED
      BY <2>2, <2>4, <3>1, <3>2
  <2>5. policy = "Allow_and_send_last_value" => SeenOK'
    BY <2>1, <2>4 DEF SeenOK
  <2> QED
    BY <2>1, <2>5 DEF GotOK, NewLastValue
<1> QED
  BY <1>1, <1>2, <1>3, <1>4, <1>5, <1>6 DEF ClientCall

LEMMA LoopsKeepGot ==
  ASSUME ValuesInv, BusLoop
  PROVE  GotOK'
<1> USE DEF ValuesInv
<1>1. CASE CallBack
  <2> DEFINE s == Top.callbacks[Top.i + 1]
  <2>1. s \in Subscribers /\ s \in Pending /\ Pending' = Pending \ {s} /\ got' = [got EXCEPT ![s] = writes]
    BY <1>1, CallBackPending
  <2>2. UNCHANGED <<policy, last_value, writes, subscribers_index>> /\ LoopRuns("write")
    BY <1>1, LoopOnTop DEF CallBack, settings, array, client
  <2>3. got \in [Subscribers -> 0..MaxWrites]
    BY DEF BusInv, TypeOK
  <2> HIDE DEF s
  <2>4. SeenOK => SeenOK'
    BY <2>1, <2>2, <2>3 DEF SeenOK
  <2> QED
    BY <2>2, <2>4 DEF GotOK, Live, WriteOrRemoving
<1>2. CASE FinishWrite \/ EndRemoving
  <2>1. PICK op \in {"write", "removing"} :
          /\ Running(op) /\ Settle(Tail(stack)) /\ (op = "write" => Top.i = Len(Top.callbacks))
          /\ UNCHANGED <<policy, last_value, writes, got, subscribers_index, known>>
    BY <1>2 DEF FinishWrite, EndRemoving, settings, array, client, history
  <2>2. Pending = {} /\ Live
    BY <2>1, NothingPending, LoopOnTop DEF Live, WriteOrRemoving
  <2>3. CASE state = "Closed"
    <3>1. stack' = <<Closing(num_subscribers)>> \o Tail(stack) /\ state' = "Closed"
      BY <2>1, <2>3 DEF Settle
    <3>2. Closing(num_subscribers) \in Frame /\ Closing(num_subscribers).op = "closing"
      BY DEF Closing, Frame, ClosingFrame, BusInv, TypeOK
    <3>3. Loops' = {Closing(num_subscribers)}
      BY <2>1, <3>1, <3>2, LoopReplaced
    <3>4. ~ LoopRuns("write")' /\ ~ LoopRuns("removing")'
      BY <3>2, <3>3, LoopsRunNext
    <3> QED
      BY <2>1, <3>1, <3>4, GotGone DEF Live, WriteOrRemoving
  <2>4. CASE state # "Closed"
    <3>1. Loops' = {}
      BY <2>1, <2>4, LoopPopped DEF Settle
    <3>2. Pending' = {}
      BY <3>1 DEF Pending
    <3> QED
      BY <2>1, <2>2, <3>2, GotKept
  <2> QED
    BY <2>3, <2>4
<1>3. CASE StartRemoving \/ RemoveNext
  <2> DEFINE f == IF StartRemoving THEN Removing(unsubscribes_during_write) ELSE Removing(Tail(Top.rest))
  <2>1. PICK op \in {"write", "removing"} :
          /\ Running(op) /\ (op = "write" => Top.i = Len(Top.callbacks))
          /\ (RemoveNext => op = "removing")
          /\ UNCHANGED <<policy, last_value, writes, got, known>>
    BY <1>3 DEF StartRemoving, RemoveNext, settings, client, history, Running
  <2>2. Pending = {} /\ Live
    BY <2>1, NothingPending, LoopOnTop DEF Live, WriteOrRemoving
  <2>3. PICK list \in Seq(Subscribers) : stack' = <<Removing(list)>> \o Tail(stack)
    <3>1. CASE StartRemoving
      BY <3>1 DEF StartRemoving, BusInv, TypeOK
    <3>2. CASE RemoveNext
      <4>1. Top \in RemovingFrame /\ Top.rest # <<>>
        BY <3>2, LoopOnTop, FrameFacts DEF RemoveNext
      <4>2. Tail(Top.rest) \in Seq(Subscribers)
        BY <4>1 DEF RemovingFrame
      <4> QED
        BY <3>2, <4>2 DEF RemoveNext
    <3> QED
      BY <1>3, <3>1, <3>2
  <2>4. Removing(list) \in Frame /\ Removing(list).op = "removing"
    BY DEF Removing, Frame, RemovingFrame
  <2>5. Loops' = {Removing(list)}
    BY <2>1, <2>3, <2>4, LoopReplaced
  <2>6. Pending' = {}
    BY <2>4, <2>5 DEF Pending
  <2>7. \A t \in Subscribers : subscribers_index'[t] >= 0 => subscribers_index[t] >= 0
    <3>1. CASE StartRemoving
      BY <3>1 DEF StartRemoving, array
    <3>2. CASE RemoveNext
      <4>1. /\ Top \in RemovingFrame /\ Top.rest # <<>> /\ WriteOrRemoving
            /\ is_subscribed(Head(Top.rest)) /\ SetArray(Removed(Head(Top.rest)))
        BY <3>2, LoopOnTop, FrameFacts DEF RemoveNext, WriteOrRemoving
      <4>2. Head(Top.rest) \in Subscribers
        BY <4>1 DEF RemovingFrame
      <4> QED
        BY <2>1, <4>1, <4>2, FullWhileOpen, RemovedKeeps DEF BusInv, is_subscribed
    <3> QED
      BY <1>3, <3>1, <3>2
  <2> QED
    BY <2>1, <2>2, <2>6, <2>7, GotKept
<1>4. CASE RemoveFails
  <2>1. /\ Running("removing") /\ stack' = Tail(stack)
        /\ UNCHANGED <<policy, last_value, writes, state, known>>
    BY <1>4 DEF RemoveFails, settings, client
  <2>2. Loops' = {} /\ LoopRuns("removing")
    BY <2>1, LoopPopped, LoopOnTop
  <2>3. ~ LoopRuns("write")' /\ ~ LoopRuns("removing")'
    BY <2>2, LoopsRunNext
  <2>4. state' # "Ok_to_write"
    BY <2>1, <2>2 DEF BusInv, StateOK, WriteOrRemoving
  <2> QED
    BY <2>1, <2>3, <2>4, GotGone DEF Live, WriteOrRemoving
<1>5. CASE CallOnClose \/ EndClosing
  <2>1. /\ Running("closing") /\ UNCHANGED <<policy, last_value, writes, state, known>>
    BY <1>5 DEF CallOnClose, EndClosing, settings, client
  <2>2. LoopRuns("closing") /\ Top.op = "closing"
    BY <2>1, LoopOnTop
  <2>3. Loops' = {Top} \/ Loops' = {}
    BY <1>5, <2>1, CallOnCloseStep, LoopPopped DEF EndClosing
  <2>4. ~ LoopRuns("write")' /\ ~ LoopRuns("removing")'
    BY <2>2, <2>3, LoopsRunNext
  <2>5. state' = "Closed"
    BY <2>1, <2>2 DEF BusInv, StateOK
  <2> QED
    BY <2>1, <2>4, <2>5, GotGone DEF Live, WriteOrRemoving
<1> QED
  BY <1>1, <1>2, <1>3, <1>4, <1>5 DEF BusLoop

LEMMA ReturnsKeepGot ==
  ASSUME ValuesInv, ClientReturn
  PROVE  GotOK'
<1> USE DEF ValuesInv
<1>1. CASE CallbackReturns \/ LastValueReturns \/ LastValueRaises
  <2>1. /\ Running("client") /\ Top.why \in {"callback", "last_value"} /\ stack' = Tail(stack)
        /\ UNCHANGED <<array, put_off, told, known, state, policy, last_value, writes, got>>
    BY <1>1 DEF CallbackReturns, LastValueReturns, LastValueRaises, settings, client, history
  <2>2. Loops' = Loops
    BY <2>1, CallerPopped
  <2>3. subscribers_index' = subscribers_index
    BY <2>1 DEF array
  <2> QED
    BY <2>1, <2>2, <2>3, PendingKept, GotKept DEF Live
<1>2. CASE HandlerRaises \/ OnCloseRaises
  <2>1. /\ Running("client") /\ Top.why \in {"callback", "on_close"} /\ stack' = Tail(Tail(stack))
        /\ UNCHANGED <<known, policy, last_value, writes>>
    BY <1>2 DEF HandlerRaises, OnCloseRaises, client, settings
  <2>2. Loops' = {} /\ (OnCloseRaises => LoopRuns("closing"))
    BY <2>1, TwoPopped DEF OnCloseRaises
  <2>3. state' = "Closed"
    BY <1>2, <2>2 DEF HandlerRaises, OnCloseRaises, BusInv, StateOK
  <2>4. ~ LoopRuns("write")' /\ ~ LoopRuns("removing")'
    BY <2>2, LoopsRunNext
  <2> QED
    BY <2>1, <2>3, <2>4, GotGone DEF Live, WriteOrRemoving
<1>3. CASE OnCloseReturns
  <2>1. BusInv' /\ LoopRuns("closing") /\ LoopRuns("closing")' /\ state' = state /\ UNCHANGED <<policy, last_value, writes>>
    BY <1>3, OnCloseReturnsStep DEF OnCloseReturns, settings, client
  <2>2. state' = "Closed"
    BY <2>1 DEF BusInv, StateOK
  <2>3. ~ LoopRuns("write")' /\ ~ LoopRuns("removing")'
    BY <2>1, OneKindOfLoopNext DEF BusInv
  <2> QED
    BY <2>1, <2>2, <2>3, GotGone DEF Live, WriteOrRemoving
<1> QED
  BY <1>1, <1>2, <1>3 DEF ClientReturn, CallbackRaises

LEMMA ValuesInvAlways == Spec => []ValuesInv
<1>1. Init => ValuesInv
  BY InitBusInv DEF ValuesInv, GotOK, SeenOK, Init
<1>2. ValuesInv /\ [Next]_vars => ValuesInv'
  <2> SUFFICES ASSUME ValuesInv, [Next]_vars
               PROVE  ValuesInv'
    OBVIOUS
  <2>1. BusInv'
    BY NextBusInv DEF ValuesInv
  <2>2. CASE UNCHANGED vars
    <3>1. Loops' = Loops /\ UNCHANGED <<policy, last_value, writes, got, state, subscribers_index>>
      BY <2>2 DEF vars, settings, array, client, history, Loops
    <3> QED
      BY <2>1, <3>1, PendingKept, GotKept DEF Live, ValuesInv
  <2> QED
    BY <2>1, <2>2, CallsKeepGot, LoopsKeepGot, ReturnsKeepGot DEF Next, ValuesInv
<1> QED
  BY <1>1, <1>2, PTL DEF Spec

(* Who is called by a step: no one, unless it puts a call on the stack.    *)
LEMMA PushHead ==
  ASSUME StackOK, NEW f
  PROVE  Head(<<f>> \o stack) = f
<1>1. stack \in Seq(Frame \cup {f})
  BY DEF StackOK
<1> QED
  BY <1>1, PushFacts

LEMMA LoopCallsNobody ==
  ASSUME StackOK, stack # <<>>, NEW f, stack' = Tail(stack) \/ stack' = <<f>> \o Tail(stack), NEW s
  PROVE  ~ Called(s)
<1>1. Tail(stack) \in Seq(Frame \cup {f}) /\ Len(Tail(stack)) = Len(stack) - 1
  BY TopFacts
<1>2. Len(<<f>> \o Tail(stack)) = Len(Tail(stack)) + 1
  BY <1>1, PushFacts
<1> QED
  BY <1>1, <1>2 DEF Called, StackOK

(* With Allow_and_send_last_value no subscriber misses a value or sees one *)
(* twice, from the first value it is sent: each call of its callback is    *)
(* with the value after that of the call before, be it Last_value.send or  *)
(* write that makes the one or the other.                                  *)
THEOREM BusNoGapNoRepetition == Spec => NoGapNoRepetition
<1> DEFINE A == \A s \in Subscribers :
                   policy = "Allow_and_send_last_value" /\ Called(s) /\ got[s] # 0
                      => got'[s] = got[s] + 1
<1>1. ASSUME ValuesInv, [Next]_vars
      PROVE  A \/ UNCHANGED vars
  <2>1. /\ got \in [Subscribers -> 0..MaxWrites] /\ writes \in Int
        /\ BusInv /\ StackOK /\ stack \in Seq(Frame)
    BY <1>1 DEF ValuesInv, BusInv, TypeOK, Shape, StackOK
  <2>2. ASSUME NEW s \in Subscribers, SubscribeAndSend(s)
        PROVE  A
    <3>1. Head(stack') = Client("last_value", s) /\ s \notin known
      BY <2>1, <2>2, PushHead DEF SubscribeAndSend, AddSubscriber
    <3>2. got[s] = 0
      BY <2>1, <3>1 DEF BusInv, KnownOK
    <3>3. \A t \in Subscribers : Called(t) => t = s
      BY <3>1 DEF Called, Client
    <3> QED
      BY <3>2, <3>3
  <2>3. CASE CallBack
    <3> DEFINE s == Top.callbacks[Top.i + 1]
               rest == <<[Top EXCEPT !.i = @ + 1]>> \o Tail(stack)
    <3>1. s \in Subscribers /\ s \in Pending /\ got' = [got EXCEPT ![s] = writes]
      BY <1>1, <2>3, CallBackPending DEF ValuesInv
    <3>2. subscribers_index[s] >= 0
      BY <1>1, <3>1, PendingSubscribed DEF ValuesInv
    <3>3. LoopRuns("write") /\ Top \in WriteFrame /\ stack # <<>>
      BY <1>1, <2>1, <2>3, LoopOnTop, FrameFacts DEF CallBack, Running
    <3>4. Head(stack') = Client("callback", s)
      <4> DEFINE g == [Top EXCEPT !.i = @ + 1]
      <4>1. stack' = <<Client("callback", s), g>> \o Tail(stack)
        BY <2>3 DEF CallBack
      <4> HIDE DEF g, s
      <4>2. Tail(stack) \in Seq(Frame \cup {g, Client("callback", s)})
        BY <2>1, <3>3
      <4> QED
        BY <4>1, <4>2
    <3> HIDE DEF s
    <3>5. \A t \in Subscribers : Called(t) => t = s
      BY <3>4 DEF Called, Client
    <3>6. policy = "Allow_and_send_last_value" => got[s] \in {0, writes - 1}
      BY <1>1, <3>1, <3>2, <3>3 DEF ValuesInv, GotOK, Live, SeenOK, WriteOrRemoving
    <3> QED
      BY <2>1, <3>1, <3>5, <3>6
  <2>4. (\A s \in Subscribers : ~ Called(s)) => A
    OBVIOUS
  <2> HIDE DEF A
  <2>5. CASE ClientCall
    <3>1. CASE stack' = stack
      BY <2>4, <3>1 DEF Called
    <3>2. CASE Close
      <4>1. Head(stack') = Closing(num_subscribers)
        BY <2>1, <3>2, PushHead DEF Close
      <4> QED
        BY <2>4, <4>1 DEF Called, Client, Closing
    <3>3. CASE Write
      <4> DEFINE f == Writing(SubSeq(subscribers, 1, num_subscribers))
      <4>1. stack' = stack \/ stack' = <<f>> \o stack
        BY <3>3 DEF Write
      <4>2. f.op = "write"
        BY DEF Writing
      <4> HIDE DEF f
      <4>3. stack' = stack \/ Head(stack') = f
        BY <2>1, <4>1, PushHead
      <4> QED
        BY <2>4, <3>1, <4>2, <4>3 DEF Called, Client
    <3> QED
      BY <2>2, <2>5, <3>1, <3>2, <3>3 DEF ClientCall, SubscribeClosed, Subscribe, Unsubscribe,
            UnsubscribeDuringWrite, CloseDuringWrite, WriteRefused
  <2>6. CASE BusLoop
    <3>1. CASE CallOnClose
      <4>1. Head(stack') = Client("on_close", subscribers[Top.i + 1])
        BY <2>1, <3>1, PushHead DEF CallOnClose
      <4> QED
        BY <2>4, <4>1 DEF Called, Client
    <3>2. ASSUME NEW f, stack # <<>>, stack' = Tail(stack) \/ stack' = <<f>> \o Tail(stack)
          PROVE  A
      BY <2>1, <2>4, <3>2, LoopCallsNobody
    <3> QED
      BY <2>3, <2>6, <3>1, <3>2 DEF BusLoop, FinishWrite, StartRemoving, RemoveNext, RemoveFails,
            EndRemoving, EndClosing, Settle, Running
  <2>7. CASE ClientReturn
    <3>1. Running("client") /\ stack # <<>>
      BY <2>7 DEF ClientReturn, CallbackReturns, CallbackRaises, HandlerRaises, LastValueReturns,
            LastValueRaises, OnCloseReturns, OnCloseRaises, Running
    <3>2. CASE stack' = Tail(stack)
      BY <2>1, <2>4, <3>1, <3>2, LoopCallsNobody
    <3>3. Top.why \in {"callback", "on_close"} =>
             Len(stack) > 1 /\ Tail(Tail(stack)) \in Seq(Frame) /\ Len(Tail(Tail(stack))) = Len(stack) - 2
      <4>1. Len(stack) \in Nat /\ 1 \in 1..Len(stack) /\ Top = stack[1] /\ Top.op = "client"
        BY <2>1, <3>1, ClientFacts
      <4>2. Top.why \in {"callback", "on_close"} => Len(stack) > 1
        BY <2>1, <4>1 DEF BusInv, Shape, CallersOK, Calls
      <4>3. Tail(stack) \in Seq(Frame) /\ Len(Tail(stack)) = Len(stack) - 1
        BY <2>1, <3>1, TopFacts
      <4>4. ASSUME Len(stack) > 1
            PROVE  Tail(Tail(stack)) \in Seq(Frame) /\ Len(Tail(Tail(stack))) = Len(Tail(stack)) - 1
        <5>1. Len(Tail(stack)) > 0
          BY <4>1, <4>3, <4>4
        <5> QED
          BY <4>3, <5>1, PopFacts
      <4> QED
        BY <4>1, <4>2, <4>3, <4>4
    <3>4. ASSUME Top.why \in {"callback", "on_close"},
                 \E f : stack' = Tail(Tail(stack)) \/ stack' = <<f>> \o Tail(Tail(stack))
          PROVE  A
      <4> DEFINE st == Tail(Tail(stack))
      <4>0. PICK f : stack' = Tail(Tail(stack)) \/ stack' = <<f>> \o Tail(Tail(stack))
        BY <3>4
      <4>1. st \in Seq(Frame) /\ Len(st) = Len(stack) - 2 /\ Len(stack) \in Nat
        BY <2>1, <3>3, <3>4
      <4>2. stack' = st \/ stack' = <<f>> \o st
        BY <4>0
      <4> HIDE DEF st
      <4>3. Len(<<f>> \o st) = Len(st) + 1
        <5>1. st \in Seq(Frame \cup {f})
          BY <4>1
        <5> QED
          BY <5>1, PushFacts
      <4>4. ~ Len(stack') > Len(stack)
        BY <4>1, <4>2, <4>3
      <4> QED
        BY <2>4, <4>4 DEF Called
    <3>5. CASE HandlerRaises \/ OnCloseRaises
      BY <3>4, <3>5 DEF HandlerRaises, OnCloseRaises
    <3>6. CASE OnCloseReturns
      <4> DEFINE loop == [stack[2] EXCEPT !.i = @ + 1]
      <4>1. Top.why = "on_close" /\ stack' = <<loop>> \o Tail(Tail(stack))
        BY <3>6 DEF OnCloseReturns
      <4> HIDE DEF loop
      <4>2. \E f : stack' = Tail(Tail(stack)) \/ stack' = <<f>> \o Tail(Tail(stack))
        BY <4>1, Zenon
      <4> QED
        BY <3>4, <4>1, <4>2
    <3> QED
      BY <2>7, <3>2, <3>5, <3>6 DEF ClientReturn, CallbackReturns, CallbackRaises,
            LastValueReturns, LastValueRaises
  <2> QED
    BY <1>1, <2>5, <2>6, <2>7 DEF Next
<1>2. ValuesInv /\ [Next]_vars => [A]_vars
  BY <1>1
<1> QED
  BY <1>2, ValuesInvAlways, PTL DEF Spec, NoGapNoRepetition

-----------------------------------------------------------------------------
(***************************************************************************)
(* The refinement of BusSpec, step by step.                                *)
(***************************************************************************)
(* Who is in the array.                                                    *)
Enrolled == Elements(subscribers) \ {NoSubscriber}

LEMMA EnrolledAreSubscribed ==
  BusInv => Enrolled = {t \in Subscribers : subscribers_index[t] >= 0}
<1> SUFFICES ASSUME BusInv
             PROVE  Enrolled = {t \in Subscribers : subscribers_index[t] >= 0}
  OBVIOUS
<1>1. /\ subscribers \in Seq(Subscribers \cup {NoSubscriber})
      /\ num_subscribers \in Nat /\ num_subscribers <= Len(subscribers) /\ Len(subscribers) \in Nat
      /\ subscribers_index \in [Subscribers -> Int]
  BY DEF BusInv, TypeOK, capacity
<1>2. ASSUME NEW i \in 1..Len(subscribers), subscribers[i] # NoSubscriber
      PROVE  subscribers[i] \in Subscribers /\ subscribers_index[subscribers[i]] >= 0
  BY <1>1, <1>2 DEF BusInv, ArrayOK
<1>3. ASSUME NEW s \in Subscribers, subscribers_index[s] >= 0
      PROVE  \E i \in 1..Len(subscribers) : subscribers[i] = s
  <2>1. subscribers_index[s] + 1 \in 1..Len(subscribers) /\ subscribers[subscribers_index[s] + 1] = s
    BY <1>1, <1>3 DEF BusInv, ArrayOK
  <2> QED
    BY <2>1
<1> QED
  BY <1>2, <1>3, BusAssumption DEF Enrolled, Elements

LEMMA MembersNow ==
  ASSUME BusInv
  PROVE  Members = {s \in Enrolled : told[s] = 0} \
                      (IF LoopRuns("removing") THEN Elements(Top.rest) ELSE Elements(unsubscribes_during_write))
<1>1. LoopRuns("removing") => Running("removing")
  <2>1. stack \in Seq(Frame)
    BY DEF BusInv, Shape, StackOK
  <2> QED
    BY <2>1 DEF BusInv, LoopOK, LoopRuns, Running, Top
<1>2. Running("removing") => LoopRuns("removing")
  BY LoopOnTop
<1> QED
  BY <1>1, <1>2 DEF Members, PutOff, Enrolled

LEMMA MembersNext ==
  ASSUME BusInv'
  PROVE  Members' = {s \in Enrolled' : told'[s] = 0} \
                       (IF LoopRuns("removing")' THEN Elements(stack'[1].rest)
                        ELSE Elements(unsubscribes_during_write'))
<1>1. stack' \in Seq(Frame)
  BY DEF BusInv, Shape, StackOK
<1>2. LoopRuns("removing")' => stack' # <<>> /\ stack'[1].op = "removing"
  BY <1>1 DEF BusInv, LoopOK, LoopRuns
<1>3. Running("removing")' <=> stack' # <<>> /\ stack'[1].op = "removing"
  BY <1>1 DEF Running, Top
<1>4. Running("removing")' => LoopRuns("removing")'
  BY <1>1, <1>3 DEF LoopRuns
<1>5. stack' # <<>> => Top' = stack'[1]
  BY <1>1 DEF Top
<1>6. PutOff' = IF LoopRuns("removing")' THEN Elements(stack'[1].rest) ELSE Elements(unsubscribes_during_write')
  BY <1>2, <1>3, <1>4, <1>5 DEF PutOff, Elements
<1>7. Members' = {s \in Enrolled' : told'[s] = 0} \ PutOff'
  BY DEF Members, Enrolled
<1> QED
  BY <1>6, <1>7

LEMMA MembersKept ==
  ASSUME BusInv, BusInv', ~ LoopRuns("removing"), ~ LoopRuns("removing")',
         UNCHANGED <<subscribers, told, unsubscribes_during_write>>
  PROVE  Members' = Members
<1>1. Enrolled' = Enrolled
  BY DEF Enrolled, Elements
<1> QED
  BY <1>1, MembersNow, MembersNext

LEMMA WritingNow == (Frames("write") # {}) <=> LoopRuns("write")
  BY DEF Frames, LoopRuns

LEMMA WritingNext == (Frames("write") # {})' <=> LoopRuns("write")'
  BY DEF Frames, LoopRuns

LEMMA StutterImplements ==
  ASSUME Members' = Members, Pending' = Pending, LoopRuns("write")' <=> LoopRuns("write"),
         (state' = "Closed") <=> (state = "Closed"), UNCHANGED <<known, told>>
  PROVE  UNCHANGED Abstract!vars
  BY PendingNow, PendingNext, WritingNow, WritingNext DEF Abstract!vars

LEMMA SubscribeImplements ==
  ASSUME NEW s \in Subscribers, s \notin known, known' = known \cup {s},
         Members' = IF state = "Closed" THEN Members ELSE Members \cup {s},
         Pending' = Pending, LoopRuns("write")' <=> LoopRuns("write"),
         (state' = "Closed") <=> (state = "Closed"), told' = told
  PROVE  Abstract!Next
<1>1. Abstract!Subscribe(s)
  BY PendingNow, PendingNext, WritingNow, WritingNext DEF Abstract!Subscribe
<1> QED
  BY <1>1 DEF Abstract!Next

LEMMA UnsubscribeImplements ==
  ASSUME NEW s \in Subscribers, state # "Closed", state' # "Closed",
         Members' = Members \ {s},
         Pending' = Pending, LoopRuns("write")' <=> LoopRuns("write"), UNCHANGED <<known, told>>
  PROVE  Abstract!Next
<1>1. Abstract!Unsubscribe(s)
  BY PendingNow, PendingNext, WritingNow, WritingNext DEF Abstract!Unsubscribe
<1> QED
  BY <1>1 DEF Abstract!Next

LEMMA CloseImplements ==
  ASSUME state' = "Closed", Members' = Members, Pending' = Pending,
         LoopRuns("write")' <=> LoopRuns("write"), UNCHANGED <<known, told>>
  PROVE  Abstract!Next
<1>1. Abstract!Close
  BY PendingNow, PendingNext, WritingNow, WritingNext DEF Abstract!Close
<1> QED
  BY <1>1 DEF Abstract!Next

LEMMA StartWriteImplements ==
  ASSUME state # "Closed", state' # "Closed", ~ LoopRuns("write"), LoopRuns("write")',
         Members' = Members, Pending' = Members, UNCHANGED <<known, told>>
  PROVE  Abstract!Next
<1>1. Abstract!StartWrite
  BY PendingNow, PendingNext, WritingNow, WritingNext DEF Abstract!StartWrite
<1> QED
  BY <1>1 DEF Abstract!Next

LEMMA CallBackImplements ==
  ASSUME NEW s \in Subscribers, s \in Pending, Pending' = Pending \ {s}, Members' = Members,
         LoopRuns("write")' <=> LoopRuns("write"), (state' = "Closed") <=> (state = "Closed"),
         UNCHANGED <<known, told>>
  PROVE  Abstract!Next
<1>1. Abstract!CallBack(s)
  BY PendingNow, PendingNext, WritingNow, WritingNext DEF Abstract!CallBack
<1> QED
  BY <1>1 DEF Abstract!Next

LEMMA EndWriteImplements ==
  ASSUME LoopRuns("write"), ~ LoopRuns("write")', Pending = {}, Pending' = {}, Members' = Members,
         (state' = "Closed") <=> (state = "Closed"), UNCHANGED <<known, told>>
  PROVE  Abstract!Next
<1>1. Abstract!EndWrite
  BY PendingNow, PendingNext, WritingNow, WritingNext DEF Abstract!EndWrite
<1> QED
  BY <1>1 DEF Abstract!Next

LEMMA AbandonWriteImplements ==
  ASSUME LoopRuns("write"), ~ LoopRuns("write")', Pending' = {}, Members' = Members,
         state' = "Closed", UNCHANGED <<known, told>>
  PROVE  Abstract!Next
<1>1. Abstract!AbandonWrite
  BY PendingNow, PendingNext, WritingNow, WritingNext DEF Abstract!AbandonWrite
<1> QED
  BY <1>1 DEF Abstract!Next

LEMMA TellImplements ==
  ASSUME NEW s \in Subscribers, state = "Closed", state' = "Closed",
         ~ LoopRuns("write"), ~ LoopRuns("write")', s \in Members, Members' = Members \ {s},
         Pending' = Pending, told' = [told EXCEPT ![s] = @ + 1], known' = known
  PROVE  Abstract!Next
<1>1. Abstract!Tell(s)
  BY PendingNow, PendingNext, WritingNow, WritingNext DEF Abstract!Tell
<1> QED
  BY <1>1 DEF Abstract!Next

LEMMA ElementsCons ==
  ASSUME NEW S, NEW list \in Seq(S), NEW s \in S
  PROVE  Elements(<<s>> \o list) = {s} \cup Elements(list)
<1> DEFINE l == <<s>> \o list
<1>1. /\ Len(list) \in Nat /\ Len(l) = Len(list) + 1 /\ l[1] = s
      /\ \A k \in 2..Len(list) + 1 : l[k] = list[k - 1]
  BY PushFacts
<1> HIDE DEF l
<1>2. ASSUME NEW k \in 1..Len(list)
      PROVE  k + 1 \in 1..Len(l) /\ l[k + 1] = list[k]
  <2>1. k + 1 \in 2..Len(list) + 1 /\ (k + 1) - 1 = k
    BY <1>1
  <2> QED
    BY <1>1, <2>1
<1>3. ASSUME NEW k \in 1..Len(l)
      PROVE  k = 1 \/ (k - 1 \in 1..Len(list) /\ l[k] = list[k - 1])
  BY <1>1
<1>4. 1 \in 1..Len(l)
  BY <1>1
<1>5. Elements(l) = {s} \cup Elements(list)
  BY <1>1, <1>2, <1>3, <1>4, SMTT(60) DEF Elements
<1> QED
  BY <1>5 DEF l

LEMMA ClientCallImplements ==
  ASSUME BusInv, BusInv', ClientCall
  PROVE  Abstract!Next \/ UNCHANGED Abstract!vars
<1>0. InClient /\ ~ LoopRuns("removing") /\ told' = told
  <2>1. InClient /\ told' = told
    BY DEF ClientCall, SubscribeClosed, Subscribe, SubscribeAndSend, AddSubscriber, Unsubscribe,
           UnsubscribeDuringWrite, Close, CloseDuringWrite, Write, WriteRefused, history
  <2> QED
    BY <2>1, NoRemovingInClient
<1>1. ASSUME NEW s \in Subscribers, SubscribeClosed(s)
      PROVE  Abstract!Next
  <2>1. /\ s \notin known /\ known' = known \cup {s} /\ state = "Closed" /\ Loops' = Loops
        /\ UNCHANGED <<state, subscribers, unsubscribes_during_write>>
    BY <1>1 DEF SubscribeClosed, array, put_off, Loops
  <2>2. Pending' = Pending /\ \A o : o # "client" => (LoopRuns(o)' <=> LoopRuns(o))
    BY <2>1, PendingKept
  <2>3. Members' = Members
    BY <1>0, <2>1, <2>2, MembersKept
  <2> QED
    BY <1>0, <2>1, <2>2, <2>3, SubscribeImplements
<1>2. ASSUME NEW s \in Subscribers, Subscribe(s) \/ SubscribeAndSend(s)
      PROVE  Abstract!Next
  <2>1. /\ AddSubscriber(s) /\ s \notin known /\ known' = known \cup {s} /\ state # "Closed"
        /\ UNCHANGED <<state, unsubscribes_during_write>>
    BY <1>2 DEF Subscribe, SubscribeAndSend, AddSubscriber, put_off
  <2>2. Loops' = Loops
    BY <1>2, SubscribeAndSendStep DEF Subscribe, Loops
  <2>3. Pending' = Pending /\ \A o : o # "client" => (LoopRuns(o)' <=> LoopRuns(o))
    BY <2>2, PendingKept
  <2>4. Enrolled' = Enrolled \cup {s}
    BY <2>1, FullWhileOpen, AddKeeps DEF BusInv, Enrolled
  <2>5. told[s] = 0 /\ s \notin Elements(unsubscribes_during_write)
    BY <2>1 DEF BusInv, KnownOK, Elements
  <2>6. Members' = Members \cup {s}
    BY <1>0, <2>1, <2>3, <2>4, <2>5, MembersNow, MembersNext
  <2> QED
    BY <1>0, <2>1, <2>3, <2>6, SubscribeImplements
<1>3. ASSUME NEW s \in Subscribers, Unsubscribe(s)
      PROVE  Abstract!Next
  <2>1. /\ is_subscribed(s) /\ SetArray(Removed(s)) /\ state = "Ok_to_write" /\ Loops' = Loops
        /\ UNCHANGED <<state, unsubscribes_during_write, known>>
    BY <1>3 DEF Unsubscribe, put_off, client, Loops
  <2>2. Pending' = Pending /\ \A o : o # "client" => (LoopRuns(o)' <=> LoopRuns(o))
    BY <2>1, PendingKept
  <2>3. Enrolled' = Enrolled \ {s}
    BY <2>1, FullWhileOpen, RemovedKeeps DEF BusInv, Enrolled
  <2>4. Members' = Members \ {s}
    BY <1>0, <2>1, <2>2, <2>3, MembersNow, MembersNext
  <2> QED
    BY <1>0, <2>1, <2>2, <2>4, UnsubscribeImplements
<1>4. ASSUME NEW s \in Subscribers, UnsubscribeDuringWrite(s)
      PROVE  Abstract!Next
  <2>1. /\ state = "Write_in_progress" /\ Loops' = Loops
        /\ unsubscribes_during_write' = <<s>> \o unsubscribes_during_write
        /\ UNCHANGED <<state, subscribers, known>>
    BY <1>4 DEF UnsubscribeDuringWrite, array, client, Loops
  <2>2. Pending' = Pending /\ \A o : o # "client" => (LoopRuns(o)' <=> LoopRuns(o))
    BY <2>1, PendingKept
  <2>3. Elements(unsubscribes_during_write') = {s} \cup Elements(unsubscribes_during_write)
    BY <2>1, ElementsCons DEF BusInv, TypeOK
  <2>4. Enrolled' = Enrolled
    BY <2>1 DEF Enrolled, Elements
  <2>5. Members' = Members \ {s}
    BY <1>0, <2>2, <2>3, <2>4, MembersNow, MembersNext
  <2> QED
    BY <1>0, <2>1, <2>2, <2>5, UnsubscribeImplements
<1>5. CASE CloseDuringWrite
  <2>1. /\ state' = "Closed" /\ Loops' = Loops
        /\ UNCHANGED <<subscribers, known, unsubscribes_during_write>>
    BY <1>5 DEF CloseDuringWrite, array, client, put_off, Loops
  <2>2. Pending' = Pending /\ \A o : o # "client" => (LoopRuns(o)' <=> LoopRuns(o))
    BY <2>1, PendingKept
  <2>3. Members' = Members
    BY <1>0, <2>1, <2>2, MembersKept
  <2> QED
    BY <1>0, <2>1, <2>2, <2>3, CloseImplements
<1>6. CASE Close
  <2>1. /\ state' = "Closed" /\ Loops = {} /\ Loops' = {Closing(num_subscribers)}
        /\ UNCHANGED <<subscribers, known, unsubscribes_during_write>>
    BY <1>6, CloseStep DEF Close, array, client, put_off
  <2>2. ~ LoopRuns("write") /\ ~ LoopRuns("write")' /\ ~ LoopRuns("removing")'
    BY <2>1, LoopsRun, LoopsRunNext DEF Closing
  <2>3. Pending = {} /\ Pending' = {}
    BY <2>1 DEF Pending, Closing
  <2>4. Members' = Members
    BY <1>0, <2>1, <2>2, MembersKept
  <2> QED
    BY <1>0, <2>1, <2>2, <2>3, <2>4, CloseImplements
<1>7. CASE WriteRefused
  <2>1. Loops' = Loops /\ UNCHANGED <<state, subscribers, known, unsubscribes_during_write>>
    BY <1>7 DEF WriteRefused, array, client, put_off, Loops
  <2>2. Pending' = Pending /\ \A o : o # "client" => (LoopRuns(o)' <=> LoopRuns(o))
    BY <2>1, PendingKept
  <2>3. Members' = Members
    BY <1>0, <2>1, <2>2, MembersKept
  <2> QED
    BY <1>0, <2>1, <2>2, <2>3, StutterImplements
<1>8. CASE Write
  <2>1. state = "Ok_to_write" /\ UNCHANGED <<subscribers, known, unsubscribes_during_write>>
    BY <1>8 DEF Write, array, put_off
  <2>2. Loops = {} /\ Pending = {} /\ ~ LoopRuns("write")
    BY <1>8, WriteStep, WritePending, LoopsRun
  <2>3. CASE num_subscribers = 0
    <3>1. Loops' = {} /\ Pending' = {} /\ state' = state
      BY <1>8, <2>3, WriteStep, WritePending DEF Write
    <3>2. ~ LoopRuns("write")' /\ ~ LoopRuns("removing")'
      BY <3>1, LoopsRunNext
    <3>3. Members' = Members
      BY <1>0, <2>1, <3>2, MembersKept
    <3> QED
      BY <1>0, <2>1, <2>2, <3>1, <3>2, <3>3, StutterImplements
  <2>4. CASE num_subscribers # 0
    <3>1. /\ Loops' = {Writing(SubSeq(subscribers, 1, num_subscribers))}
          /\ Pending' = {t \in Subscribers : subscribers_index[t] >= 0}
      BY <1>8, <2>4, WriteStep, WritePending
    <3>2. LoopRuns("write")' /\ ~ LoopRuns("removing")'
      BY <3>1, LoopsRunNext DEF Writing
    <3>3. state' = "Write_in_progress"
      BY <1>8, <2>4 DEF Write, BusInv, TypeOK
    <3>4. Members' = Members
      BY <1>0, <2>1, <3>2, MembersKept
    <3>5. unsubscribes_during_write = <<>> /\ \A s \in Subscribers : told[s] = 0
      BY <2>1 DEF BusInv, StateOK
    <3>6. Elements(unsubscribes_during_write) = {}
      BY <3>5 DEF Elements
    <3>7. Members = {t \in Subscribers : subscribers_index[t] >= 0}
      BY <1>0, <3>5, <3>6, MembersNow, EnrolledAreSubscribed
    <3> QED
      BY <1>0, <2>1, <2>2, <3>1, <3>2, <3>3, <3>4, <3>7, StartWriteImplements
  <2> QED
    BY <2>3, <2>4
<1> QED
  BY <1>1, <1>2, <1>3, <1>4, <1>5, <1>6, <1>7, <1>8 DEF ClientCall

LEMMA SettleImplements ==
  ASSUME BusInv, BusInv', FinishWrite \/ EndRemoving
  PROVE  Abstract!Next \/ UNCHANGED Abstract!vars
<1>1. PICK op \in {"write", "removing"} :
        /\ Running(op) /\ Settle(Tail(stack))
        /\ (op = "write" => Top.i = Len(Top.callbacks) /\ unsubscribes_during_write = <<>>)
        /\ (op = "removing" => Top.rest = <<>>)
        /\ unsubscribes_during_write' = <<>>
        /\ UNCHANGED <<subscribers, known, told>>
  BY DEF FinishWrite, EndRemoving, array, put_off, client, history
<1>2. /\ Pending = {} /\ Loops = {Top} /\ Top.op = op
      /\ \A o : o # "client" => (LoopRuns(o) <=> o = op)
  BY <1>1, NothingPending, LoopOnTop
<1>3. Loops' = {} \/ Loops' = {Closing(num_subscribers)}
  <2>1. CASE state = "Closed"
    <3>1. stack' = <<Closing(num_subscribers)>> \o Tail(stack)
      BY <1>1, <2>1 DEF Settle
    <3>2. Closing(num_subscribers) \in Frame /\ Closing(num_subscribers).op = "closing"
      BY DEF Closing, Frame, ClosingFrame, BusInv, TypeOK
    <3> QED
      BY <1>1, <3>1, <3>2, LoopReplaced
  <2>2. CASE state # "Closed"
    BY <1>1, <2>2, LoopPopped DEF Settle
  <2> QED
    BY <2>1, <2>2
<1>4. ~ LoopRuns("write")' /\ ~ LoopRuns("removing")' /\ Pending' = {}
  BY <1>3, LoopsRunNext DEF Closing, Pending
<1>5. (state' = "Closed") <=> (state = "Closed")
  BY <1>1 DEF Settle
<1>6. Members' = Members
  <2>1. Elements(<<>>) = {}
    BY DEF Elements
  <2>2. LoopRuns("removing") <=> op = "removing"
    BY <1>2
  <2>3. Members = {s \in Enrolled : told[s] = 0}
    BY <1>1, <2>1, <2>2, MembersNow
  <2>4. Enrolled' = Enrolled
    BY <1>1 DEF Enrolled, Elements
  <2> QED
    BY <1>1, <1>4, <2>1, <2>3, <2>4, MembersNext
<1>7. CASE op = "write"
  BY <1>1, <1>2, <1>4, <1>5, <1>6, <1>7, EndWriteImplements
<1>8. CASE op = "removing"
  <2>1. ~ LoopRuns("write")
    BY <1>2, <1>8
  <2> QED
    BY <1>1, <1>2, <1>4, <1>5, <1>6, <2>1, StutterImplements
<1> QED
  BY <1>7, <1>8

LEMMA RemovingImplements ==
  ASSUME BusInv, BusInv', StartRemoving \/ RemoveNext \/ RemoveFails
  PROVE  Abstract!Next \/ UNCHANGED Abstract!vars
<1>0. UNCHANGED <<state, known, told, unsubscribes_during_write>>
  BY DEF StartRemoving, RemoveNext, RemoveFails, client, history, put_off
<1>1. CASE StartRemoving
  <2> DEFINE f == Removing(unsubscribes_during_write)
  <2>1. /\ Running("write") /\ Top.i = Len(Top.callbacks) /\ subscribers' = subscribers
        /\ stack' = <<f>> \o Tail(stack)
    BY <1>1 DEF StartRemoving, array
  <2>2. f \in Frame /\ f.op = "removing" /\ f.rest = unsubscribes_during_write
    BY DEF Removing, Frame, RemovingFrame, BusInv, TypeOK
  <2> HIDE DEF f
  <2>3. /\ Pending = {} /\ LoopRuns("write") /\ ~ LoopRuns("removing")
    BY <2>1, NothingPending, LoopOnTop
  <2>4. Loops' = {f} /\ stack'[1] = f
    BY <1>0, <2>1, <2>2, LoopReplaced
  <2>5. ~ LoopRuns("write")' /\ LoopRuns("removing")' /\ Pending' = {}
    BY <2>2, <2>4, LoopsRunNext DEF Pending
  <2>6. Enrolled' = Enrolled
    BY <2>1 DEF Enrolled, Elements
  <2>7. Members' = Members
    BY <1>0, <2>2, <2>3, <2>4, <2>5, <2>6, MembersNow, MembersNext
  <2> QED
    BY <1>0, <2>3, <2>5, <2>7, EndWriteImplements
<1>2. CASE RemoveNext
  <2> DEFINE s == Head(Top.rest)
             f == Removing(Tail(Top.rest))
  <2>1. /\ Running("removing") /\ Top.rest # <<>>
        /\ is_subscribed(s) /\ SetArray(Removed(s))
        /\ stack' = <<f>> \o Tail(stack)
    BY <1>2 DEF RemoveNext
  <2>2. /\ Top \in RemovingFrame /\ LoopRuns("removing") /\ ~ LoopRuns("write") /\ Pending = {}
    BY <2>1, NothingPending, LoopOnTop, FrameFacts
  <2>3. /\ s \in Subscribers /\ Tail(Top.rest) \in Seq(Subscribers)
        /\ Elements(Top.rest) = {s} \cup Elements(Tail(Top.rest))
    <3>1. Top.rest \in Seq(Subscribers)
      BY <2>2 DEF RemovingFrame
    <3>2. s \in Subscribers /\ Tail(Top.rest) \in Seq(Subscribers) /\ Top.rest = <<s>> \o Tail(Top.rest)
      BY <2>1, <3>1
    <3>3. Elements(<<s>> \o Tail(Top.rest)) = {s} \cup Elements(Tail(Top.rest))
      BY <3>2, ElementsCons
    <3> QED
      BY <3>2, <3>3
  <2>4. f \in Frame /\ f.op = "removing" /\ f.rest = Tail(Top.rest)
    BY <2>3 DEF Removing, Frame, RemovingFrame
  <2>5. Enrolled' = Enrolled \ {s}
    BY <1>0, <2>1, <2>2, <2>3, FullWhileOpen, RemovedKeeps DEF BusInv, Enrolled, WriteOrRemoving
  <2> HIDE DEF f, s
  <2>6. Loops' = {f} /\ stack'[1] = f
    BY <1>0, <2>1, <2>4, LoopReplaced
  <2>7. ~ LoopRuns("write")' /\ LoopRuns("removing")' /\ Pending' = {}
    BY <2>4, <2>6, LoopsRunNext DEF Pending
  <2>8. Members' = Members
    BY <1>0, <2>2, <2>3, <2>4, <2>5, <2>6, <2>7, MembersNow, MembersNext
  <2> QED
    BY <1>0, <2>2, <2>7, <2>8, StutterImplements
<1>3. CASE RemoveFails
  <2>1. /\ Running("removing") /\ stack' = Tail(stack) /\ subscribers' = subscribers
    BY <1>3 DEF RemoveFails, array
  <2>2. /\ LoopRuns("removing") /\ ~ LoopRuns("write") /\ Pending = {} /\ Top = stack[1] /\ 1 \in 1..Len(stack)
        /\ Top.op = "removing"
    BY <2>1, NothingPending, LoopOnTop
  <2>3. Loops' = {}
    BY <1>0, <2>1, LoopPopped
  <2>4. ~ LoopRuns("write")' /\ ~ LoopRuns("removing")' /\ Pending' = {}
    BY <2>3, LoopsRunNext DEF Pending
  <2>5. RemovingOK(Top, unsubscribes_during_write, subscribers_index)
    BY <2>2 DEF BusInv, LoopOK
  <2>6. Enrolled' = Enrolled
    BY <2>1 DEF Enrolled, Elements
  <2>7. Members' = Members
    BY <1>0, <2>2, <2>4, <2>5, <2>6, MembersNow, MembersNext, EnrolledAreSubscribed DEF RemovingOK
  <2> QED
    BY <1>0, <2>2, <2>4, <2>7, StutterImplements
<1> QED
  BY <1>1, <1>2, <1>3

LEMMA LoopImplements ==
  ASSUME BusInv, BusInv', CallBack \/ CallOnClose \/ EndClosing
  PROVE  Abstract!Next \/ UNCHANGED Abstract!vars
<1>0. UNCHANGED <<state, known, unsubscribes_during_write>>
  BY DEF CallBack, CallOnClose, EndClosing, client, put_off
<1>1. CASE CallBack
  <2> DEFINE s == Top.callbacks[Top.i + 1]
             g == [Top EXCEPT !.i = @ + 1]
  <2>1. s \in Subscribers /\ s \in Pending /\ Pending' = Pending \ {s}
    BY <1>1, CallBackPending
  <2>2. Loops' = {g} /\ LoopRuns("write") /\ ~ LoopRuns("removing") /\ Top \in WriteFrame
    BY <1>1, CallBackStep, LoopOnTop, FrameFacts DEF CallBack
  <2>3. g.op = "write"
    BY <2>2 DEF WriteFrame
  <2> HIDE DEF g
  <2>4. LoopRuns("write")' /\ ~ LoopRuns("removing")'
    BY <2>2, <2>3, LoopsRunNext
  <2>5. UNCHANGED <<subscribers, told>>
    BY <1>1 DEF CallBack, array
  <2>6. Members' = Members
    BY <1>0, <2>2, <2>4, <2>5, MembersKept
  <2> QED
    BY <1>0, <2>1, <2>2, <2>4, <2>5, <2>6, CallBackImplements
<1>2. CASE CallOnClose \/ EndClosing
  <2>1. Running("closing")
    BY <1>2 DEF CallOnClose, EndClosing
  <2>2. /\ LoopRuns("closing") /\ ~ LoopRuns("write") /\ ~ LoopRuns("removing") /\ Pending = {}
        /\ Top \in ClosingFrame /\ Top = stack[1] /\ 1 \in 1..Len(stack) /\ Top.op = "closing"
    BY <2>1, NothingPending, LoopOnTop, FrameFacts
  <2>3. state = "Closed" /\ unsubscribes_during_write = <<>>
    BY <2>2 DEF BusInv, StateOK
  <2>4. Loops' = {Top} \/ Loops' = {}
    BY <1>0, <1>2, <2>1, CallOnCloseStep, LoopPopped DEF EndClosing
  <2>5. ~ LoopRuns("write")' /\ ~ LoopRuns("removing")' /\ Pending' = {}
    BY <2>2, <2>4, LoopsRunNext DEF Pending
  <2>6. Elements(unsubscribes_during_write) = {} /\ Elements(unsubscribes_during_write') = {}
    BY <1>0, <2>3 DEF Elements
  <2>7. Members = {s \in Enrolled : told[s] = 0} /\ Members' = {s \in Enrolled' : told'[s] = 0}
    BY <2>2, <2>5, <2>6, MembersNow, MembersNext
  <2>8. /\ ClosingOK(Top, num_subscribers, subscribers, told) /\ Top.i \in Nat
        /\ (Top.i < num_subscribers => told[subscribers[Top.i + 1]] = 0)
    BY <2>2 DEF BusInv, LoopOK, ClosingFrame
  <2>9. /\ num_subscribers \in Nat /\ num_subscribers <= Len(subscribers) /\ Len(subscribers) \in Nat
        /\ subscribers \in Seq(Subscribers \cup {NoSubscriber}) /\ told \in [Subscribers -> Nat]
    BY DEF BusInv, TypeOK, capacity
  <2>10. CASE CallOnClose
    <3> DEFINE s == subscribers[Top.i + 1]
    <3>1. /\ Top.i < num_subscribers /\ told' = [told EXCEPT ![s] = @ + 1] /\ subscribers' = subscribers
      BY <2>8, <2>10 DEF CallOnClose, array, ClosingOK
    <3>2. /\ Top.i + 1 \in 1..num_subscribers /\ Top.i + 1 \in 1..Len(subscribers)
          /\ s # NoSubscriber
      BY <2>8, <2>9, <3>1 DEF ClosingOK
    <3>3. s \in Subscribers /\ s \in Enrolled /\ told[s] = 0
      BY <2>8, <2>9, <3>1, <3>2 DEF Enrolled, Elements
    <3>4. Enrolled' = Enrolled /\ Enrolled \subseteq Subscribers
      BY <2>9, <3>1 DEF Enrolled, Elements
    <3> HIDE DEF s
    <3>5. told'[s] # 0 /\ \A t \in Subscribers : t # s => told'[t] = told[t]
      BY <2>9, <3>1, <3>3
    <3>6. s \in Members /\ Members' = Members \ {s}
      BY <2>7, <3>3, <3>4, <3>5
    <3> QED
      BY <1>0, <2>2, <2>3, <2>5, <3>1, <3>3, <3>6, TellImplements
  <2>11. CASE EndClosing
    <3>1. /\ Top.i = num_subscribers /\ told' = told /\ subscribers' = maybe_shrink_capacity(0, subscribers)
      BY <2>8, <2>11 DEF EndClosing, SetArray, Array, history, ClosingOK
    <3>2. subscribers' = <<>>
      BY <2>9, <3>1, ShrinkFacts
    <3>3. ASSUME NEW j \in 1..Len(subscribers)
          PROVE  subscribers[j] = NoSubscriber
      <4>1. CASE j <= num_subscribers
        BY <2>8, <2>9, <3>1, <4>1 DEF ClosingOK
      <4>2. CASE j > num_subscribers
        BY <4>2 DEF BusInv, ArrayOK
      <4> QED
        BY <2>9, <4>1, <4>2
    <3>4. Enrolled = {} /\ Enrolled' = {}
      BY <3>2, <3>3 DEF Enrolled, Elements
    <3>5. Members' = Members
      BY <2>7, <3>4
    <3> QED
      BY <1>0, <2>2, <2>5, <3>1, <3>5, StutterImplements
  <2> QED
    BY <1>2, <2>10, <2>11
<1> QED
  BY <1>1, <1>2

LEMMA ReturnImplements ==
  ASSUME BusInv, BusInv', ClientReturn
  PROVE  Abstract!Next \/ UNCHANGED Abstract!vars
<1>0. UNCHANGED <<known, told, unsubscribes_during_write>> /\ Running("client")
  BY DEF ClientReturn, CallbackReturns, CallbackRaises, HandlerRaises, LastValueReturns, LastValueRaises,
         OnCloseReturns, OnCloseRaises, client, history, put_off
<1>1. CASE CallbackReturns \/ LastValueReturns \/ LastValueRaises
  <2>1. /\ Top.why \in {"callback", "last_value"} /\ stack' = Tail(stack)
        /\ UNCHANGED <<array, put_off, told, known, state>>
    BY <1>1 DEF CallbackReturns, LastValueReturns, LastValueRaises, client, history
  <2>2. Loops' = Loops /\ ~ LoopRuns("removing")
    BY <1>0, <2>1, CallerPopped
  <2>3. Pending' = Pending /\ \A o : o # "client" => (LoopRuns(o)' <=> LoopRuns(o))
    BY <2>2, PendingKept
  <2>4. Members' = Members
    BY <1>0, <2>1, <2>2, <2>3, MembersKept DEF array
  <2> QED
    BY <1>0, <2>1, <2>3, <2>4, StutterImplements
<1>2. CASE HandlerRaises \/ OnCloseRaises
  <2>1. /\ Top.why \in {"callback", "on_close"} /\ stack' = Tail(Tail(stack)) /\ subscribers' = subscribers
        /\ (HandlerRaises => Top.why = "callback" /\ state' = "Closed")
        /\ (OnCloseRaises => Top.why = "on_close" /\ state' = state)
    BY <1>2 DEF HandlerRaises, OnCloseRaises, array
  <2>2. /\ Loops' = {} /\ LoopRuns(IF Top.why = "callback" THEN "write" ELSE "closing")
    BY <1>0, <2>1, TwoPopped
  <2>3. ~ LoopRuns("write")' /\ ~ LoopRuns("removing")' /\ Pending' = {}
    BY <2>2, LoopsRunNext DEF Pending
  <2>4. ~ LoopRuns("removing") /\ (Top.why = "on_close" => ~ LoopRuns("write"))
    BY <2>1, <2>2 DEF BusInv, Shape, OneLoop, LoopRuns
  <2>5. Members' = Members
    BY <1>0, <2>1, <2>3, <2>4, MembersKept
  <2>6. CASE HandlerRaises
    BY <1>0, <2>1, <2>2, <2>3, <2>5, <2>6, AbandonWriteImplements
  <2>7. CASE OnCloseRaises
    <3>1. Pending = {}
      BY <2>1, <2>4, <2>7, LoopsRun DEF Pending
    <3> QED
      BY <1>0, <2>1, <2>3, <2>4, <2>5, <2>7, <3>1, StutterImplements
  <2> QED
    BY <1>2, <2>6, <2>7
<1>3. CASE OnCloseReturns
  <2> DEFINE s == Top.who
  <2>1. /\ LoopRuns("closing") /\ LoopRuns("closing")' /\ state' = state /\ Top.why = "on_close"
        /\ subscribers' = [subscribers EXCEPT ![subscribers_index[s] + 1] = NoSubscriber]
        /\ subscribers_index' = [subscribers_index EXCEPT ![s] = -1]
    BY <1>3, OnCloseReturnsStep DEF OnCloseReturns, SetArray, Array
  <2>2. ~ LoopRuns("write") /\ ~ LoopRuns("removing")
    BY <2>1 DEF BusInv, Shape, OneLoop, LoopRuns
  <2>3. ~ LoopRuns("write")' /\ ~ LoopRuns("removing")'
    BY <2>1, OneKindOfLoopNext DEF BusInv
  <2>4. Pending = {} /\ Pending' = {}
    BY <2>2, <2>3, LoopsRun, LoopsRunNext DEF Pending
  <2>5. /\ Len(stack) \in Nat \ {0} /\ Top = stack[1] /\ Top.op = "client" /\ s \in Subscribers
    BY <1>0, ClientFacts DEF ClientFrame
  <2>6. 2 \in 1..Len(stack) /\ stack[2].op = "closing"
    BY <2>1, <2>5 DEF BusInv, Shape, CallersOK, Calls
  <2>7. told[s] # 0
    BY <2>5, <2>6 DEF BusInv, LoopOK
  <2>8. subscribers_index \in [Subscribers -> Int]
    BY DEF BusInv, TypeOK
  <2> HIDE DEF s
  <2>9. Enrolled' = Enrolled \ {s}
    <3>1. Enrolled = {t \in Subscribers : subscribers_index[t] >= 0}
      BY EnrolledAreSubscribed
    <3>2. (Enrolled = {t \in Subscribers : subscribers_index[t] >= 0})'
      <4>1. BusInv'
        OBVIOUS
      <4> QED
        BY <4>1, EnrolledAreSubscribed, PTL
    <3> QED
      BY <2>1, <2>5, <2>8, <3>1, <3>2
  <2>10. Members' = Members
    BY <1>0, <2>2, <2>3, <2>7, <2>9, MembersNow, MembersNext
  <2> QED
    BY <1>0, <2>1, <2>2, <2>3, <2>4, <2>10, StutterImplements
<1> QED
  BY <1>1, <1>2, <1>3 DEF ClientReturn, CallbackRaises

(* Every step of Bus is one of BusSpec, or changes nothing it speaks of.   *)
LEMMA StepImplements ==
  ASSUME BusInv, [Next]_vars
  PROVE  [Abstract!Next]_(Abstract!vars)
<1>1. BusInv'
  BY NextBusInv
<1>2. CASE UNCHANGED vars
  <2>1. Loops' = Loops /\ UNCHANGED <<subscribers, told, known, state, Members>>
    BY <1>2 DEF vars, settings, array, put_off, client, history, Loops, Members, PutOff, Running, Top, Elements
  <2> QED
    BY <2>1, PendingKept, StutterImplements
<1>3. CASE Next
  BY <1>1, <1>3, ClientCallImplements, SettleImplements, RemovingImplements, LoopImplements, ReturnImplements
     DEF Next, BusLoop
<1> QED
  BY <1>2, <1>3

(* Bus implements BusSpec: every write calls each subscriber it found once *)
(* and no other; a subscription made or ended during a write is for the    *)
(* next one; close takes effect after the write and tells each member      *)
(* once, whatever raises and whatever the callbacks do to the bus.         *)
THEOREM BusImplementsBusSpec == Spec => ImplementsBusSpec
<1>1. Init => Abstract!Init
  <2> SUFFICES ASSUME Init
               PROVE  Abstract!Init
    OBVIOUS
  <2>1. Loops = {} /\ ~ LoopRuns("write") /\ Elements(subscribers) = {}
    BY DEF Init, Loops, LoopRuns, Elements
  <2>2. Pending = {} /\ Members = {}
    BY <2>1 DEF Pending, Members
  <2> QED
    BY <2>1, <2>2, PendingNow, WritingNow DEF Init, Abstract!Init
<1>2. BusInv /\ [Next]_vars => [Abstract!Next]_(Abstract!vars)
  BY StepImplements
<1> QED
  BY <1>1, <1>2, BusInvAlways, PTL DEF Spec, ImplementsBusSpec, Abstract!Spec

-----------------------------------------------------------------------------
(***************************************************************************)
(* Whose on_close is called.                                               *)
(***************************************************************************)
(* Of those subscribed when the bus closed, the ones told are told once    *)
(* and the others are members still.                                       *)
ToldOK == /\ \A s \in Subscribers : told[s] <= 1
          /\ state = "Closed" => at_close = Members \cup {s \in Subscribers : told[s] # 0}

(* What a step of BusSpec does to who is left and who was told.            *)
LEMMA AbstractSteps ==
  ASSUME [Abstract!Next]_(Abstract!vars)
  PROVE  /\ state = "Closed" => state' = "Closed"
         /\ \/ told' = told /\ (state' = "Closed" => Members' = Members)
            \/ \E s \in Members : /\ state = "Closed"
                                  /\ Members' = Members \ {s}
                                  /\ told' = [told EXCEPT ![s] = @ + 1]
<1>1. ASSUME NEW s \in Subscribers, Abstract!Subscribe(s)
      PROVE  /\ state' = "Closed" <=> state = "Closed"
             /\ told' = told /\ (state' = "Closed" => Members' = Members)
  BY <1>1 DEF Abstract!Subscribe
<1>2. ASSUME NEW s \in Subscribers, Abstract!Unsubscribe(s) \/ Abstract!CallBack(s)
      PROVE  /\ state' = "Closed" <=> state = "Closed"
             /\ told' = told /\ (state' = "Closed" => Members' = Members)
  BY <1>2 DEF Abstract!Unsubscribe, Abstract!CallBack
<1>3. ASSUME NEW s \in Subscribers, Abstract!Tell(s)
      PROVE  /\ state = "Closed" /\ state' = "Closed" /\ s \in Members
             /\ Members' = Members \ {s} /\ told' = [told EXCEPT ![s] = @ + 1]
  BY <1>3 DEF Abstract!Tell
<1>4. CASE Abstract!StartWrite \/ Abstract!EndWrite \/ Abstract!AbandonWrite \/ Abstract!Close
  BY <1>4 DEF Abstract!StartWrite, Abstract!EndWrite, Abstract!AbandonWrite, Abstract!Close
<1>5. CASE UNCHANGED Abstract!vars
  BY <1>5 DEF Abstract!vars
<1> QED
  BY <1>1, <1>2, <1>3, <1>4, <1>5 DEF Abstract!Next

(* at_close is set where the bus is closed, and only there.                *)
LEMMA AtCloseSet ==
  ASSUME BusInv, [Next]_vars
  PROVE  /\ state = "Closed" => at_close' = at_close
         /\ state # "Closed" /\ state' = "Closed" => at_close' = StillSubscribed /\ InClient
<1>1. CASE ClientCall
  BY <1>1 DEF ClientCall, SubscribeClosed, Subscribe, SubscribeAndSend, AddSubscriber, Unsubscribe,
        UnsubscribeDuringWrite, Close, CloseDuringWrite, Write, WriteRefused, history
<1>2. CASE BusLoop
  BY <1>2 DEF BusLoop, CallBack, FinishWrite, StartRemoving, RemoveNext, RemoveFails, EndRemoving,
        CallOnClose, EndClosing, Settle, history
<1>3. CASE ClientReturn
  BY <1>3 DEF ClientReturn, CallbackReturns, CallbackRaises, HandlerRaises, LastValueReturns,
        LastValueRaises, OnCloseReturns, OnCloseRaises, InClient, history
<1>4. CASE UNCHANGED vars
  BY <1>4 DEF vars, history
<1> QED
  BY <1>1, <1>2, <1>3, <1>4 DEF Next

LEMMA MembersAtClose ==
  ASSUME BusInv, state # "Closed", InClient
  PROVE  Members = StillSubscribed /\ \A s \in Subscribers : told[s] = 0
<1>1. \A s \in Subscribers : told[s] = 0
  BY DEF BusInv, StateOK
<1>2. Enrolled = {s \in Subscribers : subscribers_index[s] >= 0}
  BY EnrolledAreSubscribed
<1>3. Members = {s \in Enrolled : told[s] = 0} \ Elements(unsubscribes_during_write)
  BY MembersNow, NoRemovingInClient
<1> QED
  BY <1>1, <1>2, <1>3 DEF StillSubscribed, is_subscribed

LEMMA StepToldOK ==
  ASSUME BusInv, ToldOK, [Next]_vars
  PROVE  ToldOK'
<1>1. /\ told \in [Subscribers -> Nat] /\ Members \subseteq Subscribers
      /\ \A s \in Members : told[s] = 0
  BY DEF BusInv, TypeOK, Members, Elements
<1>2. /\ state = "Closed" => state' = "Closed"
      /\ \/ told' = told /\ (state' = "Closed" => Members' = Members)
         \/ \E s \in Members : /\ state = "Closed"
                               /\ Members' = Members \ {s}
                               /\ told' = [told EXCEPT ![s] = @ + 1]
  BY StepImplements, AbstractSteps
<1>3. /\ state = "Closed" => at_close' = at_close
      /\ state # "Closed" /\ state' = "Closed" => at_close' = StillSubscribed /\ InClient
  BY AtCloseSet
<1>4. CASE told' = told /\ (state' = "Closed" => Members' = Members)
  <2>1. CASE state # "Closed" /\ state' = "Closed"
    <3>1. at_close' = Members /\ \A s \in Subscribers : told[s] = 0
      BY <1>3, <2>1, MembersAtClose
    <3> HIDE DEF Members
    <3> QED
      BY <1>4, <2>1, <3>1 DEF ToldOK
  <2>2. CASE state = "Closed" \/ state' # "Closed"
    <3> HIDE DEF Members
    <3> QED
      BY <1>2, <1>3, <1>4, <2>2 DEF ToldOK
  <2> QED
    BY <2>1, <2>2
<1>5. ASSUME NEW s \in Members, state = "Closed", Members' = Members \ {s},
             told' = [told EXCEPT ![s] = @ + 1]
      PROVE  ToldOK'
  <2>1. told'[s] = 1 /\ s \in Subscribers /\ \A t \in Subscribers : t # s => told'[t] = told[t]
    BY <1>1, <1>5
  <2>2. \A t \in Subscribers : told'[t] <= 1
    BY <2>1 DEF ToldOK
  <2>3. {t \in Subscribers : told'[t] # 0} = {t \in Subscribers : told[t] # 0} \cup {s}
    BY <2>1
  <2>4. at_close' = Members' \cup {t \in Subscribers : told'[t] # 0}
    BY <1>3, <1>5, <2>3 DEF ToldOK
  <2> QED
    BY <2>2, <2>4 DEF ToldOK
<1> QED
  BY <1>2, <1>4, <1>5

LEMMA ToldOKAlways == Spec => []ToldOK
<1>1. Init => ToldOK
  BY DEF Init, ToldOK
<1>2. BusInv /\ ToldOK /\ [Next]_vars => ToldOK'
  BY StepToldOK
<1> QED
  BY <1>1, <1>2, BusInvAlways, PTL DEF Spec

(* By the time the outermost call returns, the on_close of whoever was     *)
(* subscribed when the bus closed has been called once, and that of no one *)
(* else (close, finish_write, unsubscribe_all).                            *)
THEOREM BusOnCloseCalled == Spec => []OnCloseCalled
<1>1. ASSUME MannersInv, ToldOK
      PROVE  OnCloseCalled
  <2> SUFFICES ASSUME stack = <<>>, state = "Closed",
                      manners.raises \cap {"handler", "on_close"} = {}, manners.repeats = 0
               PROVE  \A s \in Subscribers : told[s] = IF s \in at_close THEN 1 ELSE 0
    BY DEF OnCloseCalled
  <2>1. subscribers = <<>>
    BY <1>1 DEF MannersInv, ClosedOK, WriteOrRemoving, LoopRuns
  <2>2. Elements(subscribers) = {}
    BY <2>1 DEF Elements
  <2>3. Members = {}
    BY <2>2 DEF Members
  <2>4. told \in [Subscribers -> Nat]
    BY <1>1 DEF MannersInv, BusInv, TypeOK
  <2>5. at_close = {s \in Subscribers : told[s] # 0} /\ \A s \in Subscribers : told[s] <= 1
    BY <1>1, <2>3 DEF ToldOK
  <2> QED
    BY <2>4, <2>5
<1> QED
  BY <1>1, MannersInvAlways, ToldOKAlways, PTL
=============================================================================
