--------------------------------- MODULE Bus ---------------------------------
(***************************************************************************)
(* Bus (core_kernel/bus): a broadcast channel of callbacks.  There is one  *)
(* thread; what makes it hard is re-entrancy: a callback that a write or a *)
(* subscription calls, and an on_close that close calls, may itself        *)
(* subscribe, unsubscribe, close or write on the same bus, or raise.  The  *)
(* call stack is explicit: an action is a stretch of bus.ml that runs      *)
(* between two pieces of client code.                                      *)
(***************************************************************************)
EXTENDS Integers, Sequences, FiniteSets

CONSTANTS Subscribers, NoSubscriber,
          Policies,             (* the on_subscription_after_first_write tried     *)
          MaxWrites,            (* bound on the writes of a behaviour              *)
          Manners               (* what clients do, of which a behaviour has one:  *)
                                (* which of "callback", "handler" and "on_close"   *)
                                (* raises, and how often an unsubscribe is         *)
                                (* repeated within a write                         *)

ASSUME BusAssumption ==
          /\ NoSubscriber \notin Subscribers
          /\ Policies \subseteq {"Raise", "Allow", "Allow_and_send_last_value"}
          /\ MaxWrites \in Nat
          /\ \A m \in Manners : /\ m.raises \subseteq {"callback", "handler", "on_close"}
                                /\ m.repeats \in Nat

VARIABLES
  manners,            (* of the clients                                            *)
  policy,             (* t.on_subscription_after_first_write                       *)
  state,              (* t.state                                                   *)
  write_ever_called,
  num_subscribers,
  subscribers,        (* t.subscribers, and t.callbacks, which mirrors it; slot i  *)
                      (* of the OCaml array is subscribers[i + 1]                  *)
  subscribers_index,  (* the mutable field of each subscriber                      *)
  unsubscribes_during_write,
  last_value,         (* t.last_value; 0 stands for None                           *)
  stack,              (* the calls in progress, innermost first                    *)
  known,              (* the subscribers made so far                               *)
  handles,            (* those subscribe_exn has returned to the client            *)
  writes,             (* the number of values written; the n-th value is n         *)
  got,                (* history: the last value each subscriber was called with   *)
  told,               (* history: how often each on_close was called               *)
  at_close            (* history: those that were subscribed when the bus closed   *)

settings == <<manners, policy, write_ever_called, last_value>>
array    == <<num_subscribers, subscribers, subscribers_index>>
put_off  == unsubscribes_during_write
client   == <<known, handles, writes>>
history  == <<got, told, at_close>>
vars     == <<settings, state, array, put_off, stack, client, history>>

(***************************************************************************)
(* Frames of the stack: client code, or the bus's own loops.               *)
(***************************************************************************)
Client(why, s)      == [op |-> "client", why |-> why, who |-> s]
Writing(callbacks)  == [op |-> "write", callbacks |-> callbacks, i |-> 0]
Removing(list)      == [op |-> "removing", rest |-> list]
Closing(last)       == [op |-> "closing", i |-> 0, last |-> last]

Top == Head(stack)
Running(op) == stack # <<>> /\ Top.op = op

\* The caller of the bus: the main program, or a callback of the bus.
InClient == stack = <<>> \/ Running("client")

capacity == Len(subscribers)

Elements(seq) == {seq[i] : i \in 1..Len(seq)}

TypeOK == /\ manners \in Manners
          /\ policy \in Policies
          /\ state \in {"Closed", "Write_in_progress", "Ok_to_write"}
          /\ write_ever_called \in BOOLEAN
          /\ subscribers \in Seq(Subscribers \cup {NoSubscriber})
          /\ num_subscribers \in 0..capacity
          /\ subscribers_index \in [Subscribers -> Int]
          /\ \A s \in Subscribers : subscribers_index[s] \in -1..capacity - 1
          /\ unsubscribes_during_write \in Seq(Subscribers)
          /\ last_value \in 0..writes
          /\ known \in SUBSET Subscribers
          /\ handles \in SUBSET known
          /\ writes \in 0..MaxWrites
          /\ got \in [Subscribers -> 0..MaxWrites]
          /\ told \in [Subscribers -> Nat]
          /\ at_close \in SUBSET Subscribers

\* create_exn.
Init == /\ manners \in Manners
        /\ policy \in Policies
        /\ state = "Ok_to_write"
        /\ write_ever_called = FALSE
        /\ num_subscribers = 0
        /\ subscribers = <<>>
        /\ subscribers_index = [s \in Subscribers |-> -1]
        /\ unsubscribes_during_write = <<>>
        /\ last_value = 0
        /\ stack = <<>>
        /\ known = {}
        /\ handles = {}
        /\ writes = 0
        /\ got = [s \in Subscribers |-> 0]
        /\ told = [s \in Subscribers |-> 0]
        /\ at_close = {}

-----------------------------------------------------------------------------
(***************************************************************************)
(* The arrays.                                                             *)
(***************************************************************************)

Array(n, slots, index) == [n |-> n, slots |-> slots, index |-> index]

\* maybe_shrink_capacity.
maybe_shrink_capacity(n, slots) == IF n * 4 <= Len(slots) THEN SubSeq(slots, 1, n) ELSE slots

\* enlarge_capacity, when it is needed.
enlarge_capacity(slots) ==
  IF num_subscribers < Len(slots) THEN slots
  ELSE [i \in 1..(IF Len(slots) = 0 THEN 1 ELSE 2 * Len(slots)) |->
          IF i <= Len(slots) THEN slots[i] ELSE NoSubscriber]

\* Mutant: the moved subscriber keeps its old index.
RemovedStaleIndex(s) ==
  LET hole == subscribers_index[s]
      last == num_subscribers - 1
      slots == [subscribers EXCEPT ![hole + 1] = subscribers[last + 1], ![last + 1] = NoSubscriber]
  IN Array(last, maybe_shrink_capacity(last, slots), [subscribers_index EXCEPT ![s] = -1])

\* unsubscribe_assuming_valid_subscriber: the last subscriber moves into the
\* hole.
Removed(s) ==
  LET hole == subscribers_index[s]
      last == num_subscribers - 1
      moved == subscribers[last + 1]
      slots == [subscribers EXCEPT ![hole + 1] = moved, ![last + 1] = NoSubscriber]
      index == [subscribers_index EXCEPT ![moved] = hole, ![s] = -1]
  IN Array(last, maybe_shrink_capacity(last, slots), index)

SetArray(a) == /\ num_subscribers' = a.n
               /\ subscribers' = a.slots
               /\ subscribers_index' = a.index

-----------------------------------------------------------------------------
(***************************************************************************)
(* The calls of the client.                                                *)
(***************************************************************************)

can_subscribe == policy # "Raise" \/ ~ write_ever_called

\* subscribe_exn (and iter_exn and fold_exn, which call it) on a closed bus.
SubscribeClosed(s) == /\ InClient /\ can_subscribe
                      /\ s \notin known
                      /\ state = "Closed"
                      /\ known' = known \cup {s}
                      /\ handles' = handles \cup {s}
                      /\ UNCHANGED <<settings, state, array, put_off, stack, writes, history>>

AddSubscriber(s) ==
  /\ InClient /\ can_subscribe
  /\ s \notin known
  /\ state # "Closed"
  /\ known' = known \cup {s}
  /\ SetArray(Array(num_subscribers + 1,
                    [enlarge_capacity(subscribers) EXCEPT ![num_subscribers + 1] = s],
                    [subscribers_index EXCEPT ![s] = num_subscribers]))

\* subscribe_exn when there is no last value to send.
Subscribe(s) == /\ AddSubscriber(s)
                /\ last_value = 0
                /\ handles' = handles \cup {s}
                /\ UNCHANGED <<settings, state, put_off, stack, writes, history>>

\* subscribe_exn when there is: Last_value.send calls the callback before the
\* subscriber is returned.
SubscribeAndSend(s) == /\ AddSubscriber(s)
                       /\ last_value # 0
                       /\ stack' = <<Client("last_value", s)>> \o stack
                       /\ got' = [got EXCEPT ![s] = last_value]
                       /\ UNCHANGED <<settings, state, put_off, handles, writes, told, at_close>>

is_subscribed(s) == subscribers_index[s] >= 0

Unsubscribe(s) == /\ InClient
                  /\ s \in handles /\ is_subscribed(s)
                  /\ state = "Ok_to_write"
                  /\ SetArray(Removed(s))
                  /\ UNCHANGED <<settings, state, put_off, stack, client, history>>

\* Mutant: unsubscribe is not put off during a write.
UnsubscribeAtOnce(s) == /\ InClient
                        /\ s \in handles /\ is_subscribed(s)
                        /\ state = "Write_in_progress"
                        /\ SetArray(Removed(s))
                        /\ UNCHANGED <<settings, state, put_off, stack, client, history>>

UnsubscribeDuringWrite(s) ==
  /\ InClient
  /\ s \in handles /\ is_subscribed(s)
  /\ state = "Write_in_progress"
  /\ Cardinality({i \in 1..Len(unsubscribes_during_write) :
                     unsubscribes_during_write[i] = s}) <= manners.repeats
  /\ unsubscribes_during_write' = <<s>> \o unsubscribes_during_write
  /\ UNCHANGED <<settings, state, array, stack, client, history>>

\* Those subscribed now, and not only until the current write ends.
StillSubscribed == {s \in Subscribers : is_subscribed(s)} \ Elements(unsubscribes_during_write)

\* close, when no write is in progress: unsubscribe_all starts.
Close == /\ InClient
         /\ state = "Ok_to_write"
         /\ state' = "Closed"
         /\ stack' = <<Closing(num_subscribers)>> \o stack
         /\ at_close' = StillSubscribed
         /\ UNCHANGED <<settings, array, put_off, client, got, told>>

\* close from a callback: takes effect in finish_write.
CloseDuringWrite == /\ InClient
                    /\ state = "Write_in_progress"
                    /\ state' = "Closed"
                    /\ at_close' = StillSubscribed
                    /\ UNCHANGED <<settings, array, put_off, stack, client, got, told>>

\* write on a closed bus, or from a callback: raises to the client.
WriteRefused == /\ InClient
                /\ state # "Ok_to_write"
                /\ write_ever_called' = TRUE
                /\ UNCHANGED <<manners, policy, last_value, state, array, put_off, stack, client, history>>

\* Mutant: a write nobody is subscribed to is not remembered.
NewLastValueIfHeard(v) == IF policy = "Allow_and_send_last_value" /\ num_subscribers > 0
                          THEN v ELSE last_value

NewLastValue(v) == IF policy = "Allow_and_send_last_value" THEN v ELSE last_value

\* write: captures the callbacks and their number.
Write == /\ InClient
         /\ state = "Ok_to_write"
         /\ writes < MaxWrites
         /\ writes' = writes + 1
         /\ write_ever_called' = TRUE
         /\ last_value' = NewLastValue(writes')
         /\ IF num_subscribers > 0
            THEN /\ state' = "Write_in_progress"
                 /\ stack' = <<Writing(SubSeq(subscribers, 1, num_subscribers))>> \o stack
            ELSE UNCHANGED <<state, stack>>
         /\ UNCHANGED <<manners, policy, array, put_off, known, handles, history>>

-----------------------------------------------------------------------------
(***************************************************************************)
(* The loops of the bus.                                                   *)
(***************************************************************************)

\* Mutant: the loop goes on to subscribers that were added during the write.
CallBackLive == /\ Running("write")
                /\ Top.i < num_subscribers
                /\ LET s == subscribers[Top.i + 1]
                   IN /\ stack' = <<Client("callback", s), [Top EXCEPT !.i = @ + 1]>> \o Tail(stack)
                      /\ got' = [got EXCEPT ![s] = writes]
                /\ UNCHANGED <<settings, state, array, put_off, client, told, at_close>>

\* One turn of the loop of write: the counter is advanced before the call.
CallBack == /\ Running("write")
            /\ Top.i < Len(Top.callbacks)
            /\ LET s == Top.callbacks[Top.i + 1]
               IN /\ stack' = <<Client("callback", s), [Top EXCEPT !.i = @ + 1]>> \o Tail(stack)
                  /\ got' = [got EXCEPT ![s] = writes]
            /\ UNCHANGED <<settings, state, array, put_off, client, told, at_close>>

\* Mutant: finish_write empties the arrays of a closed bus without calling any
\* on_close.
SettleClearing(rest) == IF state = "Closed"
                        THEN stack' = <<Closing(0)>> \o rest /\ UNCHANGED state
                        ELSE stack' = rest /\ state' = "Ok_to_write"

\* Mutant: finish_write reopens the bus whatever the callbacks did.
SettleReopening(rest) == stack' = rest /\ state' = "Ok_to_write"

\* The match on the state at the end of finish_write.
Settle(rest) == IF state = "Closed"
                THEN /\ stack' = <<Closing(num_subscribers)>> \o rest
                     /\ UNCHANGED state
                ELSE /\ stack' = rest
                     /\ state' = "Ok_to_write"

\* finish_write without unsubscribes to make up for.
FinishWrite == /\ Running("write")
               /\ Top.i = Len(Top.callbacks)
               /\ unsubscribes_during_write = <<>>
               /\ Settle(Tail(stack))
               /\ UNCHANGED <<settings, array, put_off, client, history>>

\* finish_write with some: unsubscribe_after_finish_write iterates over them.
StartRemoving == /\ Running("write")
                 /\ Top.i = Len(Top.callbacks)
                 /\ unsubscribes_during_write # <<>>
                 /\ stack' = <<Removing(unsubscribes_during_write)>> \o Tail(stack)
                 /\ UNCHANGED <<settings, state, array, put_off, client, history>>

RemoveNext == /\ Running("removing")
              /\ Top.rest # <<>>
              /\ is_subscribed(Head(Top.rest))
              /\ SetArray(Removed(Head(Top.rest)))
              /\ stack' = <<Removing(Tail(Top.rest))>> \o Tail(stack)
              /\ UNCHANGED <<settings, state, put_off, client, history>>

\* A subscriber that is no longer in the array has index -1: set_none raises
\* out of finish_write and out of write.
RemoveFails == /\ Running("removing")
               /\ Top.rest # <<>>
               /\ ~ is_subscribed(Head(Top.rest))
               /\ stack' = Tail(stack)
               /\ UNCHANGED <<settings, state, array, put_off, client, history>>

\* Mutant: the list is not reset.
EndRemovingKeepingList == /\ Running("removing")
                          /\ Top.rest = <<>>
                          /\ Settle(Tail(stack))
                          /\ UNCHANGED <<settings, array, put_off, client, history>>

EndRemoving == /\ Running("removing")
               /\ Top.rest = <<>>
               /\ unsubscribes_during_write' = <<>>
               /\ Settle(Tail(stack))
               /\ UNCHANGED <<settings, array, client, history>>

\* One turn of the loop of unsubscribe_all: the on_close of a subscriber.
CallOnClose == /\ Running("closing")
               /\ Top.i < Top.last
               /\ LET s == subscribers[Top.i + 1]
                  IN /\ stack' = <<Client("on_close", s)>> \o stack
                     /\ told' = [told EXCEPT ![s] = @ + 1]
               /\ UNCHANGED <<settings, state, array, put_off, client, got, at_close>>

EndClosing == /\ Running("closing")
              /\ Top.i = Top.last
              /\ SetArray(Array(0, maybe_shrink_capacity(0, subscribers), subscribers_index))
              /\ stack' = Tail(stack)
              /\ UNCHANGED <<settings, state, put_off, client, history>>

-----------------------------------------------------------------------------
(***************************************************************************)
(* Client code returns or raises.                                          *)
(***************************************************************************)

\* A callback returns to the loop of write.
CallbackReturns == /\ Running("client") /\ Top.why = "callback"
                   /\ stack' = Tail(stack)
                   /\ UNCHANGED <<settings, state, array, put_off, client, history>>

\* A callback raises, and the subscriber's or the bus's on_callback_raise
\* deals with it: write goes on.
CallbackRaises == /\ "callback" \in manners.raises
                  /\ CallbackReturns

\* A callback raises, and so does the bus's on_callback_raise: close, then the
\* exception leaves write without finish_write.
HandlerRaises == /\ {"callback", "handler"} \subseteq manners.raises
                 /\ Running("client") /\ Top.why = "callback"
                 /\ state' = "Closed"
                 /\ stack' = Tail(Tail(stack))
                 /\ at_close' = IF state = "Closed" THEN at_close ELSE StillSubscribed
                 /\ UNCHANGED <<settings, array, put_off, client, got, told>>

\* Last_value.send returns; so does subscribe_exn.
LastValueReturns == /\ Running("client") /\ Top.why = "last_value"
                    /\ handles' = handles \cup {Top.who}
                    /\ stack' = Tail(stack)
                    /\ UNCHANGED <<settings, state, array, put_off, known, writes, history>>

\* The callback raises out of subscribe_exn: subscribed, but nobody has the
\* subscriber.
LastValueRaises == /\ "callback" \in manners.raises
                   /\ Running("client") /\ Top.why = "last_value"
                   /\ stack' = Tail(stack)
                   /\ UNCHANGED <<settings, state, array, put_off, client, history>>

\* on_close returns to unsubscribe_all, which removes the subscriber.
OnCloseReturns == /\ Running("client") /\ Top.why = "on_close"
                  /\ LET loop == stack[2]
                     IN /\ SetArray(Array(num_subscribers,
                                          [subscribers EXCEPT ![subscribers_index[Top.who] + 1] =
                                                                  NoSubscriber],
                                          [subscribers_index EXCEPT ![Top.who] = -1]))
                        /\ stack' = <<[loop EXCEPT !.i = @ + 1]>> \o Tail(Tail(stack))
                  /\ UNCHANGED <<settings, state, put_off, client, history>>

\* on_close raises out of unsubscribe_all, and out of close or write.
OnCloseRaises == /\ "on_close" \in manners.raises
                 /\ Running("client") /\ Top.why = "on_close"
                 /\ stack' = Tail(Tail(stack))
                 /\ UNCHANGED <<settings, state, array, put_off, client, history>>

ClientCall == \/ \E s \in Subscribers : \/ SubscribeClosed(s)
                                        \/ Subscribe(s)
                                        \/ SubscribeAndSend(s)
                                        \/ Unsubscribe(s)
                                        \/ UnsubscribeDuringWrite(s)
              \/ Close \/ CloseDuringWrite
              \/ Write \/ WriteRefused

BusLoop == \/ CallBack \/ FinishWrite
           \/ StartRemoving \/ RemoveNext \/ RemoveFails \/ EndRemoving
           \/ CallOnClose \/ EndClosing

ClientReturn == \/ CallbackReturns \/ CallbackRaises \/ HandlerRaises
                \/ LastValueReturns \/ LastValueRaises
                \/ OnCloseReturns \/ OnCloseRaises

Next == ClientCall \/ BusLoop \/ ClientReturn

Spec == Init /\ [][Next]_vars

-----------------------------------------------------------------------------
(***************************************************************************)
(* Properties.                                                             *)
(***************************************************************************)

Frames(op) == {k \in 1..Len(stack) : stack[k].op = op}

(* Whenever client code or the write loop runs and the bus is not being    *)
(* closed, the first num_subscribers slots hold each subscriber at its own *)
(* index and the other slots are empty: the invariant of bus.ml, through   *)
(* re-entrant removals, swaps, enlargements and shrinkings.  An on_close   *)
(* that raises stops the emptying of the arrays of a closed bus.           *)
ArraysConsistent ==
  /\ TypeOK
  /\ Frames("closing") = {} /\ "on_close" \notin manners.raises =>
     /\ \A i \in 1..capacity :
           IF i <= num_subscribers
           THEN subscribers[i] # NoSubscriber /\ subscribers_index[subscribers[i]] = i - 1
           ELSE subscribers[i] = NoSubscriber
     /\ \A s \in Subscribers : is_subscribed(s) => s \in Elements(subscribers)

(* While write runs, the slots it captured keep their subscribers, which   *)
(* the unchecked reads of write and the lookup of the subscriber that      *)
(* raised in callback_raised rely on, whatever the callbacks do.           *)
CapturedSlotsStable ==
  \A k \in Frames("write") :
     LET callbacks == stack[k].callbacks
     IN /\ Len(callbacks) <= num_subscribers
        /\ \A i \in 1..Len(callbacks) : callbacks[i] = subscribers[i]

(* Once the outermost call has returned or raised, the bus is not left in  *)
(* Write_in_progress, where every later write would be refused as if it    *)
(* came from a callback.                                                   *)
AlwaysLeavesWriting == stack = <<>> => state # "Write_in_progress"

(* This holds of clients that do not repeat an unsubscribe within a write, *)
(* whatever raises.                                                        *)
NeverStuckWriting == manners.repeats = 0 => AlwaysLeavesWriting

(* The subscribers of the next write: those in the array, without those    *)
(* whose unsubscription is put off and those already told of the close.    *)
PutOff == IF Running("removing") THEN Elements(Top.rest) ELSE Elements(unsubscribes_during_write)

Members == {s \in Elements(subscribers) \ {NoSubscriber} : told[s] = 0} \ PutOff

(* Once the outermost call has returned or raised on a closed bus, the     *)
(* on_close of whoever was subscribed when the bus closed has been called, *)
(* once, and no other has: neither that of one whose unsubscription a      *)
(* write had put off nor that of one who subscribed to the closed bus.  An *)
(* exception of on_callback_raise skips finish_write, and one of an        *)
(* on_close the on_close functions after it; a repeated unsubscribe skips  *)
(* both.                                                                   *)
OnCloseCalled ==
  /\ stack = <<>> /\ state = "Closed"
  /\ manners.raises \cap {"handler", "on_close"} = {} /\ manners.repeats = 0
  => \A s \in Subscribers : told[s] = IF s \in at_close THEN 1 ELSE 0

(* A call of a subscriber's callback, by write or by Last_value.send.      *)
Called(s) == /\ Len(stack') > Len(stack)
             /\ Head(stack') \in {Client("callback", s), Client("last_value", s)}

(* With Allow_and_send_last_value, each call of a subscriber's callback    *)
(* but the first is with the value after that of the call before: no gap   *)
(* and no repetition between the value Last_value.send delivers, possibly  *)
(* within the write of that same value, and those of the writes that       *)
(* follow.                                                                 *)
NoGapNoRepetition ==
  [][\A s \in Subscribers :
        policy = "Allow_and_send_last_value" /\ Called(s) /\ got[s] # 0
           => got'[s] = got[s] + 1]_vars

(* The refinement.  The current write has still to call those of the       *)
(* callbacks it captured that it has not reached.                          *)
PendingOf(k) == {stack[k].callbacks[i] : i \in stack[k].i + 1..Len(stack[k].callbacks)}

Abstract == INSTANCE BusSpec WITH
              members <- Members,
              pending <- UNION {PendingOf(k) : k \in Frames("write")},
              writing <- Frames("write") # {},
              closed  <- state = "Closed"

(* Bus implements BusSpec: every write calls exactly the callbacks it      *)
(* found, once; the arrays hold exactly the members; and on_close is       *)
(* called once, after the last write, for members only.                    *)
ImplementsBusSpec == Abstract!Spec
==============================================================================
