----------------------------- MODULE WeakHashtbl -----------------------------
(***************************************************************************)
(* Weak_hashtbl (core_kernel/weak_hashtbl): a table from keys to weak      *)
(* pointers.  The collector empties a pointer when nothing else refers to  *)
(* its data, and later runs the cleanup that set_data has attached, which  *)
(* queues the key; reclaim_space_for_keys_with_unused_data removes queued  *)
(* keys whose pointer is still empty.  The collector and the cleanups come *)
(* between any two steps of the program, and find_or_add calls a default   *)
(* that may use the table.                                                 *)
(***************************************************************************)
EXTENDS Naturals, Sequences

CONSTANTS Keys,
          Data,         (* the heap blocks there can be at a time            *)
          Static,       (* those outside the heap, which are never collected *)
          Entries,      (* the weak pointers there can be at a time          *)
          None,
          MaxCleanups,  (* how many cleanups are attached to one block       *)
          MaxQueue,     (* how many cleanups may be due or queued when the   *)
                        (* program sets data                                 *)
          MaxDepth      (* of find_or_add inside the default of find_or_add  *)

ASSUME WeakAssumption == /\ Static \subseteq Data
                         /\ None \notin Keys /\ None \notin Data /\ None \notin Entries
                         /\ MaxCleanups \in Nat /\ MaxQueue \in Nat /\ MaxDepth \in Nat

VARIABLES entry_by_key,
          weak,                   (* what each entry points to               *)
          keys_with_unused_data,
          finalisers,             (* attached to each block                  *)
          pending,                (* cleanups of blocks that were collected  *)
          calling,                (* a cleanup has queued its key, and will  *)
                                  (* call thread_safe_run_when_unused_data   *)
          scheduled,              (* which has asked for a reclaim           *)
          held,                   (* the blocks the program refers to        *)
          defaults,               (* the find_or_adds that are in default () *)
          reclaiming,             (* whether reclaim runs, and the key that  *)
                                  (* it has taken from the queue             *)
          stored,                 (* the data set last in the entry a key    *)
                                  (* has in the table, until it is collected *)
                                  (* or the key removed by the program       *)
          given_up                (* keys whose default has raised           *)

table == <<entry_by_key, weak, stored>>
gc    == <<finalisers, pending, calling, scheduled>>
tableVars == <<table, keys_with_unused_data, gc, held, defaults, reclaiming, given_up>>

Frames == [key : Keys, entry : Entries]

Off == [on |-> FALSE, key |-> None]
On(k) == [on |-> TRUE, key |-> k]

TableTypeOK == /\ entry_by_key \in [Keys -> Entries \cup {None}]
               /\ weak \in [Entries -> Data \cup {None}]
               /\ stored \in [Keys -> Data \cup {None}]
               /\ keys_with_unused_data \in Seq(Keys)
               /\ finalisers \in [Data -> Seq(Keys)]
               /\ pending \in Seq(Keys)
               /\ calling \in BOOLEAN /\ scheduled \in BOOLEAN
               /\ held \in SUBSET Data
               /\ defaults \in Seq(Frames)
               /\ reclaiming \in {Off} \cup {On(k) : k \in Keys \cup {None}}
               /\ given_up \in SUBSET Keys
               /\ \A j, k \in Keys : j # k /\ entry_by_key[j] = entry_by_key[k] => entry_by_key[j] = None

\* create.
TableInit == /\ entry_by_key = [k \in Keys |-> None]
             /\ weak = [e \in Entries |-> None]
             /\ stored = [k \in Keys |-> None]
             /\ keys_with_unused_data = <<>>
             /\ finalisers = [d \in Data |-> <<>>]
             /\ pending = <<>> /\ calling = FALSE /\ scheduled = FALSE
             /\ held = {}
             /\ defaults = <<>>
             /\ reclaiming = Off
             /\ given_up = {}

-----------------------------------------------------------------------------
(* The collector (external). *)

\* A block that nothing refers to is found dead: the pointers to it are
\* emptied, and its cleanups are due.
Collect(d) ==
    /\ d \notin held \cup Static
    /\ finalisers[d] # <<>> \/ \E e \in Entries : weak[e] = d
    /\ weak' = [e \in Entries |-> IF weak[e] = d THEN None ELSE weak[e]]
    /\ stored' = [k \in Keys |-> IF stored[k] = d THEN None ELSE stored[k]]
    /\ pending' = pending \o finalisers[d]
    /\ finalisers' = [finalisers EXCEPT ![d] = <<>>]
    /\ UNCHANGED <<entry_by_key, keys_with_unused_data, calling, scheduled, held, defaults,
                   reclaiming, given_up>>

\* Mutant: thread_safe_run_when_unused_data is not called.
CleanupSilent ==
    /\ pending # <<>> /\ ~ calling
    /\ keys_with_unused_data' = Append(keys_with_unused_data, Head(pending))
    /\ pending' = Tail(pending)
    /\ UNCHANGED <<table, finalisers, calling, scheduled, held, defaults, reclaiming, given_up>>

\* The cleanup of set_data: it queues the key ...
Cleanup ==
    /\ pending # <<>> /\ ~ calling
    /\ keys_with_unused_data' = Append(keys_with_unused_data, Head(pending))
    /\ pending' = Tail(pending)
    /\ calling' = TRUE
    /\ UNCHANGED <<table, finalisers, scheduled, held, defaults, reclaiming, given_up>>

\* ... and calls what set_run_when_unused_data was given, which arranges for a
\* reclaim and does not use the table.
RunWhenUnusedData ==
    /\ calling
    /\ calling' = FALSE /\ scheduled' = TRUE
    /\ UNCHANGED <<table, keys_with_unused_data, finalisers, pending, held, defaults, reclaiming,
                   given_up>>

-----------------------------------------------------------------------------
(* The program, one thread.  Outside reclaim it calls anything, also from a  *)
(* default.                                                                  *)

Calls == ~ reclaiming.on

\* The program takes up a block it has made, or forgets one; in find_or_add
\* it may be forgotten as soon as the call returns it.
Forget(d) ==
    /\ Calls /\ d \in held
    /\ held' = held \ {d}
    /\ UNCHANGED <<table, keys_with_unused_data, gc, defaults, reclaiming, given_up>>

\* The blocks the program can pass: those it has and new ones.
Passable == held \cup {d \in Data : finalisers[d] = <<>> /\ \A e \in Entries : weak[e] # d}

Remove(k) ==
    /\ Calls
    /\ entry_by_key' = [entry_by_key EXCEPT ![k] = None]
    /\ stored' = [stored EXCEPT ![k] = None]
    /\ given_up' = given_up \ {k}
    /\ UNCHANGED <<weak, keys_with_unused_data, gc, held, defaults, reclaiming>>

Clear ==
    /\ Calls
    /\ entry_by_key' = [k \in Keys |-> None]
    /\ stored' = [k \in Keys |-> None]
    /\ given_up' = {}
    /\ UNCHANGED <<weak, keys_with_unused_data, gc, held, defaults, reclaiming>>

\* get_entry: the entry of a key, which is made if there is none; a new one is
\* one that no one refers to.
GotEntry(k) ==
    IF entry_by_key[k] # None THEN {entry_by_key[k]}
    ELSE {e \in Entries : /\ \A j \in Keys : entry_by_key[j] # e
                          /\ \A i \in DOMAIN defaults : defaults[i].entry # e}

HasData(k) == IF entry_by_key[k] = None THEN FALSE ELSE weak[entry_by_key[k]] # None

\* Mutant: no second cleanup for a key that is queued already.
SetDataOnce(k, e, d) ==
    /\ d \in Static \/ Len(finalisers[d]) < MaxCleanups
    /\ Len(pending) + Len(keys_with_unused_data) < MaxQueue
    /\ weak' = [weak EXCEPT ![e] = d]
    /\ finalisers' = [finalisers EXCEPT ![d] =
           IF d \in Static \/ \E i \in DOMAIN keys_with_unused_data : keys_with_unused_data[i] = k
           THEN @ ELSE Append(@, k)]
    /\ held' = held \cup {d}
    /\ stored' = IF entry_by_key'[k] = e THEN [stored EXCEPT ![k] = d] ELSE stored
    /\ given_up' = IF entry_by_key'[k] = e THEN given_up \ {k} ELSE given_up
    /\ UNCHANGED <<pending, calling, scheduled>>

\* set_data: in the entry, be it that of the key still or not.
SetData(k, e, d) ==
    /\ d \in Static \/ Len(finalisers[d]) < MaxCleanups
    /\ Len(pending) + Len(keys_with_unused_data) < MaxQueue
    /\ weak' = [weak EXCEPT ![e] = d]
    /\ finalisers' = [finalisers EXCEPT ![d] = IF d \in Static THEN @ ELSE Append(@, k)]
    /\ held' = held \cup {d}
    /\ stored' = IF entry_by_key'[k] = e THEN [stored EXCEPT ![k] = d] ELSE stored
    /\ given_up' = IF entry_by_key'[k] = e THEN given_up \ {k} ELSE given_up
    /\ UNCHANGED <<pending, calling, scheduled>>

Replace(k, d) ==
    /\ Calls /\ d \in Passable
    /\ \E e \in GotEntry(k) :
          entry_by_key' = [entry_by_key EXCEPT ![k] = e] /\ SetData(k, e, d)
    /\ UNCHANGED <<keys_with_unused_data, defaults, reclaiming>>

\* add_exn, which raises if there is data.
AddExn(k, d) ==
    /\ Calls /\ d \in Passable
    /\ ~ HasData(k)
    /\ \E e \in GotEntry(k) :
          entry_by_key' = [entry_by_key EXCEPT ![k] = e] /\ SetData(k, e, d)
    /\ UNCHANGED <<keys_with_unused_data, defaults, reclaiming>>

\* find, and find_or_add of a key that has data.
Find(k) ==
    /\ Calls /\ HasData(k)
    /\ held' = held \cup {weak[entry_by_key[k]]}
    /\ UNCHANGED <<table, keys_with_unused_data, gc, defaults, reclaiming, given_up>>

\* find_or_add of a key without data: its entry is empty while default runs.
FindOrAdd(k) ==
    /\ Calls /\ Len(defaults) < MaxDepth
    /\ ~ HasData(k)
    /\ \E e \in GotEntry(k) :
          /\ entry_by_key' = [entry_by_key EXCEPT ![k] = e]
          /\ weak' = [weak EXCEPT ![e] = None]
          /\ defaults' = Append(defaults, [key |-> k, entry |-> e])
    /\ UNCHANGED <<stored, keys_with_unused_data, gc, held, reclaiming, given_up>>

Frame == defaults[Len(defaults)]
Leave == defaults' = SubSeq(defaults, 1, Len(defaults) - 1)

\* default returns its data, which goes into the entry found before.
DefaultReturns(d) ==
    /\ Calls /\ defaults # <<>> /\ d \in Passable
    /\ Leave
    /\ UNCHANGED <<entry_by_key, keys_with_unused_data, reclaiming>>
    /\ SetData(Frame.key, Frame.entry, d)

DefaultRaises ==
    /\ Calls /\ defaults # <<>>
    /\ Leave
    /\ given_up' = IF entry_by_key[Frame.key] = Frame.entry THEN given_up \cup {Frame.key} ELSE given_up
    /\ UNCHANGED <<table, keys_with_unused_data, gc, held, reclaiming>>

\* reclaim_space_for_keys_with_unused_data, a step for each key dequeued and
\* one for its entry.
Reclaim ==
    /\ Calls
    /\ reclaiming' = On(None)
    /\ scheduled' = FALSE
    /\ UNCHANGED <<table, keys_with_unused_data, finalisers, pending, calling, held, defaults, given_up>>

TakeUnused ==
    /\ reclaiming.on /\ reclaiming.key = None
    /\ IF keys_with_unused_data = <<>>
       THEN reclaiming' = Off /\ UNCHANGED keys_with_unused_data
       ELSE /\ reclaiming' = On(Head(keys_with_unused_data))
            /\ keys_with_unused_data' = Tail(keys_with_unused_data)
    /\ UNCHANGED <<table, gc, held, defaults, given_up>>

\* Mutant: the entry is not looked at.
RemoveQueued ==
    /\ reclaiming.key # None
    /\ entry_by_key' = [entry_by_key EXCEPT ![reclaiming.key] = None]
    /\ given_up' = given_up \ {reclaiming.key}
    /\ reclaiming' = On(None)
    /\ UNCHANGED <<weak, stored, keys_with_unused_data, gc, held, defaults>>

RemoveUnused ==
    /\ reclaiming.key # None
    /\ LET k == reclaiming.key
           unused == entry_by_key[k] # None /\ ~ HasData(k)
       IN  /\ entry_by_key' = IF unused THEN [entry_by_key EXCEPT ![k] = None] ELSE entry_by_key
           /\ given_up' = IF unused THEN given_up \ {k} ELSE given_up
    /\ reclaiming' = On(None)
    /\ UNCHANGED <<weak, stored, keys_with_unused_data, gc, held, defaults>>

-----------------------------------------------------------------------------

TableNext == \/ \E d \in Data : Collect(d) \/ Forget(d) \/ DefaultReturns(d)
             \/ Cleanup \/ RunWhenUnusedData
             \/ \E k \in Keys : Remove(k) \/ Find(k) \/ FindOrAdd(k)
             \/ \E k \in Keys, d \in Data : Replace(k, d) \/ AddExn(k, d)
             \/ Clear \/ DefaultRaises
             \/ Reclaim \/ TakeUnused \/ RemoveUnused

TableSpec == TableInit /\ [][TableNext]_tableVars

\* The runtime runs the cleanups that are due, the program makes the reclaim it
\* was asked for, and a loop goes on.
Fairness == /\ WF_tableVars(Cleanup) /\ WF_tableVars(RunWhenUnusedData)
            /\ WF_tableVars(Reclaim /\ scheduled) /\ WF_tableVars(TakeUnused) /\ WF_tableVars(RemoveUnused)

FairSpec == TableSpec /\ Fairness

-----------------------------------------------------------------------------

In(x, s) == \E i \in DOMAIN s : s[i] = x

Uses(k, d) == entry_by_key[k] # None /\ weak[entry_by_key[k]] = d

\* Data that was set in the entry a key has in the table is found there until it
\* is collected: no cleanup of earlier data, and no find_or_add that holds on to
\* an earlier entry of the key, takes it away (set_data, find_or_add,
\* reclaim_space_for_keys_with_unused_data).  It does not speak of data set in
\* an entry that is in the table no more: see AddedIsFound.
StoredDataFound == \A k \in Keys : stored[k] # None => Uses(k, stored[k])

\* Data that find_or_add has got from its default and returns is the key's:
\* hashtbl_intf.ml says that it "assigns [k] the value returned by
\* [default ()]", and weak_hashtbl.mli that the table behaves as if the key were
\* not in it "once a key's data is finalized".  Violated: the default may
\* remove the key, have it reclaimed or clear the table, and the data is set
\* in an entry that is in the table no more.
AddedIsFound ==
    [][\A k \in Keys, d \in Data :
          DefaultReturns(d) /\ Frame.key = k => (Uses(k, d))']_tableVars

\* A key without data that uses space is known to the queue, or will be: it is
\* queued, its cleanup is due, or a find_or_add is filling it.  The exception
\* is a default that raises, whose key no cleanup will ever queue.
UnusedKeysKnown ==
    \A k \in Keys : Uses(k, None) =>
        \/ In(k, keys_with_unused_data) \/ In(k, pending) \/ reclaiming.key = k
        \/ In([key |-> k, entry |-> entry_by_key[k]], defaults)
        \/ k \in given_up

\* The space of a key whose data is gone is used again: if the function given
\* to set_run_when_unused_data arranges for a reclaim, it is enough that the
\* key is queued before the function is called (set_data).
UnusedKeysReclaimed ==
    \A k \in Keys :
        Uses(k, None) ~> \/ ~ Uses(k, None)
                         \/ k \in given_up
                         \/ \E i \in DOMAIN defaults : defaults[i].key = k
=============================================================================
