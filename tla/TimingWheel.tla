----------------------------- MODULE TimingWheel -----------------------------
(***************************************************************************)
(* Timing_wheel (core_kernel/timing_wheel): alarms in levels of slots, each *)
(* level with fewer and wider slots for keys further away, and a cache of  *)
(* the alarm with the least key.  A key is the number of an interval of    *)
(* time.  Elements live in cells of a pool; a pointer outlives its cell's  *)
(* use.                                                                    *)
(***************************************************************************)
EXTENDS Integers, Sequences, FiniteSets, FiniteSetsExt, Functions, SequencesExt

CONSTANTS Width,        (* keys and times have so many bits                 *)
          Configs,      (* level_bits and alarm_precision                   *)
          Starts,       (* the time a wheel is created with                 *)
          Cells,        (* of the pool                                      *)
          ClearsCached  (* whether clear is called while a minimum is cached *)

MaxKey == 2 ^ Width - 1
Times  == 0 .. MaxKey

\* The bits of a key below those of level i.
bits_below(level_bits, i) ==
    LET sum[j \in 0 .. Len(level_bits)] == IF j = 0 THEN 0 ELSE sum[j - 1] + level_bits[j]
    IN  sum[i - 1]

ASSUME TimingWheelAssumption ==
    /\ Width \in Nat /\ IsFiniteSet(Cells) /\ Starts \subseteq Times
    /\ \A c \in Configs : /\ c.level_bits \in Seq(Nat \ {0}) /\ c.level_bits # <<>>
                          /\ c.alarm_precision \in 0 .. Width
                          /\ bits_below(c.level_bits, Len(c.level_bits) + 1) <= Width - c.alarm_precision

VARIABLES config,
          levels,                 (* per level its allowed keys and its slots *)
          elt,                    (* the key and the time in each cell        *)
          free,                   (* the free list of the pool                *)
          min_elt,
          elt_key_lower_bound,
          now,
          max_allowed_alarm_time

vars == <<config, levels, elt, free, min_elt, elt_key_lower_bound, now, max_allowed_alarm_time>>

Least(a, b)    == IF a < b THEN a ELSE b
Greatest(a, b) == IF a > b THEN a ELSE b

-----------------------------------------------------------------------------
(* Keys, levels and slots. *)

interval_num(time)    == time \div 2 ^ config.alarm_precision
interval_num_start(k) == k * 2 ^ config.alarm_precision
max_interval_num      == interval_num(MaxKey)

Levels == DOMAIN config.level_bits

Bits(i)          == config.level_bits[i]
bits_per_slot(i) == bits_below(config.level_bits, i)
keys_per_slot(i) == 2 ^ bits_per_slot(i)
Slots(i)         == 0 .. 2 ^ Bits(i) - 1

diff_max_min_allowed_key(i) ==
    IF Bits(i) + bits_per_slot(i) = Width THEN MaxKey
    ELSE 2 ^ (Bits(i) + bits_per_slot(i)) - 1

slot(i, k)                 == (k \div keys_per_slot(i)) % 2 ^ Bits(i)
min_key_in_same_slot(i, k) == k - (k % keys_per_slot(i))
add_clamp_to_max(k, d)     == IF k > MaxKey - d THEN MaxKey ELSE k + d

\* Mutant: a level begins where the one below it ends.
MinAllowedKeyOverlapping(i, prev_level_max_allowed_key) ==
    IF prev_level_max_allowed_key = MaxKey THEN MaxKey
    ELSE prev_level_max_allowed_key + 1

compute_min_allowed_key(i, prev_level_max_allowed_key) ==
    IF prev_level_max_allowed_key = MaxKey THEN MaxKey
    ELSE min_key_in_same_slot(i, prev_level_max_allowed_key + 1)

Bounded(level, i, min) ==
    [level EXCEPT !.min = min, !.max = add_clamp_to_max(min, diff_max_min_allowed_key(i))]

min_allowed_key == levels[1].min
max_allowed_key == levels[Len(levels)].max

\* The elements of a level, of which level.length is the number.
InLevel(level) == UNION {ToSet(level.slots[s]) : s \in DOMAIN level.slots}

Members == UNION {InLevel(levels[i]) : i \in DOMAIN levels}

\* A pointer to a cell, which is valid until the cell is freed.
Null       == [cell |-> "none", valid |-> FALSE]
Pointer(c) == [cell |-> c, valid |-> TRUE]

\* What a cell that is free holds can be seen through a stale min_elt only.
Blank == [key |-> 0, at |-> 0]

Contents(e, unused, min) ==
    [c \in Cells |-> IF c \in ToSet(unused) /\ c # min.cell THEN Blank ELSE e[c]]

-----------------------------------------------------------------------------
(* Priority_queue *)

\* add_elt: at the end of the list of its slot, in the lowest level that takes it.
AddElt(ls, c, k) ==
    LET i == CHOOSE i \in DOMAIN ls : k <= ls[i].max /\ \A j \in 1 .. i - 1 : k > ls[j].max
    IN  [ls EXCEPT ![i].slots[slot(i, k)] = Append(@, c)]

\* internal_add_elt, for levels ls and a cached minimum.
InternalAddElt(ls, min, c, new) ==
    /\ levels' = AddElt(ls, c, new.key)
    /\ IF new.key < elt_key_lower_bound
       THEN min_elt' = Pointer(c) /\ elt_key_lower_bound' = new.key
       ELSE min_elt' = min /\ UNCHANGED elt_key_lower_bound

\* The elements of a list that are in cs, in their order.
Only(list, cs) ==
    LET kept[n \in 0 .. Len(list)] ==
            IF n = 0 THEN <<>>
            ELSE IF list[n] \in cs THEN Append(kept[n - 1], list[n]) ELSE kept[n - 1]
    IN  kept[Len(list)]

Unlinked(ls, cs) ==
    [i \in DOMAIN ls |->
        [ls[i] EXCEPT !.slots = [s \in DOMAIN @ |-> Only(@[s], Cells \ cs)]]]

\* Mutant: the cache is left alone.
MinEltKept(cs) == min_elt

\* internal_remove: what becomes of the cached minimum.
MinEltWithout(cs) == IF \E c \in cs : min_elt = Pointer(c) THEN Null ELSE min_elt

\* The inner loop of min_elt_: in level 0 all keys of a slot are the same.
SearchList(found, list, i) ==
    LET after[n \in 0 .. Len(list)] ==
            IF n = 0 THEN found
            ELSE IF elt[list[n]].key <= after[n - 1].key
                 THEN [elt |-> Pointer(list[n]), key |-> elt[list[n]].key]
                 ELSE after[n - 1]
    IN  after[IF i = 1 THEN 1 ELSE Len(list)]

\* The first slot, from the lower bound on, that has elements or lies behind
\* the key already found.
SearchLevel(found, i) ==
    LET level   == levels[i]
        from    == min_key_in_same_slot(i, Greatest(level.min, elt_key_lower_bound))
        list(n) == level.slots[slot(i, from + n * keys_per_slot(i))]
        stop(n) == list(n) # <<>> \/ from + n * keys_per_slot(i) >= found.key
        n       == CHOOSE n \in Slots(i) : stop(n) /\ \A m \in 0 .. n - 1 : ~ stop(m)
    IN  IF level.min > found.key \/ InLevel(level) = {} \/ list(n) = <<>> THEN found
        ELSE SearchList(found, list(n), i)

\* min_elt_ of a wheel that is not empty: what it returns, and the lower bound
\* it leaves.
FoundMin ==
    LET found[i \in 0 .. Len(levels)] ==
            IF i = 0 THEN [elt |-> Null, key |-> MaxKey] ELSE SearchLevel(found[i - 1], i)
    IN  IF min_elt # Null THEN [elt |-> min_elt, key |-> elt_key_lower_bound]
        ELSE found[Len(levels)]

MinKey == elt[FoundMin.elt.cell].key

\* Mutant: an alarm of the new interval goes with those of the old ones.
StaysAfter(c, t_min_allowed_key) == elt[c].key > t_min_allowed_key

\* remove_or_re_add_elts: whether an alarm is put back, at a lower level, or fired.
Stays(c, t_min_allowed_key) == elt[c].key >= t_min_allowed_key

\* The elements of the slots of a level that lie before a key, in order, each
\* slot at most once.
Behind(level, i, lower_bound, key) ==
    LET from == min_key_in_same_slot(i, Least(key, Greatest(level.min, lower_bound)))
        ns   == {n \in Slots(i) : from + n * keys_per_slot(i) < key}
    IN  FlattenSeq([n \in 1 .. Cardinality(ns) |->
                        level.slots[slot(i, from + (n - 1) * keys_per_slot(i))]])

ReAdded(ls, list) ==
    LET added[n \in 0 .. Len(list)] ==
            IF n = 0 THEN ls ELSE AddElt(added[n - 1], list[n], elt[list[n]].key)
    IN  added[Len(list)]

\* increase_level_min_allowed_key and remove_or_re_add_elts: the slots that the
\* new bounds leave behind are emptied.
IncreaseLevel(t, i, t_min_allowed_key) ==
    LET desired == compute_min_allowed_key(i, t.prev_level_max_allowed_key)
        moved   == Behind(t.levels[i], i, t.lower_bound, desired)
        staying == {c \in Cells : Stays(c, t_min_allowed_key)}
        emptied == ReAdded(Unlinked(t.levels, ToSet(moved)), Only(moved, staying))
    IN  [t EXCEPT !.levels = [emptied EXCEPT ![i] = Bounded(@, i, desired)],
                  !.prev_level_max_allowed_key =
                      add_clamp_to_max(desired, diff_max_min_allowed_key(i)),
                  !.removed = @ \o Only(moved, Cells \ staying),
                  !.changed = desired # t.levels[i].min]

\* The loop of increase_min_allowed_key, which a level that keeps its bounds ends.
IncreaseMinAllowedKey(k, lower_bound) ==
    LET increased[i \in 0 .. Len(levels)] ==
            IF i = 0
            THEN [levels |-> levels, lower_bound |-> lower_bound,
                  prev_level_max_allowed_key |-> k - 1, removed |-> <<>>, changed |-> TRUE]
            ELSE IF increased[i - 1].changed THEN IncreaseLevel(increased[i - 1], i, k)
            ELSE increased[i - 1]
    IN  increased[Len(levels)]

compute_max_allowed_alarm_time(max) ==
    IF max >= max_interval_num THEN MaxKey
    ELSE interval_num_start(max) + 2 ^ config.alarm_precision - 1

-----------------------------------------------------------------------------

\* create, for a pool with room for all cells.
Init ==
    /\ config \in Configs
    /\ now \in Starts
    /\ LET level[i \in Levels] ==
               Bounded([min |-> 0, max |-> 0, slots |-> [s \in Slots(i) |-> <<>>]], i,
                       compute_min_allowed_key(i, IF i = 1 THEN interval_num(now) - 1
                                                  ELSE level[i - 1].max))
       IN  levels = level
    /\ elt = [c \in Cells |-> Blank]
    /\ free \in SetToSeqs(Cells)
    /\ min_elt = Null
    /\ elt_key_lower_bound = interval_num(now)
    /\ max_allowed_alarm_time = compute_max_allowed_alarm_time(max_allowed_key)

\* ensure_can_schedule_alarm
CanSchedule(time) == interval_num_start(interval_num(now)) <= time
                     /\ time <= max_allowed_alarm_time

New(time) == [key |-> interval_num(time), at |-> time]

Add(time) == /\ CanSchedule(time) /\ free # <<>>
             /\ InternalAddElt(levels, min_elt, Head(free), New(time))
             /\ elt' = [elt EXCEPT ![Head(free)] = New(time)]
             /\ free' = Tail(free)
             /\ UNCHANGED <<config, now, max_allowed_alarm_time>>

Freed(cs) == /\ free' = Reverse(cs) \o free
             /\ elt' = Contents(elt, free', min_elt')

Remove1(c) == /\ c \in Members
              /\ levels' = Unlinked(levels, {c})
              /\ min_elt' = MinEltWithout({c})
              /\ Freed(<<c>>)
              /\ UNCHANGED <<config, elt_key_lower_bound, now, max_allowed_alarm_time>>

\* reschedule_gen and change
Reschedule(c, time) ==
    /\ c \in Members /\ CanSchedule(time)
    /\ InternalAddElt(Unlinked(levels, {c}), MinEltWithout({c}), c, New(time))
    /\ elt' = [elt EXCEPT ![c] = New(time)]
    /\ UNCHANGED <<config, free, now, max_allowed_alarm_time>>

\* min_elt_ caches what it finds; every question about the next alarm asks it.
MinElt == /\ Members # {} /\ min_elt = Null
          /\ min_elt' = FoundMin.elt
          /\ elt_key_lower_bound' = FoundMin.key
          /\ UNCHANGED <<config, levels, elt, free, now, max_allowed_alarm_time>>

\* The latest time of an alarm after advance_clock, recomputed when all levels moved.
LatestAlarmTime(t) == IF t.changed THEN compute_max_allowed_alarm_time(Last(t.levels).max)
                      ELSE max_allowed_alarm_time

\* advance_clock, for the cached minimum and lower bound at that time.
Advance(to, min, lower_bound) ==
    LET k == interval_num(to)
        t == IncreaseMinAllowedKey(k, lower_bound)
    IN  /\ now' = Greatest(now, to)
        /\ IF k <= min_allowed_key
           THEN /\ min_elt' = min /\ elt_key_lower_bound' = lower_bound
                /\ UNCHANGED <<levels, elt, free, max_allowed_alarm_time>>
           ELSE /\ levels' = t.levels
                /\ min_elt' = IF k > lower_bound THEN Null ELSE min
                /\ elt_key_lower_bound' = Greatest(k, lower_bound)
                /\ Freed(t.removed)
                /\ max_allowed_alarm_time' = LatestAlarmTime(t)
        /\ UNCHANGED config

AdvanceClock(to) == to > now /\ Advance(to, min_elt, elt_key_lower_bound)

InOneSlot(c, d) ==
    \E i \in DOMAIN levels : \E s \in DOMAIN levels[i].slots : {c, d} \subseteq ToSet(levels[i].slots[s])

\* min_alarm_time walks the list of the slot that the minimum is in.  The levels
\* may overlap, and another level then have alarms of the same interval.
MinAlarmTime(c) ==
    Min({elt[d].at : d \in {d \in Members : InOneSlot(c, d) /\ elt[d].key = elt[c].key}})

\* Mutant: the next alarm does not stop it.
AdvanceClockPastNextAlarm(to) ==
    /\ Members # {} /\ (min_elt = Null \/ min_elt.valid)
    /\ Advance(to, FoundMin.elt, FoundMin.key)

\* What the walk through a stale pointer would find is left out.
AdvanceClockStopAtNextAlarm(to) ==
    LET found == FoundMin
        key   == elt[found.elt.cell].key
    IN  /\ Members # {} /\ (min_elt = Null \/ min_elt.valid)
        /\ Advance(IF to < interval_num_start(key) THEN to ELSE Least(to, MinAlarmTime(found.elt.cell)),
                   found.elt, found.key)

\* fire_past_alarms: the slot of the current interval.
FirePastAlarms ==
    LET fired == Only(levels[1].slots[slot(1, min_allowed_key)], {c \in Cells : elt[c].at <= now})
    IN  /\ fired # <<>>
        /\ levels' = Unlinked(levels, ToSet(fired))
        /\ min_elt' = MinEltWithout(ToSet(fired))
        /\ Freed(fired)
        /\ UNCHANGED <<config, elt_key_lower_bound, now, max_allowed_alarm_time>>

\* clear leaves the cached minimum and the lower bound as they are.
Clear ==
    LET in_order(level) == FlattenSeq([s \in 1 .. Cardinality(DOMAIN level.slots) |->
                                          level.slots[s - 1]])
    IN  /\ Members # {}
        /\ min_elt = Null \/ ClearsCached
        /\ levels' = Unlinked(levels, Members)
        /\ min_elt' = [min_elt EXCEPT !.valid = FALSE]
        /\ Freed(FlattenSeq([i \in DOMAIN levels |-> in_order(levels[i])]))
        /\ UNCHANGED <<config, elt_key_lower_bound, now, max_allowed_alarm_time>>

Next == \/ \E time \in Times : \/ Add(time)
                               \/ AdvanceClock(time)
                               \/ AdvanceClockStopAtNextAlarm(time)
                               \/ \E c \in Cells : Reschedule(c, time)
        \/ \E c \in Cells : Remove1(c)
        \/ MinElt
        \/ FirePastAlarms
        \/ Clear

Spec == Init /\ [][Next]_vars

-----------------------------------------------------------------------------

\* The lists that a cell can be in: those of the slots and the free list of the
\* pool.
Lists == {<<0, 0>>} \cup UNION {{i} \X Slots(i) : i \in Levels}

List(p) == IF p = <<0, 0>> THEN free ELSE levels[p[1]].slots[p[2]]

\* The fields have their types, and every cell is in one list, once.
TypeOK ==
    /\ config \in Configs
    /\ DOMAIN levels = Levels
    /\ \A i \in Levels : /\ {levels[i].min, levels[i].max} \subseteq Times
                         /\ DOMAIN levels[i].slots = Slots(i)
    /\ elt \in [Cells -> [key : Times, at : Times]]
    /\ min_elt \in {Null} \cup [cell : Cells, valid : BOOLEAN]
    /\ {elt_key_lower_bound, now, max_allowed_alarm_time} \subseteq Times
    /\ \A p \in Lists : List(p) \in Seq(Cells) /\ IsInjective(List(p))
    /\ \A p, q \in Lists : ToSet(List(p)) \cap ToSet(List(q)) # {} => p = q
    /\ Members \cup ToSet(free) = Cells

\* An alarm can be set up to the last time whose interval the levels can hold,
\* though that time is computed only when all levels have moved (advance_clock).
AllowedTimesKnown ==
    max_allowed_alarm_time = Max({time \in Times : interval_num(time) <= max_allowed_key})

\* Every alarm is where its key says, in the slots a search or an advance will
\* look at: levels follow each other without a gap, hold the keys of their
\* range, and nothing is below the lower bound (Priority_queue.invariant,
\* Timing_wheel.invariant).
WheelConsistent ==
    /\ TypeOK /\ AllowedTimesKnown
    /\ min_allowed_key = interval_num(now)
    /\ \A i \in Levels \ {1} : levels[i].min = compute_min_allowed_key(i, levels[i - 1].max)
    /\ \A i \in Levels : levels[i].max = add_clamp_to_max(levels[i].min, diff_max_min_allowed_key(i))
    /\ \A i \in Levels : \A s \in Slots(i) : \A c \in ToSet(levels[i].slots[s]) :
          /\ elt[c].key = interval_num(elt[c].at)
          /\ slot(i, elt[c].key) = s
          /\ levels[i].min <= elt[c].key /\ elt[c].key <= levels[i].max
          /\ elt_key_lower_bound <= elt[c].key
    /\ min_allowed_key <= elt_key_lower_bound /\ elt_key_lower_bound <= max_allowed_key
    /\ min_elt # Null => min_elt.valid /\ elt[min_elt.cell].key = elt_key_lower_bound

\* min_elt_ finds an alarm with the least key of all, cached or not, whatever
\* was added, removed, moved or fired since it last looked
\* (min_alarm_interval_num, next_alarm_fires_at).
MinFound == Members # {} => MinKey = Min({elt[c].key : c \in Members})

\* The alarms of the first interval that has any.
FirstInterval == {c \in Members : \A d \in Members : elt[c].key <= elt[d].key}

\* advance_clock_stop_at_next_alarm fires nothing on its way (its two
\* assertions), and comes to the earlier of the time asked for and an alarm of
\* the first interval, the earliest of its slot: short of the next alarm never,
\* and past it only within its interval, to an alarm of another level.
StopsInFirstInterval ==
    [][\A to \in Times : AdvanceClockStopAtNextAlarm(to) =>
           /\ Members' = Members
           /\ \E c \in FirstInterval :
                 /\ now' = Greatest(now, Least(to, elt[c].at))
                 /\ \A d \in FirstInterval : InOneSlot(c, d) => elt[c].at <= elt[d].at]_vars

\* The clock advances "to the time [to_] or the time of the next alarm,
\* whichever is earlier" (timing_wheel_intf.ml).  Violated: of two alarms of one
\* interval in different levels, the one found need not be the earlier.
StopsAtNextAlarm ==
    [][\A to \in Times : AdvanceClockStopAtNextAlarm(to) =>
           now' = Greatest(now, Least(to, Min({elt[c].at : c \in Members})))]_vars

Alarms == INSTANCE AlarmSetSpec WITH
    alarms <- [c \in Members |-> elt[c].at],
    precision <- 2 ^ config.alarm_precision

\* The wheel is a set of alarms: each is fired by the first advance to a later
\* interval and by none before, and is lost in no other way (timing_wheel_intf.ml).
ImplementsAlarmSet == Alarms!Spec
=============================================================================
