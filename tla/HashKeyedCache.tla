---------------------------- MODULE HashKeyedCache ----------------------------
(***************************************************************************)
(* The cache of evaluations (utils/cache.h): a hash table with linear      *)
(* probing, entries that move back when one before them is evicted, the    *)
(* queue of keys by age, and a list of evicted entries that are still      *)
(* pinned.  Its operations run under a spin lock and are one step each,    *)
(* but a capacity of zero is looked for before the lock is taken.          *)
(*                                                                         *)
(* Clients insert a key or look one up, hold the value found and unpin it, *)
(* as HashKeyedCacheLock has them do.                                      *)
(***************************************************************************)
EXTENDS Integers, FiniteSets, SequencesExt

CONSTANTS Key,         \* hashes
          Value,       \* the objects that can be allocated
          NoValue,
          Client,      \* threads that use the cache
          Capacities   \* capacities that are set

ASSUME CacheAssumption ==
  /\ Key \subseteq Nat /\ Capacities \subseteq Nat /\ Capacities # {}
  /\ NoValue \notin Value
  /\ IsFiniteSet(Client)

VARIABLES
  capacity,   \* capacity_
  table,      \* hash_, with indices from 0
  order,      \* insertion_order_: its keys, oldest first
  evicted,    \* evicted_: entries, in the order they came
  job         \* what each client does, and the entry it holds

cache == <<capacity, table, order, evicted>>
vars  == <<cache, job>>

Free == [key |-> 0, val |-> NoValue, pins |-> 0]
InUse(t, i) == t[i] # Free

\* capacity * kLoadFactor + 1, cut off.
TableSize(n) == (19 * n + 10) \div 10
Empty(n) == [i \in 0..(TableSize(n) - 1) |-> Free]

Idle == [op |-> "idle", key |-> 0, val |-> NoValue]
Values(t) == {t[i].val : i \in DOMAIN t} \ {NoValue}
Allocated == Values(table) \cup {evicted[i].val : i \in DOMAIN evicted}

Init ==
  /\ capacity \in Capacities
  /\ table = Empty(capacity)
  /\ order = << >> /\ evicted = << >>
  /\ job = [c \in Client |-> Idle]

-----------------------------------------------------------------------------
\* Linear probing from the home of a key to the first slot of a set.
Slot(t, i) == i % Cardinality(DOMAIN t)
Probe(t, k, slots) ==
  Slot(t, k + Min({d \in DOMAIN t : Slot(t, k + d) \in slots}))
FreeSlots(t) == {i \in DOMAIN t : ~InUse(t, i)}
SlotsOf(t, k) == {i \in DOMAIN t : InUse(t, i) /\ t[i].key = k}
Find(t, k) == Probe(t, k, FreeSlots(t) \cup SlotsOf(t, k))

\* Mutant: an entry in the slot it belongs to counts as out of place.
InRange_Strict(x, start, end) ==
  IF start <= end THEN start <= x /\ x < end ELSE start <= x \/ x <= end

\* The cyclic test of EvictItem, where start may be the size of the table.
InRange(x, start, end) ==
  IF start <= end THEN start <= x /\ x <= end ELSE start <= x \/ x <= end

\* Entries move back to the hole as long as that is not before their home.
MoveBack(s, next) ==
  IF s.done THEN s
  ELSE IF ~InUse(s.t, next) THEN [s EXCEPT !.done = TRUE]
  ELSE IF InRange(Slot(s.t, s.t[next].key), s.hole + 1, next) THEN s
  ELSE [t |-> [s.t EXCEPT ![s.hole] = s.t[next], ![next] = Free],
        hole |-> next, done |-> FALSE]
CloseHole(t, hole) ==
  LET last == 2 * Cardinality(DOMAIN t)
      walk[d \in 0..last] ==
        IF d = 0 THEN [t |-> t, hole |-> hole, done |-> FALSE]
                 ELSE MoveBack(walk[d - 1], Slot(t, hole + d))
  IN walk[last].t

\* Mutant: a pinned value is freed with its entry.
KeepPinned_Never(e) == FALSE
\* An evicted entry that is still pinned is kept apart.
KeepPinned(e) == e.pins > 0

\* EvictItem, on the table, the queue and the list of evicted entries.
EvictItem(s) ==
  LET i == Probe(s.t, Head(s.order), SlotsOf(s.t, Head(s.order)))
  IN [t |-> CloseHole([s.t EXCEPT ![i] = Free], i),
      order |-> Tail(s.order),
      evicted |-> IF KeepPinned(s.t[i]) THEN Append(s.evicted, s.t[i])
                                        ELSE s.evicted]
EvictToCapacity(s, n) ==
  LET left[i \in 0..Len(s.order)] ==
        IF i = 0 THEN s
        ELSE IF Len(left[i - 1].order) > n THEN EvictItem(left[i - 1]) ELSE left[i - 1]
  IN left[Len(s.order)]

Become(s) == table' = s.t /\ order' = s.order /\ evicted' = s.evicted
State(t, o) == [t |-> t, order |-> o, evicted |-> evicted]

\* The entries of the old table, in its order, are put into the new one.
Put(new, e) ==
  IF e = Free THEN new ELSE [new EXCEPT ![Probe(new, e.key, FreeSlots(new))] = e]
Rehash(t, n) ==
  LET new[i \in 0..Cardinality(DOMAIN t)] ==
        IF i = 0 THEN Empty(n) ELSE Put(new[i - 1], t[i - 1])
  IN new[Cardinality(DOMAIN t)]

-----------------------------------------------------------------------------
\* "if (capacity_ == 0) return", without the lock.
Call(c, op, k) ==
  /\ job[c] = Idle /\ capacity # 0
  /\ job' = [job EXCEPT ![c] = [Idle EXCEPT !.op = op, !.key = k]]
  /\ UNCHANGED cache

Insert(c) ==
  /\ job[c].op = "insert"
  /\ job' = [job EXCEPT ![c] = Idle]
  /\ LET k == job[c].key
         i == Find(table, k)
     IN \/ InUse(table, i) /\ UNCHANGED <<table, order, evicted>>
        \/ /\ ~InUse(table, i)
           /\ \E v \in Value \ Allocated :
                Become(EvictToCapacity(
                  State([table EXCEPT ![i] = [key |-> k, val |-> v, pins |-> 0]],
                        Append(order, k)),
                  capacity))
  /\ UNCHANGED capacity

LookupAndPin(c) ==
  /\ job[c].op = "lookup"
  /\ LET i == Find(table, job[c].key)
     IN IF InUse(table, i)
          THEN /\ table' = [table EXCEPT ![i].pins = @ + 1]
               /\ job' = [job EXCEPT ![c].op = "hold", ![c].val = table[i].val]
          ELSE job' = [job EXCEPT ![c] = Idle] /\ UNCHANGED table
  /\ UNCHANGED <<capacity, order, evicted>>

\* The evicted entries are searched first; the last pin frees one of them.
Unpin(c) ==
  /\ job[c].op = "hold"
  /\ job' = [job EXCEPT ![c] = Idle]
  /\ LET out == {i \in DOMAIN evicted : evicted[i].key = job[c].key
                                        /\ evicted[i].val = job[c].val}
     IN IF out # {}
          THEN LET i == Min(out)
               IN /\ evicted' = IF evicted[i].pins = 1 THEN RemoveAt(evicted, i)
                                ELSE [evicted EXCEPT ![i].pins = @ - 1]
                  /\ UNCHANGED table
          ELSE LET i == Probe(table, job[c].key, FreeSlots(table) \cup
                     {x \in SlotsOf(table, job[c].key) : table[x].val = job[c].val})
               IN /\ table' = [table EXCEPT ![i].pins = @ - 1]
                  /\ UNCHANGED evicted
  /\ UNCHANGED <<capacity, order>>

SetCapacity ==
  /\ \E n \in Capacities \ {capacity} :
       LET s == EvictToCapacity(State(table, order), n)
       IN /\ capacity' = n
          /\ table' = Rehash(s.t, n) /\ order' = s.order /\ evicted' = s.evicted
  /\ UNCHANGED job

Clear ==
  /\ Become(EvictToCapacity(State(table, order), 0))
  /\ UNCHANGED <<capacity, job>>

Next ==
  \/ \E c \in Client :
       \/ Insert(c) \/ LookupAndPin(c) \/ Unpin(c)
       \/ \E k \in Key : Call(c, "insert", k) \/ Call(c, "lookup", k)
  \/ SetCapacity \/ Clear

Spec == Init /\ [][Next]_vars

-----------------------------------------------------------------------------
Entry == [key : Nat, val : Value \cup {NoValue}, pins : Nat]
\* Every probe ends: between two operations some slot is free.
TypeOK ==
  /\ capacity \in Capacities
  /\ table \in [0..(TableSize(capacity) - 1) -> Entry]
  /\ \E i \in DOMAIN table : table[i] = Free
  /\ order \in Seq(Key) /\ evicted \in Seq(Entry)
  /\ job \in [Client -> [op : {"idle", "insert", "lookup", "hold"},
                         key : Nat, val : Value \cup {NoValue}]]

Holders(v) == {c \in Client : job[c].op = "hold" /\ job[c].val = v}

\* Nothing dangles and nothing leaks: a value that a client holds is allocated
\* with a pin per holder, wherever eviction, rehashing and the moves of EvictItem
\* have taken its entry, and an evicted entry waits for some client's Unpin (the
\* destructor's assert(allocated_ == 0)).
PinsCounted ==
  /\ \A c \in Client : job[c].op = "hold" => job[c].val \in Allocated
  /\ \A i \in DOMAIN table :
       table[i] # Free => table[i].pins = Cardinality(Holders(table[i].val))
  /\ \A i \in DOMAIN evicted :
       /\ evicted[i].pins = Cardinality(Holders(evicted[i].val))
       /\ evicted[i].pins > 0

\* The table and the queue together are the queue of PinnedFifo: evictions keep
\* every remaining key in reach of its probes and leave in order of insertion.
Fifo == INSTANCE PinnedFifo WITH
  fifo <- [i \in DOMAIN order |->
             [key |-> order[i], val |-> table[Find(table, order[i])].val]],
  hold <- [c \in Client |-> IF job[c].op = "hold" THEN job[c].val ELSE NoValue]
IsPinnedFifo == Fifo!Spec

\* The table always has a free slot to end a probe and no duplicate, and what is
\* pinned is allocated and counted.
CacheInv == TypeOK /\ PinsCounted
===============================================================================
