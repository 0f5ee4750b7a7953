-------------------------------- MODULE MemCache --------------------------------
(***************************************************************************)
(* The caching backend (neural/memcache.cc) over HashKeyedCache as its     *)
(* specification PinnedFifo, with the backend of a network below it        *)
(* (neural/wrapper.cc) and, for the searches that answer at once, the      *)
(* splitting backend above it (neural/batchsplit.cc).                      *)
(*                                                                         *)
(* Threads of a search add positions to a computation they share, in any   *)
(* order; it is evaluated when all of them are done, its values are copied *)
(* to where the search wants them and move into the cache, one at a time.  *)
(* A key is the hash of the last position alone: colliding positions are   *)
(* told apart by their number of legal moves, or not at all.               *)
(***************************************************************************)
EXTENDS Integers, Sequences, FiniteSets

CONSTANTS Position, HashOf, MovesOf,  \* positions, their hashes, their moves
          Address, Null,              \* addresses of cached values
          Thread, Computation, Of,    \* the computation each thread adds to
          SplitThread,                \* the one thread of a search that splits
          MaxBatch,                   \* maximum_batch_size
          BatchLimit,                 \* what a search adds to one computation
          Asked,                      \* what searches ask for
          Sizes                       \* capacities of the cache

\* No position: whose evaluation a value is before it is computed.
Nobody == "nobody"

ASSUME MemCacheAssumption ==
  /\ Nobody \notin Position
  /\ MovesOf \in [Position -> Nat \ {0}] /\ HashOf \in [Position -> Nat]
  /\ Of \in [Thread -> Computation] /\ SplitThread \in Thread
  /\ Null \notin Address /\ Sizes \subseteq Nat
  /\ MaxBatch \in Nat \ {0} /\ BatchLimit \in Nat
  /\ Asked \subseteq [pos : Position, kind : {"full", "value", "prefetch"}]

VARIABLES
  fifo, room, hold,   \* the cache: PinnedFifo's fifo, capacity and hold
  mem,                \* what is stored at each address
  comp,               \* each computation
  task,               \* what each thread does
  split               \* whether the search goes through batchsplit.cc

memCacheVars == <<fifo, room, hold, mem, comp, task, split>>

Cache == INSTANCE PinnedFifo WITH
  Key <- {HashOf[p] : p \in Position}, Value <- Address, NoValue <- Null,
  Client <- Thread, Capacities <- Sizes, capacity <- room

\* A search asks for value and policy, for the value alone without naming the
\* moves, or for nothing but the entry in the cache.
NamedMoves(r) == IF r.kind = "value" THEN 0 ELSE MovesOf[r.pos]
WantedMoves(r) == IF r.kind = "full" THEN MovesOf[r.pos] ELSE 0
NoRequest == [pos |-> Nobody, kind |-> "none"]
\* CachedValue: whose evaluation it is, and num_moves (0: p is null).
Blank(n) == [of |-> Nobody, moves |-> n]
NoResult == [of |-> Nobody, have |-> 0, took |-> 0]
\* CachedValueToEvalResult: as many priors as were asked for.
ToResult(v, r) ==
  [of |-> mem[v].of, have |-> mem[v].moves, took |-> WantedMoves(r)]

NoTask == [at |-> "idle", op |-> "add", req |-> NoRequest, entry |-> 0]
NewComputation == [phase |-> "adding", entries |-> << >>, wrapped |-> << >>, saved |-> 0]

MemCacheInit ==
  /\ Cache!Init
  /\ mem = [v \in Address |-> Blank(0)]
  /\ comp = [c \in Computation |-> NewComputation]
  /\ task = [t \in Thread |-> NoTask]
  /\ split \in BOOLEAN

-----------------------------------------------------------------------------
ThreadsOf(c) == {t \in Thread : Of[t] = c}
UsedBatchSize(c) == Len(comp[c].wrapped)
Adding(c) == {t \in ThreadsOf(c) : task[t].at # "idle" /\ task[t].op = "add"}
\* Values that a computation still owns, and all that are not free.
OwnedBy(c) == {comp[c].entries[i].val : i \in DOMAIN comp[c].entries} \ {Null}
Taken == Cache!Live \cup UNION {OwnedBy(c) : c \in Computation}

\* The splitting backend computes what it has first when that is a full batch;
\* a search keeps to its own limit.
MayAdd(c) ==
  IF split THEN UsedBatchSize(c) < MaxBatch
           ELSE Len(comp[c].entries) + Cardinality(Adding(c)) < BatchLimit

\* AddInput or GetCachedEvaluation: look up and pin.
LookUp(t, op, r) ==
  /\ task[t].at = "idle"
  /\ split => t = SplitThread /\ op = "add"
  /\ op = "add" => comp[Of[t]].phase = "adding" /\ MayAdd(Of[t])
  /\ op = "peek" => r.kind # "prefetch"
  /\ LET found == Cache!KeyIn(fifo, HashOf[r.pos])
     IN /\ task' = [task EXCEPT ![t] =
                      [NoTask EXCEPT !.at = IF found THEN "found" ELSE "missed",
                                   !.op = op, !.req = r]]
        /\ IF found THEN Cache!Get(t, HashOf[r.pos])
                    ELSE UNCHANGED <<fifo, room, hold>>
  /\ UNCHANGED <<mem, comp, split>>

\* The number of moves is what tells colliding positions apart.
Usable(v, r) == NamedMoves(r) = 0 \/ mem[v].moves = NamedMoves(r)

\* The value is copied while it is pinned, whatever happens to its entry.
Fetch(t) ==
  /\ task[t].at = "found" /\ Usable(hold[t], task[t].req)
  /\ task' = [task EXCEPT ![t] = NoTask]
  /\ Cache!LetGo(t)
  /\ UNCHANGED <<mem, comp, split>>
Refuse(t) ==
  /\ task[t].at = "found" /\ ~Usable(hold[t], task[t].req)
  /\ task' = [task EXCEPT ![t].at = "missed"]
  /\ Cache!LetGo(t)
  /\ UNCHANGED <<mem, comp, split>>
GiveUp(t) ==
  /\ task[t].at = "missed" /\ task[t].op = "peek"
  /\ task' = [task EXCEPT ![t] = NoTask]
  /\ UNCHANGED <<fifo, room, hold, mem, comp, split>>

\* Mutant: an address that only a pin keeps is given out again.
FreeAddresses_Pinned == Address \ (Taken \ {hold[t] : t \in Thread})
FreeAddresses == Address \ Taken
\* A miss: the place in entries_ first, then in the computation below, where
\* another thread's entry may come in between.
Emplace(t) ==
  /\ task[t].at = "missed" /\ task[t].op = "add"
  /\ LET c == Of[t]  r == task[t].req
     IN \E v \in FreeAddresses :
          /\ mem' = [mem EXCEPT ![v] = Blank(NamedMoves(r))]
          /\ comp' = [comp EXCEPT ![c].entries =
               Append(@, [req |-> r, val |-> v, result |-> NoResult])]
          /\ task' = [task EXCEPT ![t].at = "emplaced",
                                  ![t].entry = Len(comp[c].entries) + 1]
  /\ UNCHANGED <<fifo, room, hold, split>>
AddWrapped(t) ==
  /\ task[t].at = "emplaced"
  /\ LET c == Of[t]
     IN comp' = [comp EXCEPT ![c].wrapped =
          Append(@, [pos |-> task[t].req.pos,
                     val |-> comp[c].entries[task[t].entry].val])]
  /\ task' = [task EXCEPT ![t] = NoTask]
  /\ UNCHANGED <<fifo, room, hold, mem, split>>

-----------------------------------------------------------------------------
\* Mutant: results go to the entry with the same index.
Target_SameIndex(c, i) == comp[c].entries[i].val
\* Where the backend below writes its i-th result: the pointers it was given.
Target(c, i) == comp[c].wrapped[i].val
\* ComputeBlocking when no thread adds any more; an empty batch returns at once.
Compute(c) ==
  /\ comp[c].phase = "adding" /\ Adding(c) = {}
  /\ comp[c].entries # << >> /\ UsedBatchSize(c) # 0
  /\ mem' = [v \in Address |->
       LET is == {i \in DOMAIN comp[c].wrapped : Target(c, i) = v}
       IN IF is = {} THEN mem[v]
          ELSE [mem[v] EXCEPT !.of = comp[c].wrapped[CHOOSE i \in is : TRUE].pos]]
  /\ comp' = [comp EXCEPT ![c].phase = "saving"]
  /\ UNCHANGED <<fifo, room, hold, task, split>>

KeyOf(c, i) == HashOf[comp[c].entries[i].req.pos]
\* HashKeyedCache::Insert of a key that is not there.
Inserted(k, v) == Cache!Trim(Append(fifo, [key |-> k, val |-> v]), room)
\* One entry: its result is copied, then its value moves into the cache or, when
\* the key is there already, is freed.
Save(c) ==
  LET i == comp[c].saved + 1
      e == comp[c].entries[i]
  IN /\ comp[c].phase = "saving"
     /\ IF Cache!KeyIn(fifo, KeyOf(c, i))
          THEN UNCHANGED fifo
          ELSE fifo' = Inserted(KeyOf(c, i), e.val)
     /\ comp' = [comp EXCEPT
          ![c].entries[i] = [e EXCEPT !.val = Null, !.result = ToResult(e.val, e.req)],
          ![c].saved = i,
          ![c].phase = IF i = Len(comp[c].entries) THEN "done" ELSE "saving"]
     /\ UNCHANGED <<room, hold, mem, task, split>>

\* The next batch is a new computation.
Renew(c) ==
  /\ comp[c].phase = "done"
  /\ comp' = [comp EXCEPT ![c] = NewComputation]
  /\ UNCHANGED <<fifo, room, hold, mem, task, split>>

\* Between two searches.
Quiet == /\ \A c \in Computation : comp[c] = NewComputation
         /\ \A t \in Thread : task[t].at = "idle"
ClearCache == Quiet /\ Cache!Clear /\ UNCHANGED <<mem, comp, task, split>>
SetCacheSize ==
  /\ Quiet /\ \E n \in Sizes \ {room} : Cache!SetCapacity(n)
  /\ UNCHANGED <<mem, comp, task, split>>

MemCacheNext ==
  \/ \E t \in Thread :
       \/ \E op \in {"add", "peek"}, r \in Asked : LookUp(t, op, r)
       \/ Fetch(t) \/ Refuse(t) \/ GiveUp(t) \/ Emplace(t) \/ AddWrapped(t)
  \/ \E c \in Computation : Compute(c) \/ Save(c) \/ Renew(c)
  \/ ClearCache \/ SetCacheSize

MemCacheSpec == MemCacheInit /\ [][MemCacheNext]_memCacheVars

-----------------------------------------------------------------------------
Owner == Position \cup {Nobody}
MemCacheTypeOK ==
  /\ fifo \in Seq([key : {HashOf[p] : p \in Position}, val : Address]) /\ Len(fifo) <= room
  /\ room \in Sizes /\ hold \in [Thread -> Address \cup {Null}]
  /\ \A v \in Address : mem[v].of \in Owner
  /\ \A c \in Computation :
       /\ comp[c].phase \in {"adding", "saving", "done"}
       /\ comp[c].saved \in 0..Len(comp[c].entries)
  /\ \A t \in Thread : task[t].at = "found" <=> hold[t] # Null

\* What a hit delivers is an evaluation of a position with the hash that was
\* asked for, with exactly the priors that were asked for: never a value that is
\* not computed yet, one with another number of moves, or one without policy that
\* a question without moves has left in the cache.
HitsAreUsable ==
  \A t \in Thread : task[t].at = "found" /\ Usable(hold[t], task[t].req) =>
    LET result == ToResult(hold[t], task[t].req)
    IN /\ result.of # Nobody /\ HashOf[result.of] = HashOf[task[t].req.pos]
       /\ result.took \in {0, result.have}

\* After ComputeBlocking every position that was added has its own evaluation, and
\* all its priors, in whatever order the threads added them above and below, and
\* whether its value was kept by the cache, dropped for another or evicted.
AllAnswered ==
  \A c \in Computation : comp[c].phase = "done" =>
    \A i \in DOMAIN comp[c].entries :
      LET e == comp[c].entries[i]
      IN e.result = [of |-> e.req.pos, have |-> NamedMoves(e.req),
                     took |-> WantedMoves(e.req)]

\* A key leads to an evaluation of a position with that hash, and with the number
\* of moves of that position or none.
CachedUnderItsKey ==
  \A i \in DOMAIN fifo :
    LET m == mem[fifo[i].val]
    IN m.of # Nobody /\ HashOf[m.of] = fifo[i].key /\ m.moves \in {0, MovesOf[m.of]}

\* No value is written, or given to another position, as long as the cache or a
\* thread that reads it can get at it.
CachedValuesStay == [][\A v \in Cache!Live \ {Null} : mem'[v] = mem[v]]_memCacheVars

\* assert(i < capacity_) of AtomicVector: no computation gets more entries than it
\* has places, above as below.
NoOverflow == \A c \in Computation : Len(comp[c].entries) <= MaxBatch

\* Cache and computations agree: every answer, by a hit or by the network, is the
\* position's own, within the places there are.
MemCacheInv == /\ MemCacheTypeOK /\ HitsAreUsable /\ AllAnswered
               /\ CachedUnderItsKey /\ NoOverflow
===============================================================================
