---------------------------- MODULE MemCacheProofs -----------------------------
(***************************************************************************)
(* Proofs about MemCache: for any positions, colliding or not, any number  *)
(* of threads, computations and addresses, and any sizes of the cache,     *)
(* every answer is the position's own and no value that somebody can get   *)
(* at is written.                                                          *)
(*                                                                         *)
(* The argument is about who owns a value.  An address that is not free is *)
(* one entry's of one computation, or the cache's and its readers', never  *)
(* both: so the backend below writes where nobody reads.                   *)
(*                                                                         *)
(* Then about HashKeyedCache, for any keys, values, clients and capacities *)
(* that are set: the hash table is PinnedFifo's queue, so that MemCache    *)
(* may take the one for the other.  There the argument is about probes:    *)
(* each finds its entry, and while an entry's hole moves on, only probes   *)
(* for entries that are yet to be looked at may come by it.                *)
(***************************************************************************)
EXTENDS MemCache, HashKeyedCache, FiniteSetTheorems, SequenceTheorems, WellFoundedInduction,
        TLAPS

Owners == Position \cup {Nobody}
Stored == [of : Owners, moves : Nat]
BatchEntry == [req : Asked, val : Address \cup {Null},
               result : [of : Owners, have : Nat, took : Nat]]
Below == [pos : Position, val : Address]
Hash == {HashOf[p] : p \in Position}
Cached == [key : Hash, val : Address]

CacheTyped ==
  /\ fifo \in Seq(Cached) /\ Len(fifo) <= room /\ room \in Sizes
  /\ hold \in [Thread -> Address \cup {Null}]
  /\ mem \in [Address -> Stored]
CompTyped ==
  /\ comp \in [Computation -> [phase : {"adding", "saving", "done"}, entries : Seq(BatchEntry),
                               wrapped : Seq(Below), saved : Nat]]
  /\ \A c \in Computation :
       /\ comp[c].saved <= Len(comp[c].entries)
       /\ comp[c].phase = "adding" => comp[c].saved = 0
       /\ comp[c].phase = "saving" => comp[c].saved < Len(comp[c].entries)
       /\ comp[c].phase = "done" => comp[c].saved = Len(comp[c].entries)
TaskTyped ==
  /\ task \in [Thread -> [at : {"idle", "found", "missed", "emplaced"},
                          op : {"add", "peek"}, req : Asked \cup {NoRequest},
                          entry : Nat]]
  /\ \A t \in Thread :
       /\ task[t].at # "idle" => task[t].req \in Asked
       /\ task[t].at = "found" <=> hold[t] # Null
       /\ task[t].at # "idle" /\ task[t].op = "add" => comp[Of[t]].phase = "adding"
       /\ task[t].at = "emplaced" =>
            /\ task[t].op = "add"
            /\ task[t].entry \in 1..Len(comp[Of[t]].entries)
            /\ task[t].req = comp[Of[t]].entries[task[t].entry].req

\* The entries of a computation that still have a value: it is theirs alone, and
\* says of how many moves.
Kept(c) == (comp[c].saved + 1)..Len(comp[c].entries)
ValueOf(c, i) == comp[c].entries[i].val
Private ==
  /\ \A c \in Computation : \A i \in Kept(c) :
       /\ ValueOf(c, i) \in Address /\ ValueOf(c, i) \notin Cache!Live
       /\ mem[ValueOf(c, i)].moves = NamedMoves(comp[c].entries[i].req)
  /\ \A c, d \in Computation : \A i \in Kept(c), j \in Kept(d) :
       ValueOf(c, i) = ValueOf(d, j) => c = d /\ i = j

\* What the computation below was given are entries above, and in the end all.
GivenBelow ==
  \A c \in Computation : comp[c].phase = "adding" =>
    /\ \A j \in 1..Len(comp[c].wrapped) : \E i \in 1..Len(comp[c].entries) :
         /\ comp[c].wrapped[j].val = ValueOf(c, i)
         /\ comp[c].wrapped[j].pos = comp[c].entries[i].req.pos
    /\ \A i \in 1..Len(comp[c].entries) :
         \/ \E j \in 1..Len(comp[c].wrapped) : comp[c].wrapped[j].val = ValueOf(c, i)
         \/ \E t \in Thread : Of[t] = c /\ task[t].at = "emplaced" /\ task[t].entry = i

\* Results before they are copied, and after.
Answered ==
  \A c \in Computation :
    /\ comp[c].phase = "saving" =>
         \A i \in Kept(c) : mem[ValueOf(c, i)].of = comp[c].entries[i].req.pos
    /\ \A i \in 1..comp[c].saved :
         LET e == comp[c].entries[i]
         IN e.result = [of |-> e.req.pos, have |-> NamedMoves(e.req),
                        took |-> WantedMoves(e.req)]

\* A value that can be read under a hash.
GoodFor(v, hash) ==
  mem[v].of # Nobody /\ HashOf[mem[v].of] = hash /\ mem[v].moves \in {0, MovesOf[mem[v].of]}
Readable ==
  /\ \A i \in 1..Len(fifo) : GoodFor(fifo[i].val, fifo[i].key)
  /\ \A t \in Thread : hold[t] # Null => GoodFor(hold[t], HashOf[task[t].req.pos])

Shape == CacheTyped /\ CompTyped /\ TaskTyped
IInv == Shape /\ Private /\ GivenBelow /\ Answered /\ Readable

-----------------------------------------------------------------------------
\* What an eviction leaves is some of what there was, and fits.
LEMMA TrimKeeps ==
  ASSUME NEW S, NEW s \in Seq(S), NEW n \in Nat
  PROVE  /\ Cache!Trim(s, n) \in Seq(S) /\ Len(Cache!Trim(s, n)) <= n
         /\ \A i \in 1..Len(Cache!Trim(s, n)) :
              \E j \in 1..Len(s) : Cache!Trim(s, n)[i] = s[j]
<1> DEFINE m == Len(s) - n + 1
<1>1. CASE Len(s) > n
  <2>1. Cache!Trim(s, n) = SubSeq(s, m, Len(s)) /\ m \in 1..(Len(s) + 1) /\ Len(s) \in Nat
    BY <1>1 DEF Cache!Trim
  <2>2. /\ SubSeq(s, m, Len(s)) \in Seq(S)
        /\ Len(SubSeq(s, m, Len(s))) = Len(s) - m + 1
        /\ \A i \in 1..(Len(s) - m + 1) : SubSeq(s, m, Len(s))[i] = s[m + i - 1]
    BY <2>1
  <2>3. \A i \in 1..(Len(s) - m + 1) : m + i - 1 \in 1..Len(s)
    BY <2>1
  <2> QED
    BY <1>1, <2>1, <2>2, <2>3
<1>2. CASE ~(Len(s) > n)
  BY <1>2 DEF Cache!Trim
<1> QED
  BY <1>1, <1>2

\* What a sequence with one more element holds.
LEMMA AppendIsLast ==
  ASSUME NEW S, NEW s \in Seq(S), NEW x \in S
  PROVE  /\ Append(s, x) \in Seq(S) /\ Len(s) \in Nat /\ Len(Append(s, x)) = Len(s) + 1
         /\ \A a \in 1..Len(s) : Append(s, x)[a] = s[a]
         /\ Append(s, x)[Len(s) + 1] = x
  OBVIOUS

\* What the cache and its readers can get at.
LEMMA LiveIs ==
  ASSUME Shape
  PROVE  \A v : v \in Cache!Live <=> \/ \E i \in 1..Len(fifo) : v = fifo[i].val
                                     \/ \E t \in Thread : v = hold[t]
<1>1. DOMAIN fifo = 1..Len(fifo)
  BY DEF Shape, CacheTyped
<1> QED
  BY <1>1 DEF Cache!Live

\* Everything that can be got at has an address.
LEMMA LiveAreAddresses ==
  ASSUME Shape
  PROVE  /\ \A i \in 1..Len(fifo) : /\ fifo[i] \in Cached /\ fifo[i].val \in Address
                                    /\ fifo[i].key \in Hash
                                    /\ fifo[i].val \in Cache!Live /\ fifo[i].val # Null
         /\ \A t \in Thread : hold[t] \in Cache!Live /\ hold[t] \in Address \cup {Null}
         /\ \A v \in Cache!Live : v # Null => v \in Address
         /\ DOMAIN fifo = 1..Len(fifo)
<1>1. \A i \in 1..Len(fifo) : fifo[i] \in Cached
  BY DEF Shape, CacheTyped
<1>2. \A i \in 1..Len(fifo) : fifo[i].val \in Address /\ fifo[i].key \in Hash
  BY <1>1 DEF Cached
<1>3. \A t \in Thread : hold[t] \in Address \cup {Null}
  BY DEF Shape, CacheTyped
<1>4. DOMAIN fifo = 1..Len(fifo)
  BY DEF Shape, CacheTyped
<1> QED
  BY <1>1, <1>2, <1>3, <1>4, LiveIs, MemCacheAssumption

\* Both sorts of answers have numbers of moves.
LEMMA MovesAreNumbers ==
  \A r \in Asked : /\ NamedMoves(r) \in Nat /\ WantedMoves(r) \in Nat
                   /\ r.pos \in Position /\ NamedMoves(r) \in {0, MovesOf[r.pos]}
                   /\ HashOf[r.pos] \in Hash
                   /\ r.kind \in {"full", "value", "prefetch"}
  BY MemCacheAssumption DEF NamedMoves, WantedMoves, Hash

LEMMA InvariantAtStart == MemCacheInit => IInv
<1> SUFFICES ASSUME MemCacheInit
             PROVE  IInv
  OBVIOUS
<1> USE MemCacheAssumption DEF MemCacheInit, Cache!Init, NewComputation, NoTask, Blank
<1>1. CacheTyped
  BY DEF CacheTyped, Stored, Owners
<1>2. CompTyped
  BY DEF CompTyped
<1>3. TaskTyped
  BY DEF TaskTyped
<1>4. Private /\ GivenBelow /\ Answered
  BY DEF Private, Kept, GivenBelow, Answered
<1>5. Readable
  BY DEF Readable
<1> QED
  BY <1>1, <1>2, <1>3, <1>4, <1>5 DEF IInv, Shape

-----------------------------------------------------------------------------
\* Steps that read, or drop from the cache, disturb no computation.
LEMMA ReadersDisturbNothing ==
  ASSUME IInv, mem' = mem, comp' = comp,
         Cache!Live' \subseteq Cache!Live \cup {Null},
         \A t \in Thread : task[t].at = "emplaced" => task'[t] = task[t]
  PROVE  CompTyped' /\ Private' /\ GivenBelow' /\ Answered'
<1>1. CompTyped'
  BY DEF IInv, Shape, CompTyped
<1>2. Private'
  BY MemCacheAssumption, SMTT(30) DEF IInv, Private, Kept, ValueOf
<1>3. GivenBelow'
  <2> SUFFICES ASSUME NEW c \in Computation, comp[c].phase = "adding"
               PROVE  /\ \A j \in 1..Len(comp[c].wrapped) :
                           \E i \in 1..Len(comp[c].entries) :
                             /\ comp[c].wrapped[j].val = ValueOf(c, i)
                             /\ comp[c].wrapped[j].pos = comp[c].entries[i].req.pos
                      /\ \A i \in 1..Len(comp[c].entries) :
                           \/ \E j \in 1..Len(comp[c].wrapped) :
                                comp[c].wrapped[j].val = ValueOf(c, i)
                           \/ \E t \in Thread : /\ Of[t] = c /\ task'[t].at = "emplaced"
                                                /\ task'[t].entry = i
    BY SMTT(30) DEF GivenBelow, ValueOf
  <2> QED
    BY DEF IInv, GivenBelow
<1>4. Answered'
  BY DEF IInv, Answered, Kept, ValueOf
<1> QED
  BY <1>1, <1>2, <1>3, <1>4

\* A hit is pinned.
LEMMA LookUpKeeps ==
  ASSUME IInv, NEW t \in Thread, NEW op \in {"add", "peek"}, NEW r \in Asked,
         LookUp(t, op, r)
  PROVE  IInv'
<1> USE DEF IInv, Shape
<1> DEFINE found == Cache!KeyIn(fifo, HashOf[r.pos])
<1>1. /\ task[t].at = "idle" /\ mem' = mem /\ comp' = comp /\ fifo' = fifo /\ room' = room
      /\ op = "add" => comp[Of[t]].phase = "adding"
      /\ task' = [task EXCEPT ![t] =
                    [NoTask EXCEPT !.at = IF found THEN "found" ELSE "missed",
                                   !.op = op, !.req = r]]
      /\ IF found THEN Cache!Get(t, HashOf[r.pos]) ELSE hold' = hold
  BY DEF LookUp, Cache!Get
<1>2. /\ task'[t].at = (IF found THEN "found" ELSE "missed")
      /\ task'[t].op = op /\ task'[t].req = r /\ task'[t].entry = 0
      /\ \A u \in Thread \ {t} : task'[u] = task[u]
  BY <1>1 DEF TaskTyped, NoTask
<1>3. hold[t] = Null
  BY <1>1 DEF TaskTyped
<1>4. /\ hold' \in [Thread -> Address \cup {Null}]
      /\ \A u \in Thread \ {t} : hold'[u] = hold[u]
      /\ found => \E i \in 1..Len(fifo) : /\ hold'[t] = fifo[i].val
                                          /\ fifo[i].key = HashOf[r.pos]
                                          /\ fifo[i].val \in Address
      /\ ~found => hold'[t] = Null
  <2>1. CASE found
    <3>1. PICK i \in DOMAIN fifo : /\ fifo[i].key = HashOf[r.pos]
                                   /\ hold' = [hold EXCEPT ![t] = fifo[i].val]
      BY <1>1, <2>1 DEF Cache!Get
    <3>2. i \in 1..Len(fifo) /\ fifo[i].val \in Address
      BY <3>1, LiveAreAddresses
    <3> QED
      BY <2>1, <3>1, <3>2 DEF CacheTyped
  <2>2. CASE ~found
    BY <1>1, <1>3, <2>2 DEF CacheTyped
  <2> QED
    BY <2>1, <2>2
<1> HIDE DEF found
<1>5. Cache!Live' \subseteq Cache!Live \cup {Null}
  <2>1. \A v \in Cache!Live' : \/ \E i \in DOMAIN fifo : v = fifo[i].val
                               \/ \E u \in Thread : v = hold'[u]
    BY <1>1 DEF Cache!Live
  <2>2. \A u \in Thread : hold'[u] = hold[u] \/ hold'[u] = Null
                          \/ \E i \in 1..Len(fifo) : hold'[u] = fifo[i].val
    BY <1>3, <1>4
  <2> QED
    BY <2>1, <2>2, LiveIs DEF CacheTyped
<1>6. CompTyped' /\ Private' /\ GivenBelow' /\ Answered'
  BY <1>1, <1>2, <1>5, ReadersDisturbNothing
<1>7. CacheTyped'
  BY <1>1, <1>4 DEF CacheTyped
<1>8. TaskTyped'
  <2>1. task' \in [Thread -> [at : {"idle", "found", "missed", "emplaced"},
                             op : {"add", "peek"}, req : Asked \cup {NoRequest},
                             entry : Nat]]
    BY <1>1 DEF TaskTyped, NoTask
  <2>2. task'[t].at = "found" <=> hold'[t] # Null
    BY <1>2, <1>4, MemCacheAssumption
  <2> QED
    BY <1>1, <1>2, <1>4, <2>1, <2>2 DEF TaskTyped
<1>9. Readable'
  <2>1. \A v, h : GoodFor(v, h)' <=> GoodFor(v, h)
    BY <1>1 DEF GoodFor
  <2>2. hold'[t] # Null => GoodFor(hold'[t], HashOf[r.pos])
    BY <1>4 DEF Readable
  <2> QED
    BY <1>1, <1>2, <1>4, <2>1, <2>2, SMTT(30) DEF Readable, GoodFor
<1> QED
  BY <1>6, <1>7, <1>8, <1>9

\* A thread lets go of its value, or had none.
LEMMA LetGoKeeps ==
  ASSUME IInv, NEW t \in Thread, task[t].at \in {"found", "missed"}, Cache!LetGo(t),
         mem' = mem, comp' = comp,
         task' \in {[task EXCEPT ![t] = NoTask], [task EXCEPT ![t].at = "missed"]}
  PROVE  IInv'
<1> USE DEF IInv, Shape
<1>1. /\ fifo' = fifo /\ room' = room /\ hold' = [hold EXCEPT ![t] = Null]
      /\ hold' \in [Thread -> Address \cup {Null}]
      /\ hold'[t] = Null /\ \A u \in Thread \ {t} : hold'[u] = hold[u]
  BY DEF Cache!LetGo, CacheTyped
<1>2. /\ task'[t].at \in {"idle", "missed"} /\ \A u \in Thread \ {t} : task'[u] = task[u]
      /\ task'[t].at = "missed" => task'[t].op = task[t].op /\ task'[t].req = task[t].req
  BY DEF TaskTyped, NoTask
<1>3. Cache!Live' \subseteq Cache!Live \cup {Null}
  BY <1>1 DEF Cache!Live
<1>4. CompTyped' /\ Private' /\ GivenBelow' /\ Answered'
  BY <1>2, <1>3, ReadersDisturbNothing
<1>5. CacheTyped'
  BY <1>1 DEF CacheTyped
<1>6. TaskTyped'
  <2>1. task' \in [Thread -> [at : {"idle", "found", "missed", "emplaced"},
                             op : {"add", "peek"}, req : Asked \cup {NoRequest},
                             entry : Nat]]
    BY DEF TaskTyped, NoTask
  <2> QED
    BY <1>1, <1>2, <2>1 DEF TaskTyped
<1>7. Readable'
  BY <1>1, <1>2 DEF Readable, GoodFor
<1> QED
  BY <1>4, <1>5, <1>6, <1>7

\* Between searches the cache loses entries, and nothing else happens.
LEMMA DroppingKeeps ==
  ASSUME IInv, UNCHANGED <<mem, comp, task, hold>>, fifo' \in Seq(Cached),
         room' \in Sizes, Len(fifo') <= room',
         \A i \in 1..Len(fifo') : \E j \in 1..Len(fifo) : fifo'[i] = fifo[j]
  PROVE  IInv'
<1> USE DEF IInv, Shape
<1>1. Cache!Live' \subseteq Cache!Live
  <2>1. DOMAIN fifo' = 1..Len(fifo')
    OBVIOUS
  <2>2. \A v \in Cache!Live' : \/ \E i \in 1..Len(fifo') : v = fifo'[i].val
                               \/ \E u \in Thread : v = hold[u]
    BY <2>1 DEF Cache!Live
  <2> QED
    BY <2>2, LiveIs
<1>2. CompTyped' /\ Private' /\ GivenBelow' /\ Answered'
  BY <1>1, ReadersDisturbNothing
<1>3. CacheTyped' /\ TaskTyped'
  BY DEF CacheTyped, TaskTyped
<1>4. Readable'
  BY DEF Readable, GoodFor
<1> QED
  BY <1>2, <1>3, <1>4
-----------------------------------------------------------------------------
\* The values that computations keep are those that Taken counts.
LEMMA KeptAreTaken ==
  ASSUME IInv
  PROVE  \A c \in Computation : \A i \in Kept(c) : ValueOf(c, i) \in Taken
<1> TAKE c \in Computation
<1> TAKE i \in Kept(c)
<1>1. i \in DOMAIN comp[c].entries
  BY DEF IInv, Shape, CompTyped, Kept
<1>2. ValueOf(c, i) # Null
  BY MemCacheAssumption DEF IInv, Private
<1>3. ValueOf(c, i) \in OwnedBy(c)
  BY <1>1, <1>2 DEF OwnedBy, ValueOf
<1> QED
  BY <1>3 DEF Taken

\* A new entry gets an address of its own.
LEMMA EmplaceKeeps ==
  ASSUME IInv, NEW t \in Thread, Emplace(t)
  PROVE  IInv'
<1> USE DEF IInv, Shape
<1> DEFINE c == Of[t]
           r == task[t].req
           n == Len(comp[c].entries)
<1>1. PICK v \in FreeAddresses :
        /\ mem' = [mem EXCEPT ![v] = Blank(NamedMoves(r))]
        /\ comp' = [comp EXCEPT ![c].entries =
             Append(@, [req |-> r, val |-> v, result |-> NoResult])]
        /\ task' = [task EXCEPT ![t].at = "emplaced",
                                ![t].entry = Len(comp[c].entries) + 1]
  BY DEF Emplace
<1>2. /\ task[t].at = "missed" /\ task[t].op = "add" /\ c \in Computation /\ r \in Asked
      /\ fifo' = fifo /\ room' = room /\ hold' = hold /\ comp[c].phase = "adding"
      /\ comp[c].saved = 0
  BY MemCacheAssumption DEF Emplace, TaskTyped, CompTyped
<1>3. v \in Address /\ v \notin Taken /\ v \notin Cache!Live
  BY DEF FreeAddresses, Taken
<1> DEFINE new == [req |-> r, val |-> v, result |-> NoResult]
<1>4. new \in BatchEntry /\ new.val = v /\ new.req = r
  BY <1>2, <1>3 DEF BatchEntry, NoResult, Owners
<1>5. comp[c].entries \in Seq(BatchEntry) /\ comp[c].wrapped \in Seq(Below) /\ n \in Nat
  BY <1>2 DEF CompTyped
<1> HIDE DEF new
<1>6. /\ Append(comp[c].entries, new) \in Seq(BatchEntry)
      /\ Len(Append(comp[c].entries, new)) = n + 1
      /\ \A i \in 1..n : Append(comp[c].entries, new)[i] = comp[c].entries[i]
      /\ Append(comp[c].entries, new)[n + 1] = new
  BY <1>4, <1>5, AppendIsLast
<1>7. /\ comp'[c].entries = Append(comp[c].entries, new)
      /\ comp'[c].phase = "adding" /\ comp'[c].saved = 0
      /\ comp'[c].wrapped = comp[c].wrapped
      /\ \A d \in Computation \ {c} : comp'[d] = comp[d]
  BY <1>1, <1>2 DEF CompTyped, new
<1>8. /\ task'[t].at = "emplaced" /\ task'[t].op = "add" /\ task'[t].req = r
      /\ task'[t].entry = n + 1
      /\ \A u \in Thread \ {t} : task'[u] = task[u]
  BY <1>1, <1>2 DEF TaskTyped
<1>9. /\ mem' \in [Address -> Stored] /\ mem'[v].moves = NamedMoves(r)
      /\ \A w \in Address \ {v} : mem'[w] = mem[w]
  BY <1>1, <1>2, <1>3, MovesAreNumbers DEF CacheTyped, Blank, Stored, Owners
<1>10. Cache!Live' = Cache!Live
  BY <1>2 DEF Cache!Live
<1> HIDE DEF n
<1>11. /\ Len(comp'[c].entries) = n + 1 /\ n + 1 \in 1..(n + 1)
       /\ \A i \in 1..n : comp'[c].entries[i] = comp[c].entries[i] /\ i \in 1..(n + 1)
       /\ comp'[c].entries[n + 1] = new
       /\ \A i \in 1..(n + 1) : i \in 1..n \/ i = n + 1
       /\ n = Len(comp[c].entries)
  BY <1>5, <1>6, <1>7 DEF n
<1>12. CacheTyped'
  BY <1>2, <1>9 DEF CacheTyped
<1>13. CompTyped'
  <2>1. comp' \in [Computation -> [phase : {"adding", "saving", "done"},
                                  entries : Seq(BatchEntry), wrapped : Seq(Below), saved : Nat]]
    BY <1>1, <1>6, ZenonT(40) DEF CompTyped, new
  <2>2. ASSUME NEW d \in Computation
        PROVE  /\ comp'[d].saved <= Len(comp'[d].entries)
               /\ comp'[d].phase = "adding" => comp'[d].saved = 0
               /\ comp'[d].phase = "saving" => comp'[d].saved < Len(comp'[d].entries)
               /\ comp'[d].phase = "done" => comp'[d].saved = Len(comp'[d].entries)
    <3>1. CASE d = c
      BY <1>5, <1>7, <1>11, <3>1
    <3>2. CASE d # c
      BY <1>7, <3>2 DEF CompTyped
    <3> QED
      BY <3>1, <3>2
  <2> QED
    BY <2>1, <2>2 DEF CompTyped
<1>14. TaskTyped'
  <2>1. task' \in [Thread -> [at : {"idle", "found", "missed", "emplaced"},
                             op : {"add", "peek"}, req : Asked \cup {NoRequest},
                             entry : Nat]]
    <3>1. Len(comp[c].entries) + 1 \in Nat
      BY <1>5
    <3>2. task[t] \in [at : {"idle", "found", "missed", "emplaced"}, op : {"add", "peek"},
                       req : Asked \cup {NoRequest}, entry : Nat]
      BY DEF TaskTyped
    <3> DEFINE next == [task[t] EXCEPT !.at = "emplaced", !.entry = Len(comp[c].entries) + 1]
    <3>3. task' = [task EXCEPT ![t] = next]
      BY <1>1 DEF TaskTyped
    <3>4. next \in [at : {"idle", "found", "missed", "emplaced"}, op : {"add", "peek"},
                   req : Asked \cup {NoRequest}, entry : Nat]
      BY <3>1, <3>2
    <3> HIDE DEF next
    <3> QED
      BY <3>3, <3>4 DEF TaskTyped
  <2>2. \A u \in Thread :
          /\ task'[u].at # "idle" => task'[u].req \in Asked
          /\ task'[u].at = "found" <=> hold'[u] # Null
          /\ task'[u].at # "idle" /\ task'[u].op = "add" => comp'[Of[u]].phase = "adding"
    <3> TAKE u \in Thread
    <3>1. CASE u = t
      BY <1>2, <1>7, <1>8, <3>1 DEF TaskTyped
    <3>2. CASE u # t
      <4>1. comp[Of[u]].phase = "adding" => comp'[Of[u]].phase = "adding"
        BY <1>7, MemCacheAssumption
      <4> QED
        BY <1>2, <1>8, <3>2, <4>1 DEF TaskTyped
    <3> QED
      BY <3>1, <3>2
  <2>3. ASSUME NEW u \in Thread, task'[u].at = "emplaced"
        PROVE  /\ task'[u].op = "add"
               /\ task'[u].entry \in 1..Len(comp'[Of[u]].entries)
               /\ task'[u].req = comp'[Of[u]].entries[task'[u].entry].req
    <3>1. CASE u = t
      BY <1>4, <1>8, <1>11, <3>1
    <3>2. CASE u # t
      <4>1. /\ task[u].op = "add" /\ task[u].entry \in 1..Len(comp[Of[u]].entries)
            /\ task[u].req = comp[Of[u]].entries[task[u].entry].req
            /\ task'[u] = task[u] /\ Of[u] \in Computation
        BY <1>8, <2>3, <3>2, MemCacheAssumption DEF TaskTyped
      <4>2. CASE Of[u] = c
        BY <1>11, <4>1, <4>2
      <4>3. CASE Of[u] # c
        BY <1>7, <4>1, <4>3
      <4> QED
        BY <4>2, <4>3
    <3> QED
      BY <3>1, <3>2
  <2> QED
    BY <2>1, <2>2, <2>3 DEF TaskTyped
<1>15. /\ \A d \in Computation : \A i : i \in Kept(d)' <=> i \in Kept(d) \/ (d = c /\ i = n + 1)
       /\ \A d \in Computation : \A i \in Kept(d) :
            /\ comp'[d].entries[i] = comp[d].entries[i]
            /\ comp'[d].entries[i].val = comp[d].entries[i].val
            /\ comp[d].entries[i].val # v
       /\ comp'[c].entries[n + 1] = new /\ comp'[c].entries[n + 1].val = v
       /\ n + 1 \notin Kept(c)
  <2>1. Kept(c) = 1..n /\ Kept(c)' = 1..(n + 1)
    BY <1>2, <1>5, <1>7, <1>11 DEF Kept
  <2>2. \A d \in Computation \ {c} : Kept(d)' = Kept(d)
    BY <1>7 DEF Kept
  <2>3. \A d \in Computation : \A i \in Kept(d) : ValueOf(d, i) # v
    BY <1>3, KeptAreTaken
  <2>4. \A d \in Computation : \A i \in Kept(d) : comp'[d].entries[i] = comp[d].entries[i]
    BY <1>7, <1>11, <2>1
  <2>5. \A d \in Computation : \A i : i \in Kept(d)' <=> i \in Kept(d) \/ (d = c /\ i = n + 1)
    BY <1>5, <1>11, <2>1, <2>2
  <2>6. n + 1 \notin Kept(c)
    BY <1>5, <2>1
  <2> QED
    BY <1>4, <1>11, <2>3, <2>4, <2>5, <2>6 DEF ValueOf
<1>16. Private'
  <2>1. ASSUME NEW d \in Computation, NEW i \in Kept(d)'
        PROVE  /\ comp'[d].entries[i].val \in Address
               /\ comp'[d].entries[i].val \notin Cache!Live'
               /\ mem'[comp'[d].entries[i].val].moves = NamedMoves(comp'[d].entries[i].req)
    <3>1. CASE i \in Kept(d)
      BY <1>9, <1>10, <1>15, <3>1 DEF Private, ValueOf
    <3>2. CASE d = c /\ i = n + 1
      BY <1>3, <1>4, <1>9, <1>10, <1>15, <3>2
    <3> QED
      BY <1>15, <3>1, <3>2
  <2>2. ASSUME NEW d \in Computation, NEW e \in Computation, NEW i \in Kept(d)',
               NEW j \in Kept(e)', comp'[d].entries[i].val = comp'[e].entries[j].val
        PROVE  d = e /\ i = j
    <3>1. CASE i \in Kept(d) /\ j \in Kept(e)
      BY <1>15, <2>2, <3>1 DEF Private, ValueOf
    <3>2. CASE i \notin Kept(d) \/ j \notin Kept(e)
      BY <1>15, <2>2, <3>2
    <3> QED
      BY <3>1, <3>2
  <2> QED
    BY <2>1, <2>2 DEF Private, ValueOf
<1>17. GivenBelow'
  <2>1. ASSUME NEW d \in Computation, comp'[d].phase = "adding",
               NEW j \in 1..Len(comp'[d].wrapped)
        PROVE  \E i \in 1..Len(comp'[d].entries) :
                 /\ comp'[d].wrapped[j].val = comp'[d].entries[i].val
                 /\ comp'[d].wrapped[j].pos = comp'[d].entries[i].req.pos
    <3>1. comp[d].phase = "adding" /\ comp'[d].wrapped = comp[d].wrapped
      BY <1>2, <1>7, <2>1
    <3>2. PICK i \in 1..Len(comp[d].entries) :
            /\ comp[d].wrapped[j].val = comp[d].entries[i].val
            /\ comp[d].wrapped[j].pos = comp[d].entries[i].req.pos
      BY <2>1, <3>1 DEF GivenBelow, ValueOf
    <3>3. i \in 1..Len(comp'[d].entries) /\ comp'[d].entries[i] = comp[d].entries[i]
      BY <1>7, <1>11, <3>2
    <3> QED
      BY <3>1, <3>2, <3>3
  <2>2. ASSUME NEW d \in Computation, comp'[d].phase = "adding",
               NEW i \in 1..Len(comp'[d].entries)
        PROVE  \/ \E j \in 1..Len(comp'[d].wrapped) :
                    comp'[d].wrapped[j].val = comp'[d].entries[i].val
               \/ \E u \in Thread : Of[u] = d /\ task'[u].at = "emplaced"
                                   /\ task'[u].entry = i
    <3>1. CASE d = c /\ i = n + 1
      BY <1>8, <3>1
    <3>2. CASE ~(d = c /\ i = n + 1)
      <4>1. /\ i \in 1..Len(comp[d].entries) /\ comp'[d].entries[i] = comp[d].entries[i]
            /\ comp[d].phase = "adding" /\ comp'[d].wrapped = comp[d].wrapped
        BY <1>2, <1>7, <1>11, <2>2, <3>2
      <4>2. \/ \E j \in 1..Len(comp[d].wrapped) :
                 comp[d].wrapped[j].val = comp[d].entries[i].val
            \/ \E u \in Thread : Of[u] = d /\ task[u].at = "emplaced" /\ task[u].entry = i
        BY <4>1 DEF GivenBelow, ValueOf
      <4>3. \A u \in Thread : task[u].at = "emplaced" => task'[u] = task[u]
        BY <1>2, <1>8
      <4> QED
        BY <4>1, <4>2, <4>3
    <3> QED
      BY <3>1, <3>2
  <2> QED
    BY <2>1, <2>2 DEF GivenBelow, ValueOf
<1>18. Answered'
  <2>1. ASSUME NEW d \in Computation, d # c
        PROVE  /\ comp'[d].phase = "saving" => \A i \in Kept(d)' :
                    mem'[ValueOf(d, i)'].of = comp'[d].entries[i].req.pos
    <3>1. comp'[d] = comp[d] /\ Kept(d)' = Kept(d)
      BY <1>7, <2>1 DEF Kept
    <3>2. ASSUME NEW i \in Kept(d), comp[d].phase = "saving"
          PROVE  mem'[ValueOf(d, i)].of = comp[d].entries[i].req.pos
      <4>1. ValueOf(d, i) \in Address /\ ValueOf(d, i) # v
        BY <1>15 DEF Private, ValueOf
      <4> QED
        BY <1>9, <3>2, <4>1 DEF Answered
    <3> QED
      BY <3>1, <3>2 DEF ValueOf
  <2>2. ASSUME NEW d \in Computation, d # c, NEW i \in 1..comp'[d].saved
        PROVE  comp'[d].entries[i].result =
                 [of |-> comp'[d].entries[i].req.pos,
                  have |-> NamedMoves(comp'[d].entries[i].req),
                  took |-> WantedMoves(comp'[d].entries[i].req)]
    BY <1>7, <2>2 DEF Answered
  <2>3. comp'[c].phase # "saving" /\ 1..comp'[c].saved = {}
    BY <1>7
  <2> QED
    BY <2>1, <2>2, <2>3 DEF Answered
<1>19. Readable'
  <2>1. \A w \in Cache!Live : w # Null => mem'[w] = mem[w]
    BY <1>3, <1>9, LiveAreAddresses
  <2>2. \A i \in 1..Len(fifo) : fifo[i].val \in Cache!Live /\ fifo[i].val # Null
    BY LiveAreAddresses
  <2>3. \A u \in Thread : hold[u] \in Cache!Live
    BY LiveIs
  <2>4. \A u \in Thread : task'[u].req = task[u].req
    BY <1>8
  <2> QED
    BY <1>2, <2>1, <2>2, <2>3, <2>4 DEF Readable, GoodFor
<1> QED
  BY <1>12, <1>13, <1>14, <1>16, <1>17, <1>18, <1>19
\* The same entry is given to the computation below.
LEMMA AddWrappedKeeps ==
  ASSUME IInv, NEW t \in Thread, AddWrapped(t)
  PROVE  IInv'
<1> USE DEF IInv, Shape
<1> DEFINE c == Of[t]
           k == task[t].entry
           new == [pos |-> task[t].req.pos, val |-> comp[c].entries[k].val]
<1>1. /\ task[t].at = "emplaced" /\ task' = [task EXCEPT ![t] = NoTask]
      /\ comp' = [comp EXCEPT ![c].wrapped = Append(@, new)]
      /\ UNCHANGED <<fifo, room, hold, mem, split>>
  BY DEF AddWrapped
<1>2. /\ c \in Computation /\ comp[c].phase = "adding" /\ comp[c].saved = 0
      /\ task[t].req \in Asked /\ k \in 1..Len(comp[c].entries)
      /\ task[t].req = comp[c].entries[k].req
  BY <1>1, MemCacheAssumption DEF TaskTyped, CompTyped
<1>3. Kept(c) = 1..Len(comp[c].entries)
  BY <1>2 DEF Kept
<1>4. new \in Below
  BY <1>2, <1>3, MovesAreNumbers DEF Private, ValueOf, Below
<1> DEFINE m == Len(comp[c].wrapped)
<1>5. new.val = comp[c].entries[k].val /\ new.pos = comp[c].entries[k].req.pos
  BY <1>2
<1> HIDE DEF new
<1>6. comp[c].wrapped \in Seq(Below)
  BY <1>2 DEF CompTyped
<1>7. /\ Append(comp[c].wrapped, new) \in Seq(Below) /\ m \in Nat
      /\ Len(Append(comp[c].wrapped, new)) = m + 1
      /\ \A j \in 1..m : Append(comp[c].wrapped, new)[j] = comp[c].wrapped[j]
      /\ Append(comp[c].wrapped, new)[m + 1] = new
  BY <1>4, <1>6, AppendIsLast
<1>8. /\ comp'[c].wrapped = Append(comp[c].wrapped, new)
      /\ comp'[c].entries = comp[c].entries /\ comp'[c].phase = "adding"
      /\ comp'[c].saved = 0
      /\ \A d \in Computation \ {c} : comp'[d] = comp[d]
      /\ \A d \in Computation : /\ comp'[d].entries = comp[d].entries
                                /\ comp'[d].phase = comp[d].phase
                                /\ comp'[d].saved = comp[d].saved
  BY <1>1, <1>2 DEF CompTyped
<1> HIDE DEF m
<1>9. /\ Len(comp'[c].wrapped) = m + 1 /\ m = Len(comp[c].wrapped)
      /\ \A j \in 1..m : j \in 1..(m + 1) /\ comp'[c].wrapped[j] = comp[c].wrapped[j]
      /\ m + 1 \in 1..(m + 1) /\ comp'[c].wrapped[m + 1] = new
      /\ \A j \in 1..(m + 1) : j \in 1..m \/ j = m + 1
  BY <1>7, <1>8 DEF m
<1>10. /\ task'[t].at = "idle" /\ \A u \in Thread \ {t} : task'[u] = task[u]
  BY <1>1 DEF TaskTyped, NoTask
<1>11. CacheTyped'
  BY <1>1 DEF CacheTyped
<1>12. CompTyped'
  <2>1. comp' \in [Computation -> [phase : {"adding", "saving", "done"},
                                  entries : Seq(BatchEntry), wrapped : Seq(Below), saved : Nat]]
    BY <1>1, <1>7 DEF CompTyped
  <2> QED
    BY <1>8, <2>1 DEF CompTyped
<1>13. TaskTyped'
  <2>1. task' \in [Thread -> [at : {"idle", "found", "missed", "emplaced"},
                             op : {"add", "peek"}, req : Asked \cup {NoRequest},
                             entry : Nat]]
    BY <1>1 DEF TaskTyped, NoTask
  <2>2. \A u \in Thread : /\ comp'[Of[u]].entries = comp[Of[u]].entries
                          /\ comp'[Of[u]].phase = comp[Of[u]].phase
    BY <1>8, MemCacheAssumption
  <2> QED
    <3>1. ASSUME NEW u \in Thread \ {t}
          PROVE  /\ task'[u].at # "idle" => task'[u].req \in Asked
                 /\ task'[u].at = "found" <=> hold'[u] # Null
                 /\ task'[u].at # "idle" /\ task'[u].op = "add" =>
                      comp'[Of[u]].phase = "adding"
                 /\ task'[u].at = "emplaced" =>
                      /\ task'[u].op = "add"
                      /\ task'[u].entry \in 1..Len(comp'[Of[u]].entries)
                      /\ task'[u].req = comp'[Of[u]].entries[task'[u].entry].req
      BY <1>1, <1>10, <2>2 DEF TaskTyped
    <3>2. hold'[t] = Null
      BY <1>1 DEF TaskTyped
    <3> QED
      BY <1>10, <2>1, <3>1, <3>2 DEF TaskTyped
<1>14. Private'
  <2>1. Cache!Live' = Cache!Live
    BY <1>1 DEF Cache!Live
  <2>2. \A d \in Computation : /\ Kept(d)' = Kept(d)
                            /\ \A i : ValueOf(d, i)' = ValueOf(d, i)
    BY <1>8 DEF Kept, ValueOf
  <2> QED
    BY <1>1, <1>8, <2>1, <2>2 DEF Private
<1>15. GivenBelow'
  <2>1. ASSUME NEW d \in Computation, comp'[d].phase = "adding",
               NEW j \in 1..Len(comp'[d].wrapped)
        PROVE  \E i \in 1..Len(comp'[d].entries) :
                 /\ comp'[d].wrapped[j].val = comp'[d].entries[i].val
                 /\ comp'[d].wrapped[j].pos = comp'[d].entries[i].req.pos
    <3> comp'[d].entries = comp[d].entries
      BY <1>8
    <3>1. CASE d = c /\ j = m + 1
      BY <1>2, <1>5, <1>9, <3>1
    <3>2. CASE ~(d = c /\ j = m + 1)
      <4>1. j \in 1..Len(comp[d].wrapped) /\ comp'[d].wrapped[j] = comp[d].wrapped[j]
        BY <1>8, <1>9, <3>2
      <4> QED
        BY <1>8, <2>1, <4>1 DEF GivenBelow, ValueOf
    <3> QED
      BY <3>1, <3>2
  <2>2. ASSUME NEW d \in Computation, comp'[d].phase = "adding",
               NEW i \in 1..Len(comp'[d].entries)
        PROVE  \/ \E j \in 1..Len(comp'[d].wrapped) :
                    comp'[d].wrapped[j].val = comp'[d].entries[i].val
               \/ \E u \in Thread : Of[u] = d /\ task'[u].at = "emplaced"
                                   /\ task'[u].entry = i
    <3> comp'[d].entries = comp[d].entries
      BY <1>8
    <3>1. CASE d = c /\ i = k
      BY <1>5, <1>9, <3>1
    <3>2. CASE ~(d = c /\ i = k)
      <4>1. \/ \E j \in 1..Len(comp[d].wrapped) :
                 comp[d].wrapped[j].val = comp[d].entries[i].val
            \/ \E u \in Thread : Of[u] = d /\ task[u].at = "emplaced" /\ task[u].entry = i
        BY <1>8, <2>2 DEF GivenBelow, ValueOf
      <4>2. \A j \in 1..Len(comp[d].wrapped) :
              j \in 1..Len(comp'[d].wrapped) /\ comp'[d].wrapped[j] = comp[d].wrapped[j]
        BY <1>8, <1>9
      <4>3. \A u \in Thread : Of[u] = d /\ task[u].entry = i => task'[u] = task[u]
        BY <1>10, <3>2
      <4> QED
        BY <4>1, <4>2, <4>3
    <3> QED
      BY <3>1, <3>2
  <2> QED
    BY <2>1, <2>2 DEF GivenBelow, ValueOf
<1>16. Answered'
  <2>1. \A d \in Computation : /\ Kept(d)' = Kept(d)
                            /\ \A i : ValueOf(d, i)' = ValueOf(d, i)
    BY <1>8 DEF Kept, ValueOf
  <2> QED
    <3>1. ASSUME NEW d \in Computation
          PROVE  /\ comp'[d].phase = "saving" =>
                      \A i \in Kept(d)' : mem'[ValueOf(d, i)'].of = comp'[d].entries[i].req.pos
                 /\ \A i \in 1..comp'[d].saved :
                      LET e == comp'[d].entries[i]
                      IN e.result = [of |-> e.req.pos, have |-> NamedMoves(e.req),
                                     took |-> WantedMoves(e.req)]
      <4>1. mem' = mem
        BY <1>1
      <4>2. /\ comp'[d].phase = comp[d].phase /\ comp'[d].saved = comp[d].saved
            /\ comp'[d].entries = comp[d].entries
        BY <1>8
      <4> QED
        BY <2>1, <4>1, <4>2 DEF Answered
    <3> QED
      BY <3>1 DEF Answered
<1>17. Readable'
  <2>1. \A u \in Thread : hold[u] # Null => task'[u].req = task[u].req
    BY <1>1, <1>10 DEF TaskTyped
  <2> QED
    BY <1>1, <2>1 DEF Readable, GoodFor
<1> QED
  BY <1>11, <1>12, <1>13, <1>14, <1>15, <1>16, <1>17

-----------------------------------------------------------------------------
\* What the backend below writes, and where: every entry gets its own evaluation,
\* and nothing else changes.
LEMMA ComputeWrites ==
  ASSUME IInv, NEW c \in Computation, Compute(c)
  PROVE  /\ mem' \in [Address -> Stored]
         /\ \A v \in Address : mem'[v].moves = mem[v].moves
         /\ \A i \in 1..Len(comp[c].entries) :
              mem'[ValueOf(c, i)].of = comp[c].entries[i].req.pos
         /\ \A v \in Address : (\A i \in 1..Len(comp[c].entries) : v # ValueOf(c, i))
              => mem'[v] = mem[v]
<1> USE DEF IInv, Shape
<1> DEFINE Writers(v) == {j \in 1..Len(comp[c].wrapped) : comp[c].wrapped[j].val = v}
           Chosen(v) == CHOOSE j \in Writers(v) : TRUE
           Written(v) == IF Writers(v) = {} THEN mem[v]
                         ELSE [mem[v] EXCEPT !.of = comp[c].wrapped[Chosen(v)].pos]
<1>1. /\ comp[c].phase = "adding" /\ comp[c].saved = 0 /\ Adding(c) = {}
      /\ comp[c].wrapped \in Seq(Below) /\ comp[c].entries \in Seq(BatchEntry)
      /\ DOMAIN comp[c].wrapped = 1..Len(comp[c].wrapped)
  BY DEF Compute, CompTyped
<1>2. mem' = [v \in Address |-> Written(v)]
  BY <1>1 DEF Compute, Target
<1>3. \A v \in Address : Writers(v) # {} => Chosen(v) \in Writers(v)
  OBVIOUS
<1>4. \A j \in 1..Len(comp[c].wrapped) : comp[c].wrapped[j].pos \in Position
  <2>1. \A j \in 1..Len(comp[c].wrapped) : comp[c].wrapped[j] \in Below
    BY <1>1
  <2> HIDE DEF IInv
  <2> QED
    BY <2>1 DEF Below
<1>5. \A v \in Address : mem[v] \in Stored
  BY DEF CacheTyped
<1>6. \A v \in Address : /\ mem'[v] \in Stored /\ mem'[v].moves = mem[v].moves
                         /\ Writers(v) = {} => mem'[v] = mem[v]
                         /\ Writers(v) # {} => mem'[v].of = comp[c].wrapped[Chosen(v)].pos
  <2> TAKE v \in Address
  <2>1. CASE Writers(v) = {}
    BY <1>2, <1>5, <2>1
  <2>2. CASE Writers(v) # {}
    <3>1. comp[c].wrapped[Chosen(v)].pos \in Position
      BY <1>3, <1>4, <2>2
    <3>2. mem'[v] = [mem[v] EXCEPT !.of = comp[c].wrapped[Chosen(v)].pos]
      BY <1>2, <2>2
    <3> HIDE DEF Chosen, Writers
    <3> QED
      BY <1>5, <2>2, <3>1, <3>2 DEF Stored, Owners
  <2> QED
    BY <2>1, <2>2
<1>7. \A i \in 1..Len(comp[c].entries) : \A j \in Writers(ValueOf(c, i)) :
        comp[c].wrapped[j].pos = comp[c].entries[i].req.pos
  <2> TAKE i \in 1..Len(comp[c].entries)
  <2> TAKE j \in Writers(ValueOf(c, i))
  <2>1. PICK k \in 1..Len(comp[c].entries) :
          /\ comp[c].wrapped[j].val = ValueOf(c, k)
          /\ comp[c].wrapped[j].pos = comp[c].entries[k].req.pos
    BY <1>1 DEF GivenBelow
  <2>2. i \in Kept(c) /\ k \in Kept(c) /\ ValueOf(c, i) = ValueOf(c, k)
    BY <1>1, <2>1 DEF Kept
  <2>3. i = k
    BY <2>2 DEF Private
  <2> QED
    BY <2>1, <2>3
<1>8. \A i \in 1..Len(comp[c].entries) : Writers(ValueOf(c, i)) # {}
  <2> TAKE i \in 1..Len(comp[c].entries)
  <2>1. \A t \in Thread : Of[t] = c => task[t].at # "emplaced"
    BY <1>1 DEF Adding, ThreadsOf, TaskTyped
  <2>2. \/ \E j \in 1..Len(comp[c].wrapped) : comp[c].wrapped[j].val = ValueOf(c, i)
        \/ \E t \in Thread : Of[t] = c /\ task[t].at = "emplaced" /\ task[t].entry = i
    BY <1>1 DEF GivenBelow
  <2>3. \E j \in 1..Len(comp[c].wrapped) : comp[c].wrapped[j].val = ValueOf(c, i)
    BY <2>1, <2>2
  <2> QED
    BY <2>3
<1>9. \A i \in 1..Len(comp[c].entries) : ValueOf(c, i) \in Address
  BY <1>1 DEF Private, Kept
<1>10. \A v \in Address : Writers(v) # {} => \E i \in 1..Len(comp[c].entries) : v = ValueOf(c, i)
  BY <1>1 DEF GivenBelow
<1>11. mem' \in [Address -> Stored]
  <2> HIDE DEF Writers, Chosen, Written, IInv, Shape
  <2>1. \A v \in Address : mem'[v] = Written(v)
    BY <1>2
  <2>2. \A v \in Address : Written(v) \in Stored
    BY <1>6, <2>1
  <2> QED
    BY <1>2, <2>2
<1> HIDE DEF Writers, Chosen, Written
<1>12. \A i \in 1..Len(comp[c].entries) :
         mem'[ValueOf(c, i)].of = comp[c].entries[i].req.pos
  <2> TAKE i \in 1..Len(comp[c].entries)
  <2>1. ValueOf(c, i) \in Address /\ Writers(ValueOf(c, i)) # {}
    BY <1>8, <1>9
  <2>2. Chosen(ValueOf(c, i)) \in Writers(ValueOf(c, i))
    BY <1>3, <2>1
  <2> QED
    BY <1>6, <1>7, <2>1, <2>2
<1>13. ASSUME NEW v \in Address, \A i \in 1..Len(comp[c].entries) : v # ValueOf(c, i)
       PROVE  mem'[v] = mem[v]
  BY <1>6, <1>10, <1>13
<1> QED
  BY <1>6, <1>11, <1>12, <1>13
LEMMA ComputeKeeps ==
  ASSUME IInv, NEW c \in Computation, Compute(c)
  PROVE  IInv'
<1> USE DEF IInv, Shape
<1>1. /\ comp[c].phase = "adding" /\ comp[c].saved = 0 /\ Adding(c) = {}
      /\ comp' = [comp EXCEPT ![c].phase = "saving"]
      /\ comp[c].entries # << >> /\ comp[c].entries \in Seq(BatchEntry)
      /\ UNCHANGED <<fifo, room, hold, task, split>>
  BY DEF Compute, CompTyped
<1>2. /\ comp'[c].phase = "saving" /\ \A d \in Computation \ {c} : comp'[d] = comp[d]
      /\ \A d \in Computation : /\ comp'[d].entries = comp[d].entries
                                /\ comp'[d].wrapped = comp[d].wrapped
                                /\ comp'[d].saved = comp[d].saved
  BY <1>1 DEF CompTyped
<1>3. /\ Kept(c) = 1..Len(comp[c].entries)
      /\ \A d \in Computation : /\ Kept(d)' = Kept(d)
                                /\ \A i : ValueOf(d, i)' = ValueOf(d, i)
  BY <1>1, <1>2 DEF Kept, ValueOf
<1>4. Cache!Live' = Cache!Live
  BY <1>1 DEF Cache!Live
<1>5. \A v \in Address : /\ mem'[v].moves = mem[v].moves
                         /\ v \in Cache!Live => mem'[v] = mem[v]
                         /\ \A d \in Computation \ {c} : \A i \in Kept(d) :
                              v = ValueOf(d, i) => mem'[v] = mem[v]
  BY <1>3, ComputeWrites DEF Private
<1>6. CacheTyped'
  BY <1>1, ComputeWrites DEF CacheTyped
<1>7. CompTyped'
  <2>1. comp' \in [Computation -> [phase : {"adding", "saving", "done"},
                                  entries : Seq(BatchEntry), wrapped : Seq(Below), saved : Nat]]
    BY <1>1 DEF CompTyped
  <2>2. Len(comp[c].entries) \in Nat \ {0}
    BY <1>1
  <2> QED
    BY <1>1, <1>2, <2>1, <2>2 DEF CompTyped
<1>8. TaskTyped'
  <2>1. \A t \in Thread : task[t].at # "idle" /\ task[t].op = "add" => Of[t] # c
    BY <1>1 DEF Adding, ThreadsOf
  <2>2. \A t \in Thread : Of[t] # c => comp'[Of[t]] = comp[Of[t]]
    BY <1>2, MemCacheAssumption
  <2> QED
    BY <1>1, <2>1, <2>2 DEF TaskTyped
<1>9. Private'
  BY <1>2, <1>3, <1>4, <1>5 DEF Private
<1>10. GivenBelow'
  BY <1>1, <1>2 DEF GivenBelow, ValueOf
<1>11. Answered'
  <2>1. \A i \in Kept(c) : mem'[ValueOf(c, i)].of = comp[c].entries[i].req.pos
    BY <1>3, ComputeWrites
  <2>2. ASSUME NEW d \in Computation, d # c, comp[d].phase = "saving", NEW i \in Kept(d)
        PROVE  mem'[ValueOf(d, i)].of = comp[d].entries[i].req.pos
    <3>1. ValueOf(d, i) \in Address
      BY DEF Private
    <3>2. mem'[ValueOf(d, i)] = mem[ValueOf(d, i)]
      BY <1>5, <2>2, <3>1
    <3> QED
      BY <2>2, <3>2 DEF Answered
  <2>3. ASSUME NEW d \in Computation, comp'[d].phase = "saving", NEW i \in Kept(d)'
        PROVE  mem'[ValueOf(d, i)'].of = comp'[d].entries[i].req.pos
    <3>1. CASE d = c
      BY <1>2, <1>3, <2>1, <3>1
    <3>2. CASE d # c
      <4>1. comp[d].phase = "saving" /\ i \in Kept(d)
        BY <1>2, <1>3, <2>3, <3>2
      <4>2. mem'[ValueOf(d, i)].of = comp[d].entries[i].req.pos
        BY <2>2, <3>2, <4>1
      <4> QED
        BY <1>2, <1>3, <4>2
    <3> QED
      BY <3>1, <3>2
  <2>4. ASSUME NEW d \in Computation, NEW i \in 1..comp'[d].saved
        PROVE  comp'[d].entries[i].result =
                 [of |-> comp'[d].entries[i].req.pos,
                  have |-> NamedMoves(comp'[d].entries[i].req),
                  took |-> WantedMoves(comp'[d].entries[i].req)]
    BY <1>2 DEF Answered
  <2> QED
    BY <2>3, <2>4 DEF Answered
<1>12. Readable'
  <2>1. \A v \in Cache!Live : v # Null => mem'[v] = mem[v]
    BY <1>5, LiveAreAddresses
  <2>2. \A i \in 1..Len(fifo) : fifo[i].val \in Cache!Live /\ fifo[i].val # Null
    BY LiveAreAddresses
  <2>3. \A u \in Thread : hold[u] \in Cache!Live
    BY LiveAreAddresses
  <2> QED
    BY <1>1, <2>1, <2>2, <2>3 DEF Readable, GoodFor
<1> QED
  BY <1>6, <1>7, <1>8, <1>9, <1>10, <1>11, <1>12

\* A value moves from its entry to the cache, or to nobody.
LEMMA SaveKeeps ==
  ASSUME IInv, NEW c \in Computation, Save(c)
  PROVE  IInv'
<1> USE DEF IInv, Shape
<1> DEFINE i == comp[c].saved + 1
           e == comp[c].entries[i]
           n == Len(comp[c].entries)
           done == [e EXCEPT !.val = Null, !.result = ToResult(e.val, e.req)]
           next == IF i = n THEN "done" ELSE "saving"
           saved == [comp[c] EXCEPT !.entries = [@ EXCEPT ![i] = done], !.saved = i,
                                    !.phase = next]
<1>1. /\ comp[c].phase = "saving" /\ UNCHANGED <<room, hold, mem, task, split>>
      /\ \/ fifo' = fifo
         \/ fifo' = Inserted(KeyOf(c, i), e.val)
      /\ comp' = [comp EXCEPT ![c] = saved]
  BY DEF Save
<1>2. /\ n \in Nat /\ i \in Nat /\ i \in 1..n /\ comp[c].saved \in Nat
      /\ comp[c].entries \in Seq(BatchEntry) /\ comp[c].wrapped \in Seq(Below)
      /\ DOMAIN comp[c].entries = 1..n
  <2>1. comp[c].saved \in Nat /\ comp[c].entries \in Seq(BatchEntry)
        /\ comp[c].wrapped \in Seq(Below) /\ comp[c].saved < Len(comp[c].entries)
    BY <1>1 DEF CompTyped
  <2> QED
    BY <2>1
<1>3. Kept(c) = i..n /\ i \in Kept(c)
  BY <1>2 DEF Kept
<1>4. /\ e \in BatchEntry /\ e.req \in Asked /\ e.val \in Address /\ e.val \notin Cache!Live
      /\ mem[e.val] \in Stored /\ mem[e.val].of = e.req.pos
      /\ mem[e.val].moves = NamedMoves(e.req)
  <2>1. e \in BatchEntry
    BY <1>2
  <2>2. e.req \in Asked
    BY <2>1 DEF BatchEntry
  <2>3. /\ e.val \in Address /\ e.val \notin Cache!Live /\ mem[e.val].of = e.req.pos
        /\ mem[e.val].moves = NamedMoves(e.req)
    BY <1>1, <1>3 DEF Private, Answered, ValueOf
  <2> QED
    BY <2>1, <2>2, <2>3 DEF CacheTyped
<1>5. /\ done \in BatchEntry /\ done.val = Null /\ done.req = e.req
      /\ done.result = [of |-> e.req.pos, have |-> NamedMoves(e.req),
                        took |-> WantedMoves(e.req)]
  BY <1>4, MovesAreNumbers DEF BatchEntry, ToResult, Owners
<1> HIDE DEF done, e
<1>6. /\ [comp[c].entries EXCEPT ![i] = done] \in Seq(BatchEntry)
      /\ Len([comp[c].entries EXCEPT ![i] = done]) = n
      /\ [comp[c].entries EXCEPT ![i] = done][i] = done
      /\ \A j \in 1..n : j # i =>
           [comp[c].entries EXCEPT ![i] = done][j] = comp[c].entries[j]
  BY <1>2, <1>5
<1>7. /\ saved \in [phase : {"adding", "saving", "done"}, entries : Seq(BatchEntry),
                    wrapped : Seq(Below), saved : Nat]
      /\ saved.entries = [comp[c].entries EXCEPT ![i] = done] /\ saved.saved = i
      /\ saved.phase = next
  <2>1. comp[c] \in [phase : {"adding", "saving", "done"}, entries : Seq(BatchEntry),
                    wrapped : Seq(Below), saved : Nat]
    BY DEF CompTyped
  <2>2. next \in {"adding", "saving", "done"}
    OBVIOUS
  <2> HIDE DEF next, i, n
  <2> QED
    BY <1>2, <1>6, <2>1, <2>2
<1> HIDE DEF saved
<1>8. /\ comp'[c] = saved /\ \A d \in Computation \ {c} : comp'[d] = comp[d]
      /\ comp' \in [Computation -> [phase : {"adding", "saving", "done"},
                                   entries : Seq(BatchEntry), wrapped : Seq(Below),
                                   saved : Nat]]
  BY <1>1, <1>7 DEF CompTyped
<1>9. /\ Kept(c)' = (i + 1)..n /\ \A d \in Computation \ {c} : Kept(d)' = Kept(d)
  BY <1>6, <1>7, <1>8 DEF Kept
<1>10. \A d \in Computation : \A j \in Kept(d)' :
         /\ j \in Kept(d) /\ comp'[d].entries[j] = comp[d].entries[j]
         /\ ~(d = c /\ j = i)
  <2> TAKE d \in Computation
  <2> TAKE j \in Kept(d)'
  <2>1. CASE d = c
    BY <1>2, <1>3, <1>6, <1>7, <1>8, <1>9, <2>1
  <2>2. CASE d # c
    BY <1>8, <1>9, <2>2
  <2> QED
    BY <2>1, <2>2
<1> HIDE DEF next
<1>11. CompTyped'
  <2>1. /\ comp'[c].saved <= Len(comp'[c].entries)
        /\ comp'[c].phase = "saving" => comp'[c].saved < Len(comp'[c].entries)
        /\ comp'[c].phase = "done" => comp'[c].saved = Len(comp'[c].entries)
        /\ comp'[c].phase # "adding"
    BY <1>2, <1>6, <1>7, <1>8 DEF next
  <2> QED
    BY <1>8, <2>1 DEF CompTyped
<1>12. TaskTyped'
  <2>1. \A t \in Thread : task[t].at # "idle" /\ task[t].op = "add" => Of[t] # c
    BY <1>1 DEF TaskTyped
  <2>2. \A t \in Thread : Of[t] # c => comp'[Of[t]] = comp[Of[t]]
    BY <1>8, MemCacheAssumption
  <2> QED
    BY <1>1, <2>1, <2>2 DEF TaskTyped
<1>13. \/ fifo' = fifo
       \/ fifo' = Cache!Trim(Append(fifo, [key |-> HashOf[e.req.pos], val |-> e.val]), room)
  BY <1>1 DEF Inserted, KeyOf, e
<1>14. /\ fifo' \in Seq(Cached) /\ Len(fifo') <= room
       /\ \A j \in 1..Len(fifo') : \/ \E k \in 1..Len(fifo) : fifo'[j] = fifo[k]
                                   \/ fifo'[j] = [key |-> HashOf[e.req.pos], val |-> e.val]
  <2>1. CASE fifo' = fifo
    BY <2>1 DEF CacheTyped
  <2>2. CASE fifo' = Cache!Trim(Append(fifo, [key |-> HashOf[e.req.pos], val |-> e.val]),
                                room)
    <3> DEFINE new == [key |-> HashOf[e.req.pos], val |-> e.val]
               more == Append(fifo, new)
    <3>1. new \in Cached
      BY <1>4, MovesAreNumbers DEF Cached
    <3> HIDE DEF new
    <3>2. /\ more \in Seq(Cached) /\ Len(fifo) \in Nat /\ Len(more) = Len(fifo) + 1
          /\ \A k \in 1..Len(fifo) : more[k] = fifo[k]
          /\ more[Len(fifo) + 1] = new
      BY <3>1, AppendIsLast DEF CacheTyped
    <3> HIDE DEF more
    <3>3. fifo' = Cache!Trim(more, room) /\ room \in Nat
      BY <2>2, MemCacheAssumption DEF CacheTyped, more, new
    <3>4. /\ Cache!Trim(more, room) \in Seq(Cached) /\ Len(Cache!Trim(more, room)) <= room
          /\ \A j \in 1..Len(Cache!Trim(more, room)) :
               \E k \in 1..Len(more) : Cache!Trim(more, room)[j] = more[k]
      <4> HIDE DEF IInv
      <4> QED
        BY <3>2, <3>3, TrimKeeps, SMTT(30)
    <3>5. \A k \in 1..Len(more) : k \in 1..Len(fifo) \/ k = Len(fifo) + 1
      BY <3>2
    <3> QED
      BY <3>2, <3>3, <3>4, <3>5 DEF new
  <2> QED
    BY <1>13, <2>1, <2>2
<1>15. CacheTyped'
  BY <1>1, <1>14 DEF CacheTyped
<1>16. Cache!Live' \subseteq Cache!Live \cup {e.val}
  <2>1. DOMAIN fifo' = 1..Len(fifo')
    BY <1>14
  <2>2. \A v \in Cache!Live' : \/ \E j \in 1..Len(fifo') : v = fifo'[j].val
                               \/ \E t \in Thread : v = hold[t]
    BY <1>1, <2>1 DEF Cache!Live
  <2>3. \A j \in 1..Len(fifo') : \/ \E k \in 1..Len(fifo) : fifo'[j].val = fifo[k].val
                                 \/ fifo'[j].val = e.val
    BY <1>14
  <2> QED
    BY <2>2, <2>3, LiveIs
<1>17. Private'
  <2>1. ASSUME NEW d \in Computation, NEW j \in Kept(d)'
        PROVE  /\ comp'[d].entries[j].val \in Address
               /\ comp'[d].entries[j].val \notin Cache!Live'
               /\ mem'[comp'[d].entries[j].val].moves = NamedMoves(comp'[d].entries[j].req)
    <3>1. /\ comp[d].entries[j].val \in Address /\ comp[d].entries[j].val \notin Cache!Live
          /\ mem[comp[d].entries[j].val].moves = NamedMoves(comp[d].entries[j].req)
          /\ comp'[d].entries[j] = comp[d].entries[j]
      BY <1>10 DEF Private, ValueOf
    <3>2. comp[d].entries[j].val # e.val
      BY <1>3, <1>10 DEF Private, ValueOf, e
    <3> QED
      BY <1>1, <1>16, <3>1, <3>2
  <2>2. ASSUME NEW d1 \in Computation, NEW d2 \in Computation, NEW j \in Kept(d1)',
               NEW k \in Kept(d2)', comp'[d1].entries[j].val = comp'[d2].entries[k].val
        PROVE  d1 = d2 /\ j = k
    <3>1. /\ j \in Kept(d1) /\ comp'[d1].entries[j] = comp[d1].entries[j]
          /\ k \in Kept(d2) /\ comp'[d2].entries[k] = comp[d2].entries[k]
      BY <1>10
    <3>2. ValueOf(d1, j) = ValueOf(d2, k)
      BY <2>2, <3>1 DEF ValueOf
    <3> QED
      BY <3>1, <3>2 DEF Private
  <2> QED
    BY <2>1, <2>2 DEF Private, ValueOf
<1>18. GivenBelow'
  <2>1. \A d \in Computation : comp'[d].phase = "adding" => comp'[d] = comp[d]
    BY <1>7, <1>8 DEF next
  <2> QED
    BY <1>1, <2>1 DEF GivenBelow, ValueOf
<1>19. Answered'
  <2>1. ASSUME NEW d \in Computation, comp'[d].phase = "saving", NEW j \in Kept(d)'
        PROVE  mem'[comp'[d].entries[j].val].of = comp'[d].entries[j].req.pos
    <3>1. comp[d].phase = "saving"
      BY <1>1, <1>8, <2>1
    <3> QED
      BY <1>1, <1>10, <3>1 DEF Answered, ValueOf
  <2>2. ASSUME NEW d \in Computation, NEW j \in 1..comp'[d].saved
        PROVE  comp'[d].entries[j].result =
                 [of |-> comp'[d].entries[j].req.pos,
                  have |-> NamedMoves(comp'[d].entries[j].req),
                  took |-> WantedMoves(comp'[d].entries[j].req)]
    <3>1. CASE d = c /\ j = i
      BY <1>5, <1>6, <1>7, <1>8, <3>1
    <3>2. CASE ~(d = c /\ j = i)
      <4>1. j \in 1..comp[d].saved /\ comp'[d].entries[j] = comp[d].entries[j]
        BY <1>2, <1>6, <1>7, <1>8, <3>2, SMTT(30)
      <4> QED
        BY <4>1 DEF Answered
    <3> QED
      BY <3>1, <3>2
  <2> QED
    BY <2>1, <2>2 DEF Answered, ValueOf
<1>20. Readable'
  <2>1. GoodFor(e.val, HashOf[e.req.pos])
    <3>1. e.req.pos \in Position /\ NamedMoves(e.req) \in {0, MovesOf[e.req.pos]}
      BY <1>4, MovesAreNumbers
    <3>2. e.req.pos # Nobody
      BY <3>1, MemCacheAssumption
    <3> QED
      BY <1>4, <3>1, <3>2 DEF GoodFor
  <2>2. \A j \in 1..Len(fifo') : GoodFor(fifo'[j].val, fifo'[j].key)
    BY <1>14, <2>1 DEF Readable
  <2> QED
    BY <1>1, <2>2 DEF Readable, GoodFor
<1> QED
  BY <1>11, <1>12, <1>15, <1>17, <1>18, <1>19, <1>20

\* A new computation keeps nothing.
LEMMA RenewKeeps ==
  ASSUME IInv, NEW c \in Computation, Renew(c)
  PROVE  IInv'
<1> USE DEF IInv, Shape
<1>1. /\ comp[c].phase = "done" /\ comp' = [comp EXCEPT ![c] = NewComputation]
      /\ UNCHANGED <<fifo, room, hold, mem, task, split>>
  BY DEF Renew
<1>2. comp'[c] = NewComputation /\ \A d \in Computation \ {c} : comp'[d] = comp[d]
  BY <1>1 DEF CompTyped
<1>3. Kept(c)' = {} /\ \A d \in Computation \ {c} : Kept(d)' = Kept(d)
  BY <1>2 DEF Kept, NewComputation
<1>4. \A t \in Thread : Of[t] = c => ~(task[t].at # "idle" /\ task[t].op = "add")
  BY <1>1 DEF TaskTyped
<1>5. CacheTyped' /\ CompTyped'
  BY <1>1, <1>2 DEF CacheTyped, CompTyped, NewComputation
<1>6. TaskTyped'
  <2>1. \A t \in Thread : Of[t] # c => comp'[Of[t]] = comp[Of[t]]
    BY <1>2, MemCacheAssumption
  <2> QED
    BY <1>1, <1>4, <2>1 DEF TaskTyped
<1>7. Private'
  <2>1. Cache!Live' = Cache!Live
    BY <1>1 DEF Cache!Live
  <2> QED
    BY <1>1, <1>2, <1>3, <2>1 DEF Private, ValueOf
<1>8. GivenBelow'
  <2>1. ASSUME NEW d \in Computation, d # c
        PROVE  comp'[d] = comp[d]
    BY <1>2, <2>1
  <2>2. comp'[c].entries = << >> /\ comp'[c].wrapped = << >>
    BY <1>2 DEF NewComputation
  <2> QED
    BY <1>1, <2>1, <2>2 DEF GivenBelow, ValueOf
<1>9. Answered'
  BY <1>1, <1>2, <1>3 DEF Answered, ValueOf, NewComputation
<1>10. Readable'
  BY <1>1 DEF Readable, GoodFor
<1> QED
  BY <1>5, <1>6, <1>7, <1>8, <1>9, <1>10

-----------------------------------------------------------------------------
LEMMA InvariantSteps == IInv /\ [MemCacheNext]_memCacheVars => IInv'
<1> SUFFICES ASSUME IInv, [MemCacheNext]_memCacheVars
             PROVE  IInv'
  OBVIOUS
<1>1. ASSUME NEW t \in Thread, NEW op \in {"add", "peek"}, NEW r \in Asked, LookUp(t, op, r)
      PROVE  IInv'
  BY <1>1, LookUpKeeps
<1>2. ASSUME NEW t \in Thread, Fetch(t) \/ Refuse(t)
      PROVE  IInv'
  BY <1>2, LetGoKeeps DEF Fetch, Refuse
<1>3. ASSUME NEW t \in Thread, GiveUp(t)
      PROVE  IInv'
  <2>1. hold[t] = Null
    BY <1>3 DEF GiveUp, IInv, Shape, TaskTyped
  <2>2. Cache!LetGo(t)
    BY <1>3, <2>1 DEF GiveUp, Cache!LetGo, IInv, Shape, CacheTyped
  <2> QED
    BY <1>3, <2>2, LetGoKeeps DEF GiveUp
<1>4. ASSUME NEW t \in Thread, Emplace(t)
      PROVE  IInv'
  BY <1>4, EmplaceKeeps
<1>5. ASSUME NEW t \in Thread, AddWrapped(t)
      PROVE  IInv'
  BY <1>5, AddWrappedKeeps
<1>6. ASSUME NEW c \in Computation, Compute(c) \/ Save(c) \/ Renew(c)
      PROVE  IInv'
  BY <1>6, ComputeKeeps, SaveKeeps, RenewKeeps
<1>7. CASE ClearCache
  <2>1. fifo' = << >> /\ UNCHANGED <<mem, comp, task, hold, room>>
    BY <1>7 DEF ClearCache, Cache!Clear
  <2>2. fifo' \in Seq(Cached) /\ Len(fifo') = 0 /\ room \in Nat /\ room' \in Sizes
    BY <2>1, MemCacheAssumption DEF IInv, Shape, CacheTyped
  <2> QED
    BY <2>1, <2>2, DroppingKeeps
<1>8. CASE SetCacheSize
  <2>1. PICK n \in Sizes : Cache!SetCapacity(n)
    BY <1>8 DEF SetCacheSize
  <2>2. /\ fifo' = Cache!Trim(fifo, n) /\ room' = n
        /\ UNCHANGED <<mem, comp, task, hold>>
    BY <1>8, <2>1 DEF SetCacheSize, Cache!SetCapacity
  <2>3. fifo \in Seq(Cached) /\ n \in Nat
    BY MemCacheAssumption DEF IInv, Shape, CacheTyped
  <2>4. /\ fifo' \in Seq(Cached) /\ Len(fifo') <= n
        /\ \A i \in 1..Len(fifo') : \E j \in 1..Len(fifo) : fifo'[i] = fifo[j]
    BY <2>2, <2>3, TrimKeeps
  <2> QED
    BY <2>2, <2>4, DroppingKeeps
<1>9. CASE UNCHANGED memCacheVars
  <2>1. UNCHANGED <<mem, comp, task, hold, fifo, room>>
    BY <1>9 DEF memCacheVars
  <2>2. fifo \in Seq(Cached) /\ Len(fifo) <= room /\ room \in Sizes
    BY DEF IInv, Shape, CacheTyped
  <2> QED
    BY <2>1, <2>2, DroppingKeeps
<1> QED
  BY <1>1, <1>2, <1>3, <1>4, <1>5, <1>6, <1>7, <1>8, <1>9 DEF MemCacheNext

LEMMA Invariant == MemCacheSpec => []IInv
  BY InvariantAtStart, InvariantSteps, PTL DEF MemCacheSpec
LEMMA InvariantImplies ==
  IInv => MemCacheTypeOK /\ HitsAreUsable /\ AllAnswered /\ CachedUnderItsKey
<1> SUFFICES ASSUME IInv
             PROVE  MemCacheTypeOK /\ HitsAreUsable /\ AllAnswered /\ CachedUnderItsKey
  OBVIOUS
<1> USE DEF IInv, Shape
<1>1. MemCacheTypeOK
  <2>1. /\ fifo \in Seq([key : {HashOf[p] : p \in Position}, val : Address])
        /\ Len(fifo) <= room /\ room \in Sizes /\ hold \in [Thread -> Address \cup {Null}]
    BY DEF CacheTyped, Cached, Hash
  <2>2. \A v \in Address : mem[v].of \in Owner
    BY DEF CacheTyped, Stored, Owners, Owner
  <2>3. \A c \in Computation : /\ comp[c].phase \in {"adding", "saving", "done"}
                               /\ comp[c].saved \in 0..Len(comp[c].entries)
    BY DEF CompTyped
  <2> QED
    BY <2>1, <2>2, <2>3 DEF MemCacheTypeOK, TaskTyped
<1>2. HitsAreUsable
  <2> SUFFICES ASSUME NEW t \in Thread, task[t].at = "found",
                      Usable(hold[t], task[t].req)
               PROVE  LET result == ToResult(hold[t], task[t].req)
                      IN /\ result.of # Nobody
                         /\ HashOf[result.of] = HashOf[task[t].req.pos]
                         /\ result.took \in {0, result.have}
    BY DEF HitsAreUsable
  <2>1. task[t].req \in Asked /\ hold[t] # Null
    BY DEF TaskTyped
  <2>2. GoodFor(hold[t], HashOf[task[t].req.pos])
    BY <2>1 DEF Readable
  <2>3. WantedMoves(task[t].req) \in {0, mem[hold[t]].moves}
    <3>1. CASE task[t].req.kind = "full"
      <4>1. /\ NamedMoves(task[t].req) = MovesOf[task[t].req.pos]
            /\ WantedMoves(task[t].req) = MovesOf[task[t].req.pos]
            /\ MovesOf[task[t].req.pos] # 0
        BY <2>1, <3>1, MovesAreNumbers, MemCacheAssumption DEF NamedMoves, WantedMoves
      <4> QED
        BY <4>1 DEF Usable
    <3>2. CASE task[t].req.kind # "full"
      BY <3>2 DEF WantedMoves
    <3> QED
      BY <3>1, <3>2
  <2> QED
    BY <2>2, <2>3 DEF GoodFor, ToResult
<1>3. AllAnswered
  <2>1. \A c \in Computation : comp[c].phase = "done" =>
          DOMAIN comp[c].entries = 1..comp[c].saved
    BY DEF CompTyped
  <2> QED
    BY <2>1 DEF Answered, AllAnswered
<1>4. CachedUnderItsKey
  BY LiveAreAddresses DEF Readable, GoodFor, CachedUnderItsKey
<1> QED
  BY <1>1, <1>2, <1>3, <1>4

\* For any threads that share any computations, and any hashes: whatever is found in
\* the cache, or comes with a batch, is an evaluation of the position's own, or of one
\* that its hash cannot tell from it, with the priors that were asked for.
THEOREM AnswersAreTheirOwn ==
  MemCacheSpec => [](HitsAreUsable /\ AllAnswered /\ CachedUnderItsKey)
  BY Invariant, InvariantImplies, PTL

\* No step writes a value that the cache, or a thread that holds it, can get at: new
\* entries are made at free addresses, and the backend below writes those of entries.
THEOREM ReadValuesStay == MemCacheSpec => CachedValuesStay
<1>1. IInv /\ [MemCacheNext]_memCacheVars =>
        \A v \in Cache!Live \ {Null} : mem'[v] = mem[v]
  <2> SUFFICES ASSUME IInv, [MemCacheNext]_memCacheVars, NEW v \in Cache!Live, v # Null
               PROVE  mem'[v] = mem[v]
    OBVIOUS
  <2>1. ASSUME NEW t \in Thread, Emplace(t)
        PROVE  mem'[v] = mem[v]
    <3>1. PICK w \in FreeAddresses : mem' = [mem EXCEPT ![w] = Blank(NamedMoves(task[t].req))]
      BY <2>1 DEF Emplace
    <3>2. w # v
      BY DEF FreeAddresses, Taken
    <3>3. v \in Address /\ mem \in [Address -> Stored]
      BY LiveAreAddresses DEF IInv, Shape, CacheTyped
    <3> QED
      BY <3>1, <3>2, <3>3
  <2>2. ASSUME NEW c \in Computation, Compute(c)
        PROVE  mem'[v] = mem[v]
    <3>1. v \in Address
      BY LiveAreAddresses DEF IInv
    <3>2. \A i \in 1..Len(comp[c].entries) : v # ValueOf(c, i)
      <4>1. Kept(c) = 1..Len(comp[c].entries)
        BY <2>2 DEF Compute, IInv, Shape, CompTyped, Kept
      <4> QED
        BY <4>1 DEF IInv, Private
    <3> QED
      BY <2>2, <3>1, <3>2, ComputeWrites
  <2>3. ASSUME NEW t \in Thread,
               \/ \E op \in {"add", "peek"}, r \in Asked : LookUp(t, op, r)
               \/ Fetch(t) \/ Refuse(t) \/ GiveUp(t) \/ AddWrapped(t)
        PROVE  mem' = mem
    BY <2>3 DEF LookUp, Fetch, Refuse, GiveUp, AddWrapped
  <2>4. ASSUME NEW c \in Computation, Save(c) \/ Renew(c)
        PROVE  mem' = mem
    BY <2>4 DEF Save, Renew
  <2>5. CASE ClearCache \/ SetCacheSize \/ UNCHANGED memCacheVars
    BY <2>5 DEF ClearCache, SetCacheSize, memCacheVars
  <2> QED
    BY <2>1, <2>2, <2>3, <2>4, <2>5 DEF MemCacheNext
<1> QED
  BY <1>1, Invariant, PTL DEF MemCacheSpec, CachedValuesStay

-----------------------------------------------------------------------------
\* A thread that starts to add raises the count of those that may still by one.
LEMMA OneMoreThread ==
  ASSUME IsFiniteSet(Thread), NEW A \in SUBSET Thread, NEW B \in SUBSET Thread,
         NEW t \in Thread, B \subseteq A \cup {t}
  PROVE  /\ Cardinality(A) \in Nat /\ Cardinality(B) \in Nat
         /\ Cardinality(B) <= Cardinality(A) + 1
         /\ B \subseteq A => Cardinality(B) <= Cardinality(A)
         /\ B \subseteq A /\ t \in A /\ t \notin B => Cardinality(B) + 1 <= Cardinality(A)
<1>1. IsFiniteSet(A) /\ IsFiniteSet(B) /\ IsFiniteSet(A \cup {t}) /\ IsFiniteSet(A \ {t})
  BY FS_Subset, FS_AddElement, FS_RemoveElement
<1>2. Cardinality(A) \in Nat /\ Cardinality(B) \in Nat
  BY <1>1, FS_CardinalityType
<1>3. Cardinality(A \cup {t}) <= Cardinality(A) + 1
  BY <1>1, <1>2, FS_AddElement
<1>4. Cardinality(B) <= Cardinality(A \cup {t})
  BY <1>1, FS_Subset
<1>5. Cardinality(A \cup {t}) \in Nat
  BY <1>1, FS_CardinalityType
<1>6. B \subseteq A => Cardinality(B) <= Cardinality(A)
  BY <1>1, FS_Subset
<1>7. ASSUME B \subseteq A, t \in A, t \notin B
      PROVE  Cardinality(B) + 1 <= Cardinality(A)
  <2>1. Cardinality(A \ {t}) = Cardinality(A) - 1
    BY <1>1, <1>7, FS_RemoveElement
  <2>2. Cardinality(B) <= Cardinality(A \ {t})
    BY <1>1, <1>7, FS_Subset
  <2> QED
    BY <1>2, <2>1, <2>2
<1> QED
  BY <1>2, <1>3, <1>4, <1>5, <1>6, <1>7
\* The threads that may still make an entry.
Pending(c) == {t \in Adding(c) : task[t].at # "emplaced"}
\* A search keeps to its limit even when all of them do.
RoomOfMany == split \/ \A c \in Computation :
  Len(comp[c].entries) + Cardinality(Pending(c)) <= BatchLimit
\* The thread of a search that splits has at most one entry that is not below yet.
RoomOfOne == split =>
  /\ \A t \in Thread : task[t].at # "idle" => t = SplitThread /\ task[t].op = "add"
  /\ \A c \in Computation \ {Of[SplitThread]} : comp[c].entries = << >>
  /\ LET s == SplitThread  c == Of[s]
     IN /\ Len(comp[c].entries) <= MaxBatch
        /\ task[s].at = "emplaced" => Len(comp[c].entries) = Len(comp[c].wrapped) + 1
        /\ task[s].at # "emplaced" => Len(comp[c].entries) = Len(comp[c].wrapped)
        /\ task[s].at \in {"found", "missed"} => Len(comp[c].entries) < MaxBatch
Room == RoomOfMany /\ RoomOfOne

LEMMA RoomAtStart == IsFiniteSet(Thread) /\ MemCacheInit => Room
<1> SUFFICES ASSUME IsFiniteSet(Thread), MemCacheInit
             PROVE  Room
  OBVIOUS
<1> USE MemCacheAssumption DEF MemCacheInit, NewComputation, NoTask
<1>1. /\ \A t \in Thread : task[t].at = "idle"
      /\ \A c \in Computation : comp[c].entries = << >> /\ comp[c].wrapped = << >>
  OBVIOUS
<1>2. \A c \in Computation : Pending(c) = {}
  BY <1>1 DEF Pending, Adding, ThreadsOf
<1>3. RoomOfMany
  <2>1. \A c \in Computation : Len(comp[c].entries) = 0 /\ Cardinality(Pending(c)) = 0
    BY <1>1, <1>2, FS_EmptySet
  <2> QED
    BY <2>1 DEF RoomOfMany
<1>4. RoomOfOne
  <2>1. Of[SplitThread] \in Computation /\ task[SplitThread].at = "idle"
    BY <1>1
  <2>2. Len(<< >>) = 0
    OBVIOUS
  <2> HIDE DEF MemCacheInit
  <2> QED
    BY <1>1, <2>1, <2>2 DEF RoomOfOne
<1> QED
  BY <1>3, <1>4 DEF Room

\* What steps do to the entries and to the threads that may make more.
LEMMA RoomOfManySteps ==
  ASSUME IsFiniteSet(Thread), IInv, Room, [MemCacheNext]_memCacheVars, ~split
  PROVE  RoomOfMany'
<1> USE DEF IInv, Shape
<1> SUFFICES ASSUME NEW c \in Computation
             PROVE  Len(comp'[c].entries) + Cardinality(Pending(c)') <= BatchLimit
  BY DEF RoomOfMany
<1>1. /\ Pending(c) \in SUBSET Thread /\ Adding(c) \in SUBSET Thread
      /\ Pending(c)' \in SUBSET Thread
      /\ Len(comp[c].entries) \in Nat
      /\ Len(comp[c].entries) + Cardinality(Pending(c)) <= BatchLimit
  BY DEF Pending, Adding, ThreadsOf, Room, RoomOfMany, CompTyped
<1>2. ASSUME Pending(c)' \subseteq Pending(c), Len(comp'[c].entries) = Len(comp[c].entries)
      PROVE  Len(comp'[c].entries) + Cardinality(Pending(c)') <= BatchLimit
  <2>1. IsFiniteSet(Pending(c)) /\ Cardinality(Pending(c)') <= Cardinality(Pending(c))
    BY <1>1, <1>2, FS_Subset
  <2>2. IsFiniteSet(Pending(c)') /\ Cardinality(Pending(c)') \in Nat
        /\ Cardinality(Pending(c)) \in Nat
    BY <1>1, <2>1, FS_Subset, FS_CardinalityType
  <2> QED
    BY <1>1, <1>2, <2>1, <2>2, MemCacheAssumption
<1>3. ASSUME NEW t \in Thread, NEW op \in {"add", "peek"}, NEW r \in Asked, LookUp(t, op, r)
      PROVE  Len(comp'[c].entries) + Cardinality(Pending(c)') <= BatchLimit
  <2> DEFINE found == Cache!KeyIn(fifo, HashOf[r.pos])
  <2>1. /\ comp' = comp /\ task[t].at = "idle"
        /\ op = "add" => MayAdd(Of[t])
        /\ task' = [task EXCEPT ![t] =
                      [NoTask EXCEPT !.at = IF found THEN "found" ELSE "missed",
                                     !.op = op, !.req = r]]
    BY <1>3 DEF LookUp
  <2>2. task'[t].op = op /\ \A u \in Thread \ {t} : task'[u] = task[u]
    BY <2>1 DEF TaskTyped, NoTask
  <2>3. CASE op = "add" /\ Of[t] = c
    <3>1. Len(comp[c].entries) + Cardinality(Adding(c)) < BatchLimit
      BY <2>1, <2>3 DEF MayAdd
    <3>2. Pending(c)' \subseteq Adding(c) \cup {t}
      BY <2>2 DEF Pending, Adding, ThreadsOf
    <3>3. /\ Cardinality(Pending(c)') <= Cardinality(Adding(c)) + 1
          /\ Cardinality(Pending(c)') \in Nat /\ Cardinality(Adding(c)) \in Nat
      BY <1>1, <3>2, OneMoreThread
    <3> QED
      BY <1>1, <2>1, <3>1, <3>3, MemCacheAssumption
  <2>4. CASE ~(op = "add" /\ Of[t] = c)
    <3>1. Pending(c)' \subseteq Pending(c)
      BY <2>2, <2>4 DEF Pending, Adding, ThreadsOf
    <3> QED
      BY <1>2, <2>1, <3>1
  <2> QED
    BY <2>3, <2>4
<1>4. ASSUME NEW t \in Thread, Fetch(t) \/ Refuse(t) \/ GiveUp(t)
      PROVE  Len(comp'[c].entries) + Cardinality(Pending(c)') <= BatchLimit
  <2>1. /\ comp' = comp /\ \A u \in Thread \ {t} : task'[u] = task[u]
        /\ task[t].at \in {"found", "missed"}
        /\ task'[t].at = "idle" \/ task'[t].op = task[t].op
    BY <1>4 DEF Fetch, Refuse, GiveUp, TaskTyped, NoTask
  <2>2. Pending(c)' \subseteq Pending(c)
    BY <2>1 DEF Pending, Adding, ThreadsOf
  <2> QED
    BY <1>2, <2>1, <2>2
<1>5. ASSUME NEW t \in Thread, Emplace(t)
      PROVE  Len(comp'[c].entries) + Cardinality(Pending(c)') <= BatchLimit
  <2>1. PICK v \in FreeAddresses :
          /\ comp' = [comp EXCEPT ![Of[t]].entries =
               Append(@, [req |-> task[t].req, val |-> v, result |-> NoResult])]
          /\ task' = [task EXCEPT ![t].at = "emplaced",
                                  ![t].entry = Len(comp[Of[t]].entries) + 1]
    BY <1>5 DEF Emplace
  <2>2. /\ task[t].at = "missed" /\ task[t].op = "add" /\ task'[t].at = "emplaced"
        /\ \A u \in Thread \ {t} : task'[u] = task[u]
    BY <1>5, <2>1 DEF Emplace, TaskTyped
  <2>3. Pending(c)' \subseteq Pending(c) /\ t \notin Pending(c)'
    BY <2>2 DEF Pending, Adding, ThreadsOf
  <2>4. CASE Of[t] # c
    <3>1. comp'[c] = comp[c]
      BY <2>1, <2>4 DEF CompTyped
    <3> QED
      BY <1>2, <2>3, <3>1
  <2>5. CASE Of[t] = c
    <3>1. Len(comp'[c].entries) = Len(comp[c].entries) + 1
      BY <2>1, <2>5 DEF CompTyped
    <3>2. t \in Pending(c)
      BY <2>2, <2>5 DEF Pending, Adding, ThreadsOf
    <3>3. /\ Cardinality(Pending(c)') + 1 <= Cardinality(Pending(c))
          /\ Cardinality(Pending(c)') \in Nat /\ Cardinality(Pending(c)) \in Nat
      BY <1>1, <2>3, <3>2, OneMoreThread
    <3> QED
      BY <1>1, <3>1, <3>3, MemCacheAssumption
  <2> QED
    BY <2>4, <2>5
<1>6. ASSUME NEW t \in Thread, AddWrapped(t)
      PROVE  Len(comp'[c].entries) + Cardinality(Pending(c)') <= BatchLimit
  <2>1. /\ task'[t].at = "idle" /\ \A u \in Thread \ {t} : task'[u] = task[u]
        /\ comp'[c].entries = comp[c].entries
    BY <1>6 DEF AddWrapped, TaskTyped, NoTask, CompTyped
  <2>2. Pending(c)' \subseteq Pending(c)
    BY <2>1 DEF Pending, Adding, ThreadsOf
  <2> QED
    BY <1>2, <2>1, <2>2
<1>7. ASSUME NEW d \in Computation, Compute(d) \/ Save(d) \/ Renew(d)
      PROVE  Len(comp'[c].entries) + Cardinality(Pending(c)') <= BatchLimit
  <2>1. task' = task
    BY <1>7 DEF Compute, Save, Renew
  <2>2. Pending(c)' = Pending(c)
    BY <2>1 DEF Pending, Adding, ThreadsOf
  <2>3. \/ Len(comp'[c].entries) = Len(comp[c].entries)
        \/ Len(comp'[c].entries) = 0
    <3>1. CASE Compute(d)
      BY <3>1 DEF Compute, CompTyped
    <3>2. CASE Save(d)
      <4>1. PICK e : comp' = [comp EXCEPT
              ![d].entries[comp[d].saved + 1] = e, ![d].saved = comp[d].saved + 1,
              ![d].phase = IF comp[d].saved + 1 = Len(comp[d].entries)
                             THEN "done" ELSE "saving"]
        BY <3>2 DEF Save
      <4>2. comp[c].entries \in Seq(BatchEntry)
        BY DEF CompTyped
      <4>3. \/ comp'[c].entries = comp[c].entries
            \/ comp'[c].entries = [comp[c].entries EXCEPT ![comp[c].saved + 1] = e]
        BY <4>1 DEF CompTyped
      <4> QED
        BY <4>2, <4>3
    <3>3. CASE Renew(d)
      BY <3>3 DEF Renew, CompTyped, NewComputation
    <3> QED
      BY <1>7, <3>1, <3>2, <3>3
  <2>4. Cardinality(Pending(c)) \in Nat
    BY <1>1, FS_Subset, FS_CardinalityType
  <2> QED
    BY <1>1, <2>2, <2>3, <2>4, MemCacheAssumption
<1>8. CASE ClearCache \/ SetCacheSize \/ UNCHANGED memCacheVars
  <2>1. task' = task /\ comp' = comp
    BY <1>8 DEF ClearCache, SetCacheSize, memCacheVars
  <2>2. Pending(c)' = Pending(c)
    BY <2>1 DEF Pending, Adding, ThreadsOf
  <2> QED
    BY <1>1, <2>1, <2>2
<1> QED
  BY <1>3, <1>4, <1>5, <1>6, <1>7, <1>8 DEF MemCacheNext
LEMMA RoomOfOneSteps ==
  ASSUME IInv, Room, [MemCacheNext]_memCacheVars, split
  PROVE  RoomOfOne'
<1> USE DEF IInv, Shape
<1> DEFINE s == SplitThread
           c == Of[s]
<1>1. /\ s \in Thread /\ c \in Computation
      /\ \A t \in Thread : task[t].at # "idle" => t = s /\ task[t].op = "add"
      /\ \A d \in Computation \ {c} : comp[d].entries = << >>
      /\ Len(comp[c].entries) \in Nat /\ Len(comp[c].wrapped) \in Nat
      /\ Len(comp[c].entries) <= MaxBatch
      /\ task[s].at = "emplaced" => Len(comp[c].entries) = Len(comp[c].wrapped) + 1
      /\ task[s].at # "emplaced" => Len(comp[c].entries) = Len(comp[c].wrapped)
      /\ task[s].at \in {"found", "missed"} => Len(comp[c].entries) < MaxBatch
      /\ comp[c].entries \in Seq(BatchEntry) /\ comp[c].wrapped \in Seq(Below)
  <2>1. s \in Thread /\ c \in Computation
    BY MemCacheAssumption
  <2>2. comp[c].entries \in Seq(BatchEntry) /\ comp[c].wrapped \in Seq(Below)
    BY <2>1 DEF CompTyped
  <2> QED
    BY <2>1, <2>2 DEF Room, RoomOfOne
<1> SUFFICES /\ \A t \in Thread : task'[t].at # "idle" => t = s /\ task'[t].op = "add"
             /\ \A d \in Computation \ {c} : comp'[d].entries = << >>
             /\ Len(comp'[c].entries) <= MaxBatch
             /\ task'[s].at = "emplaced" =>
                  Len(comp'[c].entries) = Len(comp'[c].wrapped) + 1
             /\ task'[s].at # "emplaced" => Len(comp'[c].entries) = Len(comp'[c].wrapped)
             /\ task'[s].at \in {"found", "missed"} => Len(comp'[c].entries) < MaxBatch
  BY DEF RoomOfOne
<1> DEFINE Goal ==
      /\ \A t \in Thread : task'[t].at # "idle" => t = s /\ task'[t].op = "add"
      /\ \A d \in Computation \ {c} : comp'[d].entries = << >>
      /\ Len(comp'[c].entries) <= MaxBatch
      /\ task'[s].at = "emplaced" => Len(comp'[c].entries) = Len(comp'[c].wrapped) + 1
      /\ task'[s].at # "emplaced" => Len(comp'[c].entries) = Len(comp'[c].wrapped)
      /\ task'[s].at \in {"found", "missed"} => Len(comp'[c].entries) < MaxBatch
<1>2. ASSUME NEW t \in Thread, NEW op \in {"add", "peek"}, NEW r \in Asked, LookUp(t, op, r)
      PROVE  Goal
  <2> DEFINE found == Cache!KeyIn(fifo, HashOf[r.pos])
  <2>1. /\ t = s /\ op = "add" /\ comp' = comp /\ task[t].at = "idle" /\ MayAdd(c)
        /\ task' = [task EXCEPT ![t] =
                      [NoTask EXCEPT !.at = IF found THEN "found" ELSE "missed",
                                     !.op = op, !.req = r]]
    BY <1>2 DEF LookUp
  <2>2. /\ task'[s].op = "add" /\ task'[s].at \in {"found", "missed"}
        /\ \A u \in Thread \ {s} : task'[u] = task[u]
    BY <2>1 DEF TaskTyped, NoTask
  <2>3. Len(comp[c].wrapped) < MaxBatch
    BY <2>1 DEF MayAdd, UsedBatchSize
  <2> QED
    BY <1>1, <2>1, <2>2, <2>3
<1>3. ASSUME NEW t \in Thread, Fetch(t) \/ Refuse(t) \/ GiveUp(t)
      PROVE  Goal
  <2>1. /\ comp' = comp /\ \A u \in Thread \ {t} : task'[u] = task[u]
        /\ task[t].at \in {"found", "missed"}
        /\ \/ task'[t].at = "idle"
           \/ task'[t].op = task[t].op /\ task'[t].at = "missed"
    <3>1. CASE Refuse(t)
      BY <3>1 DEF Refuse, TaskTyped
    <3>2. CASE Fetch(t)
      BY <3>2 DEF Fetch, TaskTyped, NoTask
    <3>3. CASE GiveUp(t)
      BY <3>3 DEF GiveUp, TaskTyped, NoTask
    <3> QED
      BY <1>3, <3>1, <3>2, <3>3
  <2>2. t = s
    BY <1>1, <2>1
  <2> QED
    BY <1>1, <2>1, <2>2
<1>4. ASSUME NEW t \in Thread, Emplace(t)
      PROVE  Goal
  <2>1. PICK v \in FreeAddresses :
          /\ comp' = [comp EXCEPT ![Of[t]].entries =
               Append(@, [req |-> task[t].req, val |-> v, result |-> NoResult])]
          /\ task' = [task EXCEPT ![t].at = "emplaced",
                                  ![t].entry = Len(comp[Of[t]].entries) + 1]
    BY <1>4 DEF Emplace
  <2>2. /\ task[t].at = "missed" /\ task'[t].at = "emplaced" /\ task'[t].op = task[t].op
        /\ \A u \in Thread \ {t} : task'[u] = task[u]
    BY <1>4, <2>1 DEF Emplace, TaskTyped
  <2>3. t = s
    BY <1>1, <2>2
  <2>4. /\ comp'[c].entries =
             Append(comp[c].entries, [req |-> task[s].req, val |-> v, result |-> NoResult])
        /\ comp'[c].wrapped = comp[c].wrapped
        /\ \A d \in Computation \ {c} : comp'[d] = comp[d]
    BY <1>1, <2>1, <2>3 DEF CompTyped
  <2>5. Len(comp'[c].entries) = Len(comp[c].entries) + 1
    BY <1>1, <2>4
  <2>6. MaxBatch \in Nat
    BY MemCacheAssumption
  <2>7. /\ Len(comp'[c].entries) <= MaxBatch
        /\ Len(comp'[c].entries) = Len(comp'[c].wrapped) + 1
    BY <1>1, <2>2, <2>3, <2>4, <2>5, <2>6
  <2>8. \A u \in Thread : task'[u].at # "idle" => u = s /\ task'[u].op = "add"
    BY <1>1, <2>2, <2>3
  <2>9. \A d \in Computation \ {c} : comp'[d].entries = << >>
    BY <1>1, <2>4
  <2> QED
    BY <2>2, <2>3, <2>7, <2>8, <2>9
<1>5. ASSUME NEW t \in Thread, AddWrapped(t)
      PROVE  Goal
  <2>1. /\ task[t].at = "emplaced" /\ task'[t].at = "idle"
        /\ \A u \in Thread \ {t} : task'[u] = task[u]
        /\ comp' = [comp EXCEPT ![Of[t]].wrapped =
             Append(@, [pos |-> task[t].req.pos,
                        val |-> comp[Of[t]].entries[task[t].entry].val])]
    BY <1>5 DEF AddWrapped, TaskTyped, NoTask
  <2>2. t = s
    BY <1>1, <2>1
  <2>3. /\ \A d \in Computation : comp'[d].entries = comp[d].entries
        /\ comp'[c].wrapped = Append(comp[c].wrapped,
             [pos |-> task[s].req.pos, val |-> comp[c].entries[task[s].entry].val])
    BY <1>1, <2>1, <2>2, SMTT(30) DEF CompTyped
  <2>4. Len(comp'[c].wrapped) = Len(comp[c].wrapped) + 1
    BY <1>1, <2>3, SMTT(30)
  <2> QED
    BY <1>1, <2>1, <2>2, <2>3, <2>4
<1>6. ASSUME NEW d \in Computation, Compute(d)
      PROVE  Goal
  <2>1. task' = task /\ \A e \in Computation : /\ comp'[e].entries = comp[e].entries
                                               /\ comp'[e].wrapped = comp[e].wrapped
    BY <1>6 DEF Compute, CompTyped
  <2> QED
    BY <1>1, <2>1
<1>7. ASSUME NEW d \in Computation, Save(d)
      PROVE  Goal
  <2>1. /\ task' = task
        /\ \E x : comp' = [comp EXCEPT
              ![d].entries[comp[d].saved + 1] = x, ![d].saved = comp[d].saved + 1,
              ![d].phase = IF comp[d].saved + 1 = Len(comp[d].entries)
                             THEN "done" ELSE "saving"]
    BY <1>7 DEF Save
  <2>2. PICK x : comp' = [comp EXCEPT
              ![d].entries[comp[d].saved + 1] = x, ![d].saved = comp[d].saved + 1,
              ![d].phase = IF comp[d].saved + 1 = Len(comp[d].entries)
                             THEN "done" ELSE "saving"]
    BY <2>1
  <2>3. comp[d].saved < Len(comp[d].entries) /\ comp[d].entries # << >>
    BY <1>7 DEF Save, CompTyped
  <2>4. d = c
    BY <1>1, <2>3
  <2>5. /\ \A e \in Computation \ {c} : comp'[e] = comp[e]
        /\ comp'[c].wrapped = comp[c].wrapped
        /\ comp'[c].entries = [comp[c].entries EXCEPT ![comp[c].saved + 1] = x]
    BY <2>2, <2>4, ZenonT(40) DEF CompTyped
  <2>6. Len(comp'[c].entries) = Len(comp[c].entries)
    BY <1>1, <2>5
  <2> QED
    BY <1>1, <2>1, <2>5, <2>6
<1>8. ASSUME NEW d \in Computation, Renew(d)
      PROVE  Goal
  <2>1. /\ task' = task /\ comp[d].phase = "done"
        /\ comp'[d].entries = << >> /\ comp'[d].wrapped = << >>
        /\ \A e \in Computation \ {d} : comp'[e] = comp[e]
    BY <1>8 DEF Renew, CompTyped, NewComputation
  <2>2. CASE d = c
    <3>1. task[s].at = "idle"
      BY <1>1, <2>1, <2>2 DEF TaskTyped
    <3>2. Len(comp'[c].entries) = 0 /\ Len(comp'[c].wrapped) = 0
      BY <2>1, <2>2
    <3>3. 0 <= MaxBatch
      BY MemCacheAssumption
    <3>4. \A e \in Computation \ {c} : comp'[e].entries = << >>
      BY <1>1, <2>1, <2>2
    <3> QED
      BY <1>1, <2>1, <3>1, <3>2, <3>3, <3>4
  <2>3. CASE d # c
    BY <1>1, <2>1, <2>3
  <2> QED
    BY <2>2, <2>3
<1>9. CASE ClearCache \/ SetCacheSize \/ UNCHANGED memCacheVars
  <2>1. task' = task /\ comp' = comp
    BY <1>9 DEF ClearCache, SetCacheSize, memCacheVars
  <2> QED
    BY <1>1, <2>1
<1> HIDE DEF Goal
<1> QED
  BY <1>2, <1>3, <1>4, <1>5, <1>6, <1>7, <1>8, <1>9 DEF MemCacheNext, Goal

\* Every invariant of the cache and its computations, for a search that never adds
\* more to a batch than the backend takes.
THEOREM CacheAndBatchesAgree ==
  ASSUME IsFiniteSet(Thread), BatchLimit <= MaxBatch
  PROVE  MemCacheSpec => []MemCacheInv
<1>1. MemCacheInit => Room
  BY RoomAtStart
<1>2. IInv /\ Room /\ [MemCacheNext]_memCacheVars => Room'
  <2> SUFFICES ASSUME IInv, Room, [MemCacheNext]_memCacheVars
               PROVE  Room'
    OBVIOUS
  <2>1. split' = split
    BY DEF MemCacheNext, memCacheVars, LookUp, Fetch, Refuse, GiveUp, Emplace, AddWrapped,
           Compute, Save, Renew, ClearCache, SetCacheSize
  <2>2. CASE ~split
    BY <2>1, <2>2, RoomOfManySteps DEF Room, RoomOfOne
  <2>3. CASE split
    BY <2>1, <2>3, RoomOfOneSteps DEF Room, RoomOfMany
  <2> QED
    BY <2>2, <2>3
<1>3. IInv /\ Room => NoOverflow
  <2> SUFFICES ASSUME IInv, Room, NEW c \in Computation
               PROVE  Len(comp[c].entries) <= MaxBatch
    BY DEF NoOverflow
  <2>1. Len(comp[c].entries) \in Nat
    BY DEF IInv, Shape, CompTyped
  <2>2. CASE ~split
    <3>1. Pending(c) \in SUBSET Thread
      BY DEF Pending, Adding, ThreadsOf
    <3>2. Cardinality(Pending(c)) \in Nat
      BY <3>1, FS_Subset, FS_CardinalityType
    <3> QED
      BY <2>1, <2>2, <3>2, MemCacheAssumption DEF Room, RoomOfMany
  <2>3. CASE split
    <3>1. c # Of[SplitThread] => Len(comp[c].entries) = 0
      BY <2>3 DEF Room, RoomOfOne
    <3> QED
      BY <2>3, <3>1, MemCacheAssumption DEF Room, RoomOfOne
  <2> QED
    BY <2>2, <2>3
<1>4. IInv /\ Room => MemCacheInv
  BY <1>3, InvariantImplies DEF MemCacheInv
<1>5. MemCacheSpec => []Room
  BY <1>1, <1>2, Invariant, PTL DEF MemCacheSpec
<1> QED
  BY <1>4, <1>5, Invariant, PTL

-----------------------------------------------------------------------------
(* HashKeyedCache.                                                         *)

(* A set of numbers that is not empty has a least one.                         *)
LEMMA LeastElement ==
  ASSUME NEW X \in SUBSET Nat, X # {}
  PROVE  \E n \in X : \A m \in X : n <= m
<1>. DEFINE R == {ss \in Nat \X Nat : ss[1] < ss[2]}
<1>1. IsWellFoundedOn(R, Nat)
  BY NatLessThanWellFounded DEF OpToRel
<1>2. PICK x \in X : \A y \in X : <<y, x>> \notin R
  <2>. HIDE DEF R
  <2>. QED BY <1>1, WFMin
<1>3. \A y \in X : ~(y < x)
  BY <1>2
<1>. QED BY <1>3

(* Induction on natural numbers, for a set.                                   *)
LEMMA Counting ==
  ASSUME NEW P, 0 \in P, \A k \in Nat : k \in P => k + 1 \in P
  PROVE  Nat \subseteq P
<1>. DEFINE Bad == {n \in Nat : n \notin P}
<1>1. SUFFICES ASSUME Bad # {} PROVE FALSE
  OBVIOUS
<1>2. PICK n \in Bad : \A m \in Bad : n <= m
  <2>1. Bad \in SUBSET Nat
    OBVIOUS
  <2>. HIDE DEF Bad
  <2>. QED BY <1>1, <2>1, LeastElement
<1>3. n # 0 /\ n \in Nat
  OBVIOUS
<1>4. n - 1 \in Nat /\ n - 1 \notin Bad
  <2>. HIDE DEF Bad
  <2>. QED BY <1>2, <1>3
<1>5. (n - 1) + 1 = n
  BY <1>3
<1>. QED BY <1>4, <1>5

(* The steps from a to b around a ring of n slots.                            *)
Dist(n, a, b) == IF a <= b THEN b - a ELSE b - a + n

(* Quotient and remainder are unique.                                         *)
LEMMA RemainderIsUnique ==
  ASSUME NEW n \in Nat \ {0}, NEW p \in Nat, NEW q \in Nat,
         NEW a \in 0..(n - 1), NEW b \in 0..(n - 1), p * n + a = q * n + b
  PROVE  a = b
<1>1. p * n \in Nat /\ q * n \in Nat
  OBVIOUS
<1>2. CASE p < q
  <2>1. p + 1 <= q /\ p + 1 \in Nat
    BY <1>2
  <2>2. (p + 1) * n <= q * n
    BY <2>1
  <2>3. (p + 1) * n = p * n + n
    OBVIOUS
  <2>. QED BY <1>1, <2>2, <2>3
<1>3. CASE q < p
  <2>1. q + 1 <= p /\ q + 1 \in Nat
    BY <1>3
  <2>2. (q + 1) * n <= p * n
    BY <2>1
  <2>3. (q + 1) * n = q * n + n
    OBVIOUS
  <2>. QED BY <1>1, <2>2, <2>3
<1>4. CASE p = q
  BY <1>1, <1>4
<1>. QED BY <1>2, <1>3, <1>4

(* A remainder, and that of a number a few steps on.                          *)
LEMMA RingStep ==
  ASSUME NEW n \in Nat \ {0}, NEW k \in Nat, NEW d \in 0..n
  PROVE  /\ k % n \in 0..(n - 1)
         /\ (k + d) % n = IF (k % n) + d < n THEN (k % n) + d ELSE (k % n) + d - n
<1>. DEFINE q == k \div n
            r == k % n
            p == (k + d) \div n
            s == (k + d) % n
<1>1. \A x \in Nat : /\ x = (x \div n) * n + (x % n)
                     /\ x \div n \in Nat /\ x % n \in 0..(n - 1)
  OBVIOUS
<1>2. k = q * n + r /\ q \in Nat /\ r \in 0..(n - 1)
  BY <1>1, SMTT(30)
<1>3. k + d = p * n + s /\ p \in Nat /\ s \in 0..(n - 1)
  BY <1>1
<1>. HIDE DEF q, r, p, s
<1>4. q * n \in Nat /\ p * n \in Nat /\ (q + 1) * n = q * n + n /\ q + 1 \in Nat
  BY <1>2, <1>3
<1>5. CASE r + d < n
  <2>1. r + d \in 0..(n - 1) /\ q * n + (r + d) = p * n + s
    BY <1>2, <1>3, <1>4, <1>5
  <2>2. r + d = s
    BY <2>1, <1>2, <1>3, RemainderIsUnique
  <2>. QED BY <1>2, <1>5, <2>2 DEF r, s
<1>6. CASE ~(r + d < n)
  <2>1. r + d - n \in 0..(n - 1) /\ (q + 1) * n + (r + d - n) = p * n + s
    BY <1>2, <1>3, <1>4, <1>6
  <2>2. r + d - n = s
    BY <2>1, <1>3, <1>4, RemainderIsUnique
  <2>. QED BY <1>2, <1>6, <2>2 DEF r, s
<1>. QED BY <1>5, <1>6

(* A set of numbers that is not empty has the minimum that Min chooses.       *)
LEMMA MinIs ==
  ASSUME NEW X \in SUBSET Nat, X # {}
  PROVE  Min(X) \in X /\ \A y \in X : Min(X) <= y
<1>1. \E x \in X : \A y \in X : x <= y
  BY LeastElement
<1>. QED BY <1>1 DEF Min

(* A probe for key k in a table of n slots comes by slot j before slot i.     *)
Past(n, k, j, i) == Dist(n, k % n, j) < Dist(n, k % n, i)
(* Every entry is found by its probe, the slots in H not counted.             *)
InReach(n, t, H) ==
  \A i \in 0..(n - 1) : InUse(t, i) =>
    \A j \in 0..(n - 1) : Past(n, t[i].key, j, i) => InUse(t, j) \/ j \in H
KeysApart(n, t) ==
  \A i, j \in 0..(n - 1) : InUse(t, i) /\ InUse(t, j) /\ t[i].key = t[j].key => i = j
Content(n, t) == {t[i] : i \in 0..(n - 1)} \ {Free}
TableOK(n, t) ==
  t \in [0..(n - 1) -> Entry] /\ InReach(n, t, {}) /\ KeysApart(n, t)

(* A probe ends at the slot of its set that is nearest to the key's home.     *)
LEMMA ProbeIs ==
  ASSUME NEW n \in Nat \ {0}, NEW t \in [0..(n - 1) -> Entry], NEW k \in Nat,
         NEW slots \in SUBSET (0..(n - 1)), slots # {}
  PROVE  /\ Probe(t, k, slots) \in slots
         /\ \A j \in slots : Dist(n, k % n, Probe(t, k, slots)) <= Dist(n, k % n, j)
<1>. DEFINE h == k % n
            on(d) == IF h + d < n THEN h + d ELSE h + d - n
            ds == {d \in DOMAIN t : Slot(t, k + d) \in slots}
            m == Min(ds)
<1>1. DOMAIN t = 0..(n - 1) /\ Cardinality(DOMAIN t) = n
  BY FS_Interval
<1>2. h \in 0..(n - 1)
  <2>1. 0 \in 0..n
    OBVIOUS
  <2>. QED BY <2>1, RingStep
<1>3. ASSUME NEW d \in 0..(n - 1)
      PROVE  Slot(t, k + d) = on(d)
  <2>1. d \in 0..n
    OBVIOUS
  <2>2. (k + d) % n = on(d)
    BY <2>1, RingStep
  <2>. QED BY <1>1, <2>2 DEF Slot
<1>. HIDE DEF h
<1>4. ASSUME NEW j \in slots
      PROVE  Dist(n, h, j) \in ds
  <2>1. j \in 0..(n - 1)
    OBVIOUS
  <2>2. Dist(n, h, j) \in 0..(n - 1) /\ on(Dist(n, h, j)) = j
    BY <1>2, <2>1 DEF Dist
  <2>3. Slot(t, k + Dist(n, h, j)) = j
    <3>. HIDE DEF on
    <3>. QED BY <1>3, <2>2
  <2>. QED BY <1>1, <2>2, <2>3
<1>5. ds \in SUBSET Nat /\ ds # {}
  <2>1. ds \in SUBSET Nat
    BY <1>1
  <2>2. PICK j \in slots : TRUE
    OBVIOUS
  <2>3. Dist(n, h, j) \in ds
    BY <1>4
  <2>. HIDE DEF ds
  <2>. QED BY <2>1, <2>3
<1>6. m \in ds /\ \A d \in ds : m <= d
  <2>. HIDE DEF ds
  <2>. QED BY <1>5, MinIs
<1>7. m \in 0..(n - 1) /\ Slot(t, k + m) \in slots
  BY <1>1, <1>6
<1>8. Probe(t, k, slots) = Slot(t, k + m)
  BY DEF Probe
<1>. HIDE DEF ds, m
<1>9. Dist(n, h, Slot(t, k + m)) = m
  <2>1. Slot(t, k + m) = on(m)
    BY <1>3, <1>7
  <2>2. Dist(n, h, on(m)) = m
    BY <1>2, <1>7 DEF Dist
  <2>. QED BY <2>1, <2>2
<1>. QED BY <1>4, <1>6, <1>7, <1>8, <1>9 DEF h

(* Distances on a ring.                                                       *)
LEMMA DistIs ==
  ASSUME NEW n \in Nat \ {0}, NEW a \in 0..(n - 1)
  PROVE  /\ \A b \in 0..(n - 1) : Dist(n, a, b) \in 0..(n - 1)
         /\ \A b, c \in 0..(n - 1) : Dist(n, a, b) = Dist(n, a, c) => b = c
         /\ Dist(n, a, a) = 0
BY DEF Dist

(* Find ends at the key's slot, or at the free slot where it would be put.    *)
LEMMA FindIs ==
  ASSUME NEW n \in Nat \ {0}, NEW t, TableOK(n, t), NEW k \in Nat,
         \E f \in 0..(n - 1) : ~InUse(t, f)
  PROVE  /\ Find(t, k) \in 0..(n - 1)
         /\ InUse(t, Find(t, k)) => t[Find(t, k)].key = k
         /\ ~InUse(t, Find(t, k)) => \A j \in 0..(n - 1) : InUse(t, j) => t[j].key # k
         /\ \A j \in 0..(n - 1) : Past(n, k, j, Find(t, k)) => InUse(t, j)
<1>. DEFINE slots == FreeSlots(t) \cup SlotsOf(t, k)
            h == k % n
            i == Find(t, k)
<1>1. t \in [0..(n - 1) -> Entry] /\ DOMAIN t = 0..(n - 1)
  BY DEF TableOK
<1>2. /\ slots \in SUBSET (0..(n - 1)) /\ slots # {}
      /\ \A j \in 0..(n - 1) : j \in slots <=> ~InUse(t, j) \/ t[j].key = k
  BY <1>1 DEF FreeSlots, SlotsOf
<1>3. i = Probe(t, k, slots)
  BY DEF Find
<1>4. i \in slots /\ \A j \in slots : Dist(n, h, i) <= Dist(n, h, j)
  <2>. HIDE DEF slots, i
  <2>. QED BY <1>1, <1>2, <1>3, ProbeIs
<1>5. h \in 0..(n - 1)
  <2>1. 0 \in 0..n
    OBVIOUS
  <2>. QED BY <2>1, RingStep
<1>. HIDE DEF slots, h, i
<1>6. /\ \A j \in 0..(n - 1) : Dist(n, h, j) \in 0..(n - 1)
      /\ \A j, l \in 0..(n - 1) : Dist(n, h, j) = Dist(n, h, l) => j = l
  BY <1>5, DistIs
<1>7. i \in 0..(n - 1)
  BY <1>2, <1>4
<1>8. InUse(t, i) => t[i].key = k
  BY <1>2, <1>4, <1>7
<1>9. ASSUME ~InUse(t, i), NEW j \in 0..(n - 1), InUse(t, j), t[j].key = k
      PROVE  FALSE
  <2>1. j \in slots /\ i # j
    BY <1>2, <1>9
  <2>2. Dist(n, h, i) < Dist(n, h, j)
    BY <1>4, <1>6, <1>7, <2>1
  <2>3. Past(n, t[j].key, i, j)
    BY <1>9, <2>2 DEF Past, h
  <2>. QED BY <1>7, <1>9, <2>3 DEF TableOK, InReach
<1>10. ASSUME NEW j \in 0..(n - 1), Past(n, k, j, i)
       PROVE  InUse(t, j)
  <2>1. Dist(n, h, j) < Dist(n, h, i)
    BY <1>10 DEF Past, h
  <2>2. j \notin slots
    BY <1>4, <1>6, <1>7, <2>1
  <2>. QED BY <1>2, <2>2
<1>. QED BY <1>7, <1>8, <1>9, <1>10 DEF i

(* The slot behind p.                                                         *)
Behind(n, p) == IF p + 1 < n THEN p + 1 ELSE p + 1 - n

(* InRange asks whether a probe that starts at x comes by the hole.           *)
LEMMA InRangeIs ==
  ASSUME NEW n \in Nat \ {0}, NEW x \in 0..(n - 1), NEW hole \in 0..(n - 1),
         NEW next \in 0..(n - 1), hole # next
  PROVE  InRange(x, hole + 1, next) <=> ~(Dist(n, x, hole) < Dist(n, x, next))
BY DEF InRange, Dist

(* A probe that comes by the hole and ends beyond the walk comes by the slot  *)
(* where the walk is.                                                         *)
LEMMA PastTheWalk ==
  ASSUME NEW n \in Nat \ {0}, NEW x \in 0..(n - 1), NEW hole \in 0..(n - 1),
         NEW p \in 0..(n - 1), NEW i \in 0..(n - 1),
         Behind(n, p) # hole, Behind(n, p) # i,
         Dist(n, hole, p) < Dist(n, hole, i), Dist(n, x, hole) < Dist(n, x, i)
  PROVE  Dist(n, x, Behind(n, p)) < Dist(n, x, i)
BY DEF Behind, Dist

(* What the walk has come by.                                                 *)
LEMMA WalkGrows ==
  ASSUME NEW n \in Nat \ {0}, NEW hole \in 0..(n - 1), NEW p \in 0..(n - 1)
  PROVE  /\ Behind(n, p) \in 0..(n - 1)
         /\ \A i \in 0..(n - 1) :
              Behind(n, p) # hole /\ Dist(n, hole, i) <= Dist(n, hole, Behind(n, p))
                => Dist(n, hole, i) <= Dist(n, hole, p) \/ i = Behind(n, p)
         /\ Behind(n, p) = hole =>
              \A i \in 0..(n - 1) : Dist(n, hole, i) <= Dist(n, hole, p)
BY DEF Behind, Dist

(* A table on the way from t, with a hole, where the walk has come to p: only *)
(* probes for entries beyond p may come by the hole.                          *)
Walking(n, t, s, p) ==
  /\ s = [t |-> s.t, hole |-> s.hole, done |-> FALSE]
  /\ s.t \in [0..(n - 1) -> Entry] /\ s.hole \in 0..(n - 1) /\ ~InUse(s.t, s.hole)
  /\ KeysApart(n, s.t) /\ Content(n, s.t) = Content(n, t)
  /\ InReach(n, s.t, {s.hole})
  /\ \A i \in 0..(n - 1) :
       InUse(s.t, i) /\ Dist(n, s.hole, i) <= Dist(n, s.hole, p)
         => ~Past(n, s.t[i].key, s.hole, i)
Closed(n, t, s) ==
  /\ s = [t |-> s.t, hole |-> s.hole, done |-> TRUE]
  /\ TableOK(n, s.t) /\ Content(n, s.t) = Content(n, t)

(* The home of an entry.                                                      *)
LEMMA HomeIs ==
  ASSUME NEW n \in Nat \ {0}, NEW t \in [0..(n - 1) -> Entry], NEW k \in Nat
  PROVE  /\ k % n \in 0..(n - 1)
         /\ Slot(t, k) = k % n
<1>1. 0 \in 0..n
  OBVIOUS
<1>2. Cardinality(DOMAIN t) = n
  BY FS_Interval
<1>. QED BY <1>1, <1>2, RingStep DEF Slot

(* The walk ends at a slot that is free.                                      *)
LEMMA WalkEnds ==
  ASSUME NEW n \in Nat \ {0}, NEW t, NEW s, NEW p \in 0..(n - 1), Walking(n, t, s, p),
         ~InUse(s.t, Behind(n, p))
  PROVE  Closed(n, t, MoveBack(s, Behind(n, p)))
<1>. DEFINE next == Behind(n, p)
            h == s.hole
<1>1. MoveBack(s, next) = [t |-> s.t, hole |-> h, done |-> TRUE]
  BY DEF Walking, MoveBack
<1>2. s.t \in [0..(n - 1) -> Entry] /\ h \in 0..(n - 1) /\ next \in 0..(n - 1)
  BY WalkGrows DEF Walking
<1>. HIDE DEF next, h
<1>3. ASSUME NEW i \in 0..(n - 1), InUse(s.t, i), NEW j \in 0..(n - 1),
             Past(n, s.t[i].key, j, i)
      PROVE  InUse(s.t, j)
  <2>. DEFINE x == s.t[i].key % n
  <2>1. s.t[i].key \in Nat
    BY <1>2 DEF Entry
  <2>2. x \in 0..(n - 1)
    BY <1>2, <2>1, HomeIs
  <2>3. InUse(s.t, j) \/ j = h
    BY <1>3 DEF Walking, InReach, h
  <2>4. ASSUME j = h PROVE FALSE
    <3>1. Dist(n, x, h) < Dist(n, x, i)
      BY <1>3, <2>4 DEF Past
    <3>2. ~(Dist(n, h, i) <= Dist(n, h, p))
      BY <1>3, <2>4 DEF Walking, h
    <3>3. next # h
      <4>1. next = h => Dist(n, h, i) <= Dist(n, h, p)
        BY <1>2, WalkGrows DEF next
      <4>. QED BY <3>2, <4>1
    <3>4. next # i
      BY <1>3 DEF next
    <3>5. Dist(n, h, p) < Dist(n, h, i)
      BY <1>2, <3>2, DistIs
    <3>. HIDE DEF x
    <3>6. Dist(n, x, next) < Dist(n, x, i)
      BY <1>2, <2>2, <3>1, <3>3, <3>4, <3>5, PastTheWalk DEF next
    <3>7. Past(n, s.t[i].key, next, i)
      BY <3>6 DEF Past, x
    <3>8. InUse(s.t, next) \/ next = h
      BY <1>2, <1>3, <3>7 DEF Walking, InReach, h
    <3>. QED BY <3>3, <3>8 DEF next
  <2>. QED BY <2>3, <2>4
<1>4. InReach(n, s.t, {})
  BY <1>3 DEF InReach
<1>5. TableOK(n, s.t) /\ Content(n, s.t) = Content(n, t)
  BY <1>2, <1>4 DEF TableOK, Walking
<1>. QED BY <1>1, <1>5 DEF Closed, next

(* An entry whose probe does not come by the hole stays.                      *)
LEMMA EntryStays ==
  ASSUME NEW n \in Nat \ {0}, NEW t, NEW s, NEW p \in 0..(n - 1), Walking(n, t, s, p),
         InUse(s.t, Behind(n, p)),
         ~Past(n, s.t[Behind(n, p)].key, s.hole, Behind(n, p))
  PROVE  MoveBack(s, Behind(n, p)) = s /\ Walking(n, t, s, Behind(n, p))
<1>. DEFINE next == Behind(n, p)
            h == s.hole
            k == s.t[next].key
<1>1. /\ s.t \in [0..(n - 1) -> Entry] /\ h \in 0..(n - 1) /\ next \in 0..(n - 1)
      /\ ~s.done /\ next # h
  BY WalkGrows DEF Walking
<1>2. k \in Nat
  BY <1>1 DEF Entry
<1>. HIDE DEF next, h, k
<1>3. k % n \in 0..(n - 1) /\ Slot(s.t, k) = k % n
  BY <1>1, <1>2, HomeIs
<1>4. ~(Dist(n, k % n, h) < Dist(n, k % n, next))
  BY DEF Past, k, h, next
<1>5. InRange(Slot(s.t, k), h + 1, next)
  <2>. DEFINE x == k % n
  <2>1. x \in 0..(n - 1) /\ ~(Dist(n, x, h) < Dist(n, x, next))
    BY <1>3, <1>4
  <2>. HIDE DEF x
  <2>2. InRange(x, h + 1, next)
    BY <1>1, <2>1, InRangeIs
  <2>. QED BY <1>3, <2>2 DEF x
<1>6. MoveBack(s, next) = s
  BY <1>1, <1>5 DEF MoveBack, next, h, k
<1>7. ASSUME NEW i \in 0..(n - 1), InUse(s.t, i), Dist(n, h, i) <= Dist(n, h, next)
      PROVE  ~Past(n, s.t[i].key, h, i)
  <2>1. Dist(n, h, i) <= Dist(n, h, p) \/ i = next
    BY <1>1, <1>7, WalkGrows DEF next
  <2>. QED BY <1>7, <2>1 DEF Walking, h, next
<1>. QED BY <1>6, <1>7 DEF Walking, next, h

(* An entry whose probe comes by the hole is moved there and leaves a hole.   *)
LEMMA EntryMoves ==
  ASSUME NEW n \in Nat \ {0}, NEW t, NEW s, NEW p \in 0..(n - 1), Walking(n, t, s, p),
         InUse(s.t, Behind(n, p)),
         Past(n, s.t[Behind(n, p)].key, s.hole, Behind(n, p))
  PROVE  LET next == Behind(n, p)
             u == MoveBack(s, next)
         IN /\ Walking(n, t, u, next) /\ next # s.hole
            /\ u.hole = next /\ u.t[s.hole] = s.t[next]
            /\ \A i \in 0..(n - 1) : i # s.hole /\ i # next => u.t[i] = s.t[i]
<1>. DEFINE next == Behind(n, p)
            h == s.hole
            k == s.t[next].key
            v == [s.t EXCEPT ![h] = s.t[next], ![next] = Free]
            u == [t |-> v, hole |-> next, done |-> FALSE]
<1>1. /\ s.t \in [0..(n - 1) -> Entry] /\ h \in 0..(n - 1) /\ next \in 0..(n - 1)
      /\ ~s.done /\ next # h /\ InUse(s.t, next) /\ ~InUse(s.t, h)
      /\ s = [t |-> s.t, hole |-> h, done |-> FALSE]
      /\ KeysApart(n, s.t) /\ Content(n, s.t) = Content(n, t)
      /\ InReach(n, s.t, {h})
  BY WalkGrows DEF Walking
<1>2. k \in Nat
  BY <1>1 DEF Entry
<1>. HIDE DEF next, h, k
<1>3. k % n \in 0..(n - 1) /\ Slot(s.t, k) = k % n
  BY <1>1, <1>2, HomeIs
<1>4. Dist(n, k % n, h) < Dist(n, k % n, next)
  BY DEF Past, k, h, next
<1>5. ~InRange(Slot(s.t, k), h + 1, next)
  <2>. DEFINE x == k % n
  <2>1. x \in 0..(n - 1) /\ Dist(n, x, h) < Dist(n, x, next)
    BY <1>3, <1>4
  <2>. HIDE DEF x
  <2>2. ~InRange(x, h + 1, next)
    BY <1>1, <2>1, InRangeIs
  <2>. QED BY <1>3, <2>2 DEF x
<1>6. MoveBack(s, next) = u
  <2>1. ~s.done /\ InUse(s.t, next)
    BY <1>1
  <2>2. ~InRange(Slot(s.t, s.t[next].key), s.hole + 1, next)
    BY <1>5 DEF h, k
  <2>. QED BY <2>1, <2>2 DEF MoveBack, h
<1>7. Free \in Entry
  BY DEF Free, Entry
<1>8. /\ v \in [0..(n - 1) -> Entry] /\ v[h] = s.t[next] /\ v[next] = Free
      /\ \A i \in 0..(n - 1) : i # h /\ i # next => v[i] = s.t[i]
  BY <1>1, <1>7
<1>. HIDE DEF v
<1>9. /\ InUse(v, h) /\ ~InUse(v, next)
      /\ \A i \in 0..(n - 1) : i # h /\ i # next => (InUse(v, i) <=> InUse(s.t, i))
  BY <1>1, <1>8 DEF InUse
<1>10. KeysApart(n, v)
  BY <1>1, <1>8, <1>9 DEF KeysApart
<1>11. Content(n, v) = Content(n, s.t)
  <2>1. \A i \in 0..(n - 1) : v[i] # Free => v[i] \in Content(n, s.t)
    BY <1>1, <1>8 DEF Content
  <2>2. \A i \in 0..(n - 1) : s.t[i] # Free => s.t[i] \in Content(n, v)
    <3>1. s.t[h] = Free
      BY <1>1 DEF InUse
    <3>. QED BY <1>1, <1>8, <3>1 DEF Content
  <2>. QED BY <2>1, <2>2 DEF Content
<1>12. InReach(n, v, {next})
  <2>1. SUFFICES ASSUME NEW i \in 0..(n - 1), InUse(v, i), NEW j \in 0..(n - 1),
                        Past(n, v[i].key, j, i), j # next
                 PROVE  InUse(v, j)
    BY DEF InReach
  <2>2. CASE i = h
    <3>1. v[i].key = k /\ j # h
      <4>1. v[i].key = k
        BY <1>8, <2>2 DEF k
      <4>2. ~(Dist(n, k % n, h) < Dist(n, k % n, h))
        <5>1. Dist(n, k % n, h) \in Int
          BY <1>1, <1>3, DistIs
        <5>. QED BY <5>1
      <4>. QED BY <2>1, <2>2, <4>1, <4>2 DEF Past
    <3>2. Dist(n, k % n, j) < Dist(n, k % n, next)
      <4>1. Dist(n, k % n, j) < Dist(n, k % n, h)
        BY <2>1, <2>2, <3>1 DEF Past
      <4>2. Dist(n, k % n, j) \in Int /\ Dist(n, k % n, h) \in Int /\ Dist(n, k % n, next) \in Int
        BY <1>1, <1>3, DistIs
      <4>. QED BY <1>4, <4>1, <4>2
    <3>3. Past(n, s.t[next].key, j, next)
      BY <3>2 DEF Past, k
    <3>4. InUse(s.t, j)
      BY <1>1, <3>1, <3>3 DEF InReach
    <3>. QED BY <1>9, <2>1, <3>1, <3>4
  <2>3. CASE i # h
    <3>1. i # next /\ v[i] = s.t[i] /\ InUse(s.t, i)
      BY <1>8, <1>9, <2>1, <2>3
    <3>2. InUse(s.t, j) \/ j = h
      BY <1>1, <2>1, <3>1 DEF InReach
    <3>. QED BY <1>9, <2>1, <3>2
  <2>. QED BY <2>2, <2>3
<1>13. ASSUME NEW i \in 0..(n - 1), InUse(v, i), Dist(n, next, i) <= Dist(n, next, next)
       PROVE  FALSE
  <2>1. Dist(n, next, next) = 0 /\ Dist(n, next, i) \in 0..(n - 1)
    BY <1>1, DistIs
  <2>2. i = next
    BY <1>1, <1>13, <2>1, DistIs
  <2>. QED BY <1>9, <1>13, <2>2
<1>14. Walking(n, t, u, next)
  BY <1>1, <1>8, <1>9, <1>10, <1>11, <1>12, <1>13 DEF Walking
<1>15. u.hole = next /\ u.t = v
  OBVIOUS
<1>. HIDE DEF u
<1>. QED BY <1>1, <1>6, <1>8, <1>14, <1>15 DEF next, h

(* The recursive function of CloseHole obeys its definition.                  *)
LEMMA WalkUnfolds ==
  ASSUME NEW n \in Nat \ {0}, NEW t \in [0..(n - 1) -> Entry], NEW hole
  PROVE  \E walk :
           /\ walk[0] = [t |-> t, hole |-> hole, done |-> FALSE]
           /\ \A d \in 1..(2 * n) : walk[d] = MoveBack(walk[d - 1], Slot(t, hole + d))
           /\ CloseHole(t, hole) = walk[2 * n].t
<1>. DEFINE Base == [t |-> t, hole |-> hole, done |-> FALSE]
            Def(g, m) == [d \in 0..m |-> IF d = 0 THEN Base
                                         ELSE MoveBack(g[d - 1], Slot(t, hole + d))]
            P == {m \in Nat : \E g : g = Def(g, m)}
<1>1. 0 \in P
  <2>. DEFINE g == [d \in 0..0 |-> Base]
  <2>1. g = Def(g, 0)
    OBVIOUS
  <2>. QED BY <2>1
<1>2. ASSUME NEW m \in Nat, m \in P PROVE m + 1 \in P
  <2>1. PICK g : g = Def(g, m)
    BY <1>2
  <2>. DEFINE h == Def(g, m + 1)
  <2>2. \A d \in 0..m : h[d] = g[d]
    <3>1. ASSUME NEW d \in 0..m PROVE h[d] = g[d]
      <4>1. d \in 0..(m + 1)
        OBVIOUS
      <4>2. h[d] = IF d = 0 THEN Base ELSE MoveBack(g[d - 1], Slot(t, hole + d))
        BY <4>1
      <4>3. g[d] = IF d = 0 THEN Base ELSE MoveBack(g[d - 1], Slot(t, hole + d))
        <5>. HIDE DEF Base
        <5>. QED BY <2>1
      <4>. QED BY <4>2, <4>3
    <3>. QED BY <3>1
  <2>3. \A d \in 0..(m + 1) : d # 0 => h[d - 1] = g[d - 1]
    <3>. HIDE DEF h
    <3>. QED BY <2>2
  <2>4. h = Def(h, m + 1)
    <3>1. h = [d \in 0..(m + 1) |-> IF d = 0 THEN Base
                                    ELSE MoveBack(g[d - 1], Slot(t, hole + d))]
      OBVIOUS
    <3>2. Def(h, m + 1) = [d \in 0..(m + 1) |-> IF d = 0 THEN Base
                                    ELSE MoveBack(h[d - 1], Slot(t, hole + d))]
      OBVIOUS
    <3>. HIDE DEF h, Def, Base
    <3>. QED BY <2>3, <3>1, <3>2
  <2>. HIDE DEF h, Def
  <2>. QED BY <2>4
<1>3. 2 * n \in P
  <2>1. 2 * n \in Nat
    OBVIOUS
  <2>. HIDE DEF P
  <2>. QED BY <1>1, <1>2, <2>1, Counting
<1>4. Cardinality(DOMAIN t) = n
  BY FS_Interval
<1>. DEFINE w == CHOOSE g : g = Def(g, 2 * n)
<1>5. w = Def(w, 2 * n)
  <2>1. \E g : g = Def(g, 2 * n)
    BY <1>3
  <2>. HIDE DEF Def
  <2>. QED BY <2>1
<1>6. CloseHole(t, hole) = w[2 * n].t
  BY <1>4 DEF CloseHole
<1>. HIDE DEF w
<1>7. w[0] = Base
  BY <1>5
<1>8. \A d \in 1..(2 * n) : w[d] = MoveBack(w[d - 1], Slot(t, hole + d))
  <2>1. \A d \in 1..(2 * n) : d \in 0..(2 * n) /\ d # 0
    OBVIOUS
  <2>. HIDE DEF Base
  <2>. QED BY <1>5, <2>1
<1>. QED BY <1>6, <1>7, <1>8

(* CloseHole ends within two rounds: at another free slot, or, in a full      *)
(* table of one or two slots, where it began.  Then every entry is in reach.  *)
LEMMA CloseHoleKeeps ==
  ASSUME NEW n \in Nat \ {0}, NEW t \in [0..(n - 1) -> Entry], NEW hole \in 0..(n - 1),
         ~InUse(t, hole), KeysApart(n, t), InReach(n, t, {hole}),
         (\E f \in 0..(n - 1) : f # hole /\ ~InUse(t, f)) \/ n <= 2
  PROVE  /\ TableOK(n, CloseHole(t, hole))
         /\ Content(n, CloseHole(t, hole)) = Content(n, t)
<1>1. PICK walk : /\ walk[0] = [t |-> t, hole |-> hole, done |-> FALSE]
                  /\ \A d \in 1..(2 * n) :
                       walk[d] = MoveBack(walk[d - 1], Slot(t, hole + d))
                  /\ CloseHole(t, hole) = walk[2 * n].t
  BY WalkUnfolds
<1>. DEFINE at(d) == (hole + d) % n
<1>2. \A d \in 0..(2 * n) : at(d) \in 0..(n - 1)
  <2>1. ASSUME NEW d \in 0..(2 * n) PROVE at(d) \in 0..(n - 1)
    <3>1. hole + d \in Nat /\ 0 \in 0..n
      OBVIOUS
    <3>. QED BY <3>1, RingStep
  <2>. QED BY <2>1
<1>3. \A d \in 1..(2 * n) : at(d) = Behind(n, at(d - 1))
  <2>1. ASSUME NEW d \in 1..(2 * n) PROVE at(d) = Behind(n, at(d - 1))
    <3>. DEFINE k == hole + (d - 1)
    <3>1. k \in Nat /\ 1 \in 0..n /\ k + 1 = hole + d
      OBVIOUS
    <3>. HIDE DEF k
    <3>2. (k + 1) % n = IF (k % n) + 1 < n THEN (k % n) + 1 ELSE (k % n) + 1 - n
      BY <3>1, RingStep
    <3>. QED BY <3>1, <3>2 DEF Behind, k
  <2>. QED BY <2>1
<1>4. \A d \in 0..(n - 1) : at(d) = IF hole + d < n THEN hole + d ELSE hole + d - n
  <2>1. ASSUME NEW d \in 0..(n - 1)
        PROVE  at(d) = IF hole + d < n THEN hole + d ELSE hole + d - n
    <3>1. d \in 0..n /\ 0 \in 0..n /\ 0 \in Nat /\ hole \in Nat
      OBVIOUS
    <3>2. hole % n = hole
      OBVIOUS
    <3>3. (hole + d) % n = IF (hole % n) + d < n THEN (hole % n) + d ELSE (hole % n) + d - n
      BY <3>1, RingStep
    <3>. QED BY <3>2, <3>3
  <2>. QED BY <2>1
<1>5. \A d \in 0..(2 * n) : Slot(t, hole + d) = at(d)
  <2>1. Cardinality(DOMAIN t) = n
    BY FS_Interval
  <2>. QED BY <2>1 DEF Slot
<1>6. at(0) = hole
  BY <1>4
<1>. HIDE DEF at
<1>7. Walking(n, t, walk[0], at(0))
  <2>1. \A i \in 0..(n - 1) : Dist(n, hole, i) <= Dist(n, hole, hole) => i = hole
    BY DEF Dist
  <2>2. walk[0].t = t /\ walk[0].hole = hole
    BY <1>1
  <2>. QED BY <1>1, <1>6, <2>1, <2>2 DEF Walking
<1>8. \A d \in 1..(2 * n) : walk[d] = MoveBack(walk[d - 1], Behind(n, at(d - 1)))
  BY <1>1, <1>3, <1>5
<1>9. ASSUME NEW d \in 1..(2 * n), Closed(n, t, walk[d - 1])
      PROVE  Closed(n, t, walk[d])
  <2>1. walk[d - 1].done
    BY <1>9 DEF Closed
  <2>2. walk[d] = walk[d - 1]
    BY <1>8, <2>1 DEF MoveBack
  <2>. QED BY <1>9, <2>2
<1>10. ASSUME NEW e \in 0..(2 * n), Closed(n, t, walk[e])
       PROVE  Closed(n, t, walk[2 * n])
  <2>. DEFINE P == {m \in Nat : e + m <= 2 * n => Closed(n, t, walk[e + m])}
  <2>1. 0 \in P
    BY <1>10
  <2>2. ASSUME NEW m \in Nat, m \in P PROVE m + 1 \in P
    <3>1. SUFFICES ASSUME e + (m + 1) <= 2 * n PROVE Closed(n, t, walk[e + (m + 1)])
      OBVIOUS
    <3>2. e + (m + 1) \in 1..(2 * n) /\ e + (m + 1) - 1 = e + m /\ e + m <= 2 * n
      BY <3>1
    <3>3. Closed(n, t, walk[e + m])
      BY <2>2, <3>2
    <3>. QED BY <1>9, <3>2, <3>3
  <2>3. 2 * n - e \in Nat /\ e + (2 * n - e) = 2 * n
    OBVIOUS
  <2>4. 2 * n - e \in P
    <3>. HIDE DEF P
    <3>. QED BY <2>1, <2>2, <2>3, Counting
  <2>. QED BY <2>3, <2>4
<1>11. \E e \in 0..(2 * n) : Closed(n, t, walk[e])
  <2>1. CASE \E f \in 0..(n - 1) : f # hole /\ ~InUse(t, f)
    <3>1. PICK f \in 0..(n - 1) : f # hole /\ ~InUse(t, f)
      BY <2>1
    <3>. DEFINE Short(d) == /\ Walking(n, t, walk[d], at(d)) /\ ~InUse(walk[d].t, f)
                            /\ f # walk[d].hole /\ d < Dist(n, hole, f)
                P == {d \in Nat : d <= 2 * n => Closed(n, t, walk[d]) \/ Short(d)}
    <3>2. Dist(n, hole, f) \in 0..(n - 1) /\ Dist(n, hole, f) > 0
      BY <3>1 DEF Dist
    <3>3. 0 \in P
      <4>1. walk[0].t = t /\ walk[0].hole = hole
        BY <1>1
      <4>2. Short(0)
        BY <1>7, <3>1, <3>2, <4>1
      <4>. QED BY <4>2
    <3>4. ASSUME NEW m \in Nat, m \in P PROVE m + 1 \in P
      <4>1. SUFFICES ASSUME m + 1 <= 2 * n
                     PROVE  Closed(n, t, walk[m + 1]) \/ Short(m + 1)
        OBVIOUS
      <4>2. m + 1 \in 1..(2 * n) /\ (m + 1) - 1 = m /\ m \in 0..(2 * n) /\ m <= 2 * n
        BY <4>1
      <4>3. walk[m + 1] = MoveBack(walk[m], Behind(n, at(m))) /\ at(m + 1) = Behind(n, at(m))
        BY <1>3, <1>8, <4>2
      <4>4. CASE Closed(n, t, walk[m])
        BY <1>9, <4>2, <4>4
      <4>5. CASE Short(m)
        <5>1. at(m) \in 0..(n - 1) /\ Walking(n, t, walk[m], at(m))
          BY <1>2, <4>2, <4>5
        <5>2. CASE ~InUse(walk[m].t, Behind(n, at(m)))
          BY <4>3, <5>1, <5>2, WalkEnds
        <5>3. CASE InUse(walk[m].t, Behind(n, at(m)))
          <6>1. Behind(n, at(m)) # f
            BY <4>5, <5>3
          <6>2. m + 1 < Dist(n, hole, f)
            <7>1. m < Dist(n, hole, f) /\ m + 1 \in 0..(n - 1)
              BY <3>2, <4>5
            <7>2. at(m + 1) = IF hole + (m + 1) < n THEN hole + (m + 1) ELSE hole + (m + 1) - n
              BY <1>4, <7>1
            <7>3. at(m + 1) # f
              BY <4>3, <6>1
            <7>. QED BY <7>1, <7>2, <7>3 DEF Dist
          <6>3. CASE ~Past(n, walk[m].t[Behind(n, at(m))].key, walk[m].hole, Behind(n, at(m)))
            <7>1. walk[m + 1] = walk[m] /\ Walking(n, t, walk[m + 1], at(m + 1))
              BY <4>3, <5>1, <5>3, <6>3, EntryStays
            <7>. QED BY <4>5, <6>2, <7>1
          <6>4. CASE Past(n, walk[m].t[Behind(n, at(m))].key, walk[m].hole, Behind(n, at(m)))
            <7>1. /\ Walking(n, t, walk[m + 1], at(m + 1))
                  /\ walk[m + 1].hole = Behind(n, at(m))
                  /\ \A i \in 0..(n - 1) :
                       i # walk[m].hole /\ i # Behind(n, at(m)) => walk[m + 1].t[i] = walk[m].t[i]
              BY <4>3, <5>1, <5>3, <6>4, EntryMoves
            <7>2. ~InUse(walk[m + 1].t, f)
              BY <4>5, <6>1, <7>1 DEF InUse
            <7>. QED BY <6>1, <6>2, <7>1, <7>2
          <6>. QED BY <6>3, <6>4
        <5>. QED BY <5>2, <5>3
      <4>. QED BY <3>4, <4>2, <4>4, <4>5
    <3>5. 2 * n \in P
      <4>1. 2 * n \in Nat
        OBVIOUS
      <4>. HIDE DEF P
      <4>. QED BY <3>3, <3>4, <4>1, Counting
    <3>6. ~Short(2 * n)
      BY <3>2
    <3>. QED BY <3>5, <3>6
  <2>2. CASE n = 1
    <3>1. Behind(n, at(0)) = hole /\ walk[0].hole = hole /\ walk[0].t = t
      BY <1>1, <1>6, <2>2 DEF Behind
    <3>2. Closed(n, t, walk[1])
      BY <1>6, <1>7, <1>8, <2>2, <3>1, WalkEnds
    <3>. QED BY <2>2, <3>2
  <2>3. CASE n = 2
    <3>. DEFINE q == Behind(n, hole)
    <3>1. q \in 0..(n - 1) /\ q # hole /\ Behind(n, q) = hole
      BY <2>3 DEF Behind
    <3>2. at(1) = q /\ at(2) = hole /\ at(3) = q
      <4>1. at(1) = Behind(n, at(0)) /\ at(2) = Behind(n, at(1)) /\ at(3) = Behind(n, at(2))
        BY <1>3, <2>3
      <4>. QED BY <1>6, <3>1, <4>1
    <3>3. /\ walk[1] = MoveBack(walk[0], q) /\ walk[2] = MoveBack(walk[1], hole)
          /\ walk[3] = MoveBack(walk[2], q)
      <4>1. /\ walk[1] = MoveBack(walk[0], Behind(n, at(0)))
            /\ walk[2] = MoveBack(walk[1], Behind(n, at(1)))
            /\ walk[3] = MoveBack(walk[2], Behind(n, at(2)))
        BY <1>8, <2>3
      <4>. QED BY <1>6, <3>1, <3>2, <4>1
    <3>4. Walking(n, t, walk[0], hole) /\ walk[0].t = t /\ walk[0].hole = hole
      BY <1>1, <1>6, <1>7
    <3>5. CASE ~InUse(t, q)
      <4>1. Closed(n, t, walk[1])
        BY <3>3, <3>4, <3>5, WalkEnds
      <4>. QED BY <2>3, <4>1
    <3>6. CASE InUse(t, q) /\ ~Past(n, t[q].key, hole, q)
      <4>1. walk[1] = walk[0] /\ Walking(n, t, walk[1], q)
        BY <3>3, <3>4, <3>6, EntryStays
      <4>2. ~InUse(walk[1].t, Behind(n, q))
        BY <3>1, <3>4, <4>1
      <4>3. Closed(n, t, walk[2])
        BY <3>1, <3>3, <4>1, <4>2, WalkEnds
      <4>. QED BY <2>3, <4>3
    <3>7. CASE InUse(t, q) /\ Past(n, t[q].key, hole, q)
      <4>1. /\ Walking(n, t, walk[1], q) /\ walk[1].hole = q
            /\ walk[1].t[hole] = t[q]
        <5>1. /\ InUse(walk[0].t, Behind(n, hole))
              /\ Past(n, walk[0].t[Behind(n, hole)].key, walk[0].hole, Behind(n, hole))
          BY <3>4, <3>7
        <5>. DEFINE s == walk[0]
                    u == MoveBack(s, Behind(n, hole))
        <5>2. hole \in 0..(n - 1) /\ Walking(n, t, s, hole)
          BY <3>4
        <5>. HIDE DEF s
        <5>3. /\ Walking(n, t, u, Behind(n, hole)) /\ u.hole = Behind(n, hole)
              /\ u.t[s.hole] = s.t[Behind(n, hole)]
          <6>. HIDE DEF q
          <6>. QED BY <5>1, <5>2, EntryMoves DEF s
        <5>. QED BY <3>3, <3>4, <5>3 DEF s
      <4>. HIDE DEF q
      <4>2. InUse(walk[1].t, hole) /\ walk[1].t[hole].key = t[q].key
        BY <3>7, <4>1 DEF InUse
      <4>3. ~Past(n, t[q].key, q, hole)
        <5>1. t[q].key \in Nat
          BY <3>1 DEF Entry
        <5>2. t[q].key % n \in 0..(n - 1)
          BY <5>1, HomeIs
        <5>3. /\ Dist(n, t[q].key % n, q) \in 0..(n - 1)
              /\ Dist(n, t[q].key % n, hole) \in 0..(n - 1)
          BY <3>1, <5>2, DistIs
        <5>4. Dist(n, t[q].key % n, hole) < Dist(n, t[q].key % n, q)
          BY <3>7 DEF Past
        <5>5. ~(Dist(n, t[q].key % n, q) < Dist(n, t[q].key % n, hole))
          BY <5>3, <5>4
        <5>. QED BY <5>5 DEF Past
      <4>4. walk[2] = walk[1] /\ Walking(n, t, walk[2], hole)
        BY <3>1, <3>3, <4>1, <4>2, <4>3, EntryStays
      <4>5. ~InUse(walk[2].t, q)
        BY <4>1, <4>4 DEF Walking
      <4>6. Closed(n, t, walk[3])
        BY <3>3, <4>4, <4>5, WalkEnds DEF q
      <4>. QED BY <2>3, <4>6
    <3>. QED BY <3>5, <3>6, <3>7
  <2>4. n <= 2 => n = 1 \/ n = 2
    OBVIOUS
  <2>. QED BY <2>1, <2>2, <2>3, <2>4
<1>12. Closed(n, t, walk[2 * n])
  BY <1>10, <1>11
<1>. QED BY <1>1, <1>12 DEF Closed

(* The entries C of a table and the queue of keys o tell of the same keys.    *)
Filled(C, o) ==
  /\ o \in Seq(Key) /\ \A i, j \in 1..Len(o) : o[i] = o[j] => i = j
  /\ \A e \in C : e \in Entry /\ e.key \in Key /\ e.val \in Value
  /\ \A e, f \in C : e.key = f.key => e = f
  /\ \A e \in C : \E j \in 1..Len(o) : o[j] = e.key
  /\ \A j \in 1..Len(o) : \E e \in C : e.key = o[j]

(* A table of more slots than keys has a free slot.                           *)
LEMMA HasFree ==
  ASSUME NEW n \in Nat \ {0}, NEW t, TableOK(n, t), NEW o \in Seq(Key), Len(o) < n,
         \A e \in Content(n, t) : \E j \in 1..Len(o) : o[j] = e.key
  PROVE  \E f \in 0..(n - 1) : ~InUse(t, f)
<1>1. SUFFICES ASSUME \A i \in 0..(n - 1) : InUse(t, i) PROVE FALSE
  OBVIOUS
<1>2. \A i \in 0..(n - 1) : \E j \in 1..Len(o) : o[j] = t[i].key
  BY <1>1 DEF Content, InUse
<1>. DEFINE at == [i \in 0..(n - 1) |-> CHOOSE j \in 1..Len(o) : o[j] = t[i].key]
<1>3. at \in [0..(n - 1) -> 1..Len(o)] /\ \A i \in 0..(n - 1) : o[at[i]] = t[i].key
  BY <1>2
<1>. DEFINE S == 0..(n - 1)
            T == 1..Len(o)
<1>4. IsFiniteSet(S) /\ IsFiniteSet(T) /\ Cardinality(T) < Cardinality(S)
  <2>1. Len(o) \in Nat
    BY LenProperties
  <2>2. IsFiniteSet(S) /\ Cardinality(S) = n
    <3>1. 0 \in Int /\ n - 1 \in Int /\ ~(0 > n - 1) /\ n - 1 - 0 + 1 = n
      OBVIOUS
    <3>. QED BY <3>1, FS_Interval
  <2>3. IsFiniteSet(T) /\ Cardinality(T) = Len(o)
    <3>1. /\ 1 \in Int /\ Len(o) \in Int
          /\ (IF 1 > Len(o) THEN 0 ELSE Len(o) - 1 + 1) = Len(o)
      BY <2>1
    <3>. QED BY <3>1, FS_Interval
  <2>. QED BY <2>1, <2>2, <2>3
<1>. HIDE DEF at
<1>5. PICK i, j \in S : i # j /\ at[i] = at[j]
  <2>1. at \in [S -> T]
    BY <1>3
  <2>. HIDE DEF S, T
  <2>. QED BY <1>4, <2>1, FS_PigeonHole
<1>. QED BY <1>1, <1>3, <1>5 DEF TableOK, KeysApart

(* The entries of a table are those of its slots.                             *)
LEMMA ContentIs ==
  ASSUME NEW n \in Nat \ {0}, NEW t, TableOK(n, t)
  PROVE  /\ \A i \in 0..(n - 1) : InUse(t, i) => t[i] \in Content(n, t)
         /\ \A e \in Content(n, t) : \E i \in 0..(n - 1) : t[i] = e /\ InUse(t, i)
         /\ \A e \in Content(n, t) : e \in Entry
         /\ \A e, f \in Content(n, t) : e.key = f.key => e = f
<1>1. t \in [0..(n - 1) -> Entry]
  BY DEF TableOK
<1>2. \A i \in 0..(n - 1) : InUse(t, i) => t[i] \in Content(n, t)
  BY DEF Content, InUse
<1>3. \A e \in Content(n, t) : \E i \in 0..(n - 1) : t[i] = e /\ InUse(t, i)
  BY DEF Content, InUse
<1>. QED BY <1>1, <1>2, <1>3 DEF TableOK, KeysApart

(* EvictItem takes the entry of the oldest key out of table and queue, and    *)
(* keeps it apart if it is pinned.                                            *)
LEMMA EvictItemIs ==
  ASSUME NEW n \in Nat \ {0}, NEW s, TableOK(n, s.t),
         Filled(Content(n, s.t), s.order), Len(s.order) > 0,
         Len(s.order) < n \/ n <= 2
  PROVE  \E e \in Content(n, s.t) :
           /\ e.key = Head(s.order)
           /\ TableOK(n, EvictItem(s).t)
           /\ Content(n, EvictItem(s).t) = Content(n, s.t) \ {e}
           /\ EvictItem(s).order = Tail(s.order)
           /\ EvictItem(s).evicted = IF e.pins > 0 THEN Append(s.evicted, e) ELSE s.evicted
<1>. DEFINE k == Head(s.order)
            t == s.t
            i == Probe(t, k, SlotsOf(t, k))
            v == [t EXCEPT ![i] = Free]
<1>1. t \in [0..(n - 1) -> Entry] /\ InReach(n, t, {}) /\ KeysApart(n, t)
  BY DEF TableOK
<1>2. /\ s.order \in Seq(Key) /\ Len(s.order) \in Nat /\ k = s.order[1] /\ 1 \in 1..Len(s.order)
      /\ k \in Nat
  <2>1. s.order \in Seq(Key) /\ Len(s.order) \in Nat
    BY LenProperties DEF Filled
  <2>2. k = s.order[1] /\ 1 \in 1..Len(s.order)
    BY <2>1, HeadTailProperties
  <2>3. s.order[1] \in Key
    BY <2>1, <2>2, ElementOfSeq
  <2>. QED BY <2>1, <2>2, <2>3, CacheAssumption
<1>. HIDE DEF k
<1>3. PICK e0 \in Content(n, t) : e0.key = k
  BY <1>2 DEF Filled
<1>4. SlotsOf(t, k) \in SUBSET (0..(n - 1)) /\ SlotsOf(t, k) # {}
  <2>1. \E j \in 0..(n - 1) : t[j] = e0 /\ InUse(t, j)
    BY ContentIs
  <2>. QED BY <1>1, <1>3, <2>1 DEF SlotsOf
<1>5. i \in SlotsOf(t, k)
  <2>. HIDE DEF t
  <2>. QED BY <1>1, <1>2, <1>4, ProbeIs
<1>6. i \in 0..(n - 1) /\ InUse(t, i) /\ t[i].key = k
  BY <1>1, <1>5 DEF SlotsOf
<1>7. Free \in Entry
  BY DEF Free, Entry
<1>. HIDE DEF i
<1>8. /\ v \in [0..(n - 1) -> Entry] /\ v[i] = Free
      /\ \A j \in 0..(n - 1) : j # i => v[j] = t[j]
  BY <1>1, <1>6, <1>7
<1>9. EvictItem(s) = [t |-> CloseHole(v, i), order |-> Tail(s.order),
                      evicted |-> IF t[i].pins > 0 THEN Append(s.evicted, t[i])
                                  ELSE s.evicted]
  BY DEF EvictItem, KeepPinned, i, k
<1>. HIDE DEF v, t
<1>10. ~InUse(v, i) /\ \A j \in 0..(n - 1) : j # i => (InUse(v, j) <=> InUse(t, j))
  BY <1>8 DEF InUse
<1>11. KeysApart(n, v)
  BY <1>1, <1>8, <1>10 DEF KeysApart
<1>12. InReach(n, v, {i})
  BY <1>1, <1>8, <1>10 DEF InReach
<1>13. (\E f \in 0..(n - 1) : f # i /\ ~InUse(v, f)) \/ n <= 2
  <2>1. CASE Len(s.order) < n
    <3>1. PICK f \in 0..(n - 1) : ~InUse(t, f)
      BY <1>2, <2>1, HasFree DEF Filled, t
    <3>. QED BY <1>6, <1>10, <3>1
  <2>. QED BY <2>1
<1>14. TableOK(n, CloseHole(v, i)) /\ Content(n, CloseHole(v, i)) = Content(n, v)
  BY <1>6, <1>8, <1>10, <1>11, <1>12, <1>13, CloseHoleKeeps
<1>15. Content(n, v) = Content(n, t) \ {t[i]}
  <2>1. ASSUME NEW j \in 0..(n - 1), v[j] # Free
        PROVE  v[j] \in Content(n, t) /\ v[j] # t[i]
    <3>1. j # i /\ v[j] = t[j] /\ InUse(t, j)
      BY <1>8, <1>10, <2>1 DEF InUse
    <3>2. t[j].key # t[i].key
      BY <1>1, <1>6, <3>1 DEF KeysApart
    <3>. QED BY <3>1, <3>2 DEF Content, InUse
  <2>2. ASSUME NEW j \in 0..(n - 1), t[j] # Free, t[j] # t[i]
        PROVE  t[j] \in Content(n, v)
    <3>1. j # i /\ v[j] = t[j]
      BY <1>8, <2>2
    <3>. QED BY <2>2, <3>1 DEF Content
  <2>. QED BY <2>1, <2>2 DEF Content
<1>16. t[i] \in Content(n, t)
  BY <1>6 DEF Content, InUse
<1>. QED BY <1>6, <1>9, <1>14, <1>15, <1>16 DEF k, t

(* Who holds a value, and what the cache owes to the holders: entries and     *)
(* evicted entries have values of their own and a pin for each holder, and    *)
(* what is held is in one of them.                                            *)
HoldersIn(jb, v) == {c \in Client : jb[c].op = "hold" /\ jb[c].val = v}
Books(C, ev, jb) ==
  /\ ev \in Seq(Entry)
  /\ \A e, f \in C : e.val = f.val => e = f
  /\ \A i \in 1..Len(ev) : \A e \in C : ev[i].val # e.val
  /\ \A i, j \in 1..Len(ev) : ev[i].val = ev[j].val => i = j
  /\ \A e \in C : e.pins = Cardinality(HoldersIn(jb, e.val))
  /\ \A i \in 1..Len(ev) : /\ ev[i].val \in Value /\ ev[i].pins > 0
                           /\ ev[i].pins = Cardinality(HoldersIn(jb, ev[i].val))
  /\ \A c \in Client : jb[c].op = "hold" =>
       \/ \E e \in C : e.key = jb[c].key /\ e.val = jb[c].val
       \/ \E i \in 1..Len(ev) : ev[i].key = jb[c].key /\ ev[i].val = jb[c].val

(* Without its oldest entry, table and queue still tell of the same keys.     *)
LEMMA EvictFilled ==
  ASSUME NEW C, NEW o, Filled(C, o), Len(o) > 0, NEW e \in C, e.key = Head(o)
  PROVE  /\ Filled(C \ {e}, Tail(o)) /\ Len(Tail(o)) = Len(o) - 1
         /\ \A j \in 1..(Len(o) - 1) : Tail(o)[j] = o[j + 1]
<1>1. o \in Seq(Key) /\ Len(o) \in Nat
  BY LenProperties DEF Filled
<1>2. /\ Tail(o) \in Seq(Key) /\ Len(Tail(o)) = Len(o) - 1 /\ Head(o) = o[1]
      /\ \A j \in 1..(Len(o) - 1) : Tail(o)[j] = o[j + 1]
  BY <1>1, HeadTailProperties
<1>3. \A i, j \in 1..Len(Tail(o)) : Tail(o)[i] = Tail(o)[j] => i = j
  BY <1>1, <1>2 DEF Filled
<1>4. ASSUME NEW f \in C \ {e}
      PROVE  \E j \in 1..Len(Tail(o)) : Tail(o)[j] = f.key
  <2>1. PICK j \in 1..Len(o) : o[j] = f.key
    BY DEF Filled
  <2>2. j # 1
    BY <1>2, <2>1 DEF Filled
  <2>3. j - 1 \in 1..(Len(o) - 1) /\ (j - 1) + 1 = j
    BY <1>1, <2>2
  <2>. QED BY <1>2, <2>1, <2>3
<1>5. ASSUME NEW j \in 1..Len(Tail(o))
      PROVE  \E f \in C \ {e} : f.key = Tail(o)[j]
  <2>1. j + 1 \in 1..Len(o) /\ j + 1 # 1 /\ 1 \in 1..Len(o) /\ Tail(o)[j] = o[j + 1]
    BY <1>1, <1>2
  <2>2. PICK f \in C : f.key = o[j + 1]
    BY <2>1 DEF Filled
  <2>3. f # e
    BY <1>2, <2>1, <2>2 DEF Filled
  <2>. QED BY <2>1, <2>2, <2>3
<1>6. Filled(C \ {e}, Tail(o))
  <2>1. /\ \A f \in C \ {e} : f \in Entry /\ f.key \in Key /\ f.val \in Value
        /\ \A f, g \in C \ {e} : f.key = g.key => f = g
    BY DEF Filled
  <2>. QED BY <1>2, <1>3, <1>4, <1>5, <2>1 DEF Filled
<1>. QED BY <1>2, <1>6

(* Somebody who holds a value has a pin of it.                                *)
LEMMA HolderHasPin ==
  ASSUME NEW jb, NEW v
  PROVE  /\ IsFiniteSet(HoldersIn(jb, v)) /\ Cardinality(HoldersIn(jb, v)) \in Nat
         /\ Cardinality(HoldersIn(jb, v)) = 0 <=> HoldersIn(jb, v) = {}
<1>1. HoldersIn(jb, v) \in SUBSET Client
  BY DEF HoldersIn
<1>2. IsFiniteSet(HoldersIn(jb, v))
  BY <1>1, CacheAssumption, FS_Subset
<1>. QED BY <1>2, FS_EmptySet, FS_CardinalityType

(* An entry that goes is kept for its holders, or has none.                   *)
LEMMA EvictBooks ==
  ASSUME NEW C, NEW ev, NEW jb, Books(C, ev, jb), NEW e \in C, e \in Entry, e.val \in Value
  PROVE  Books(C \ {e}, IF e.pins > 0 THEN Append(ev, e) ELSE ev, jb)
<1>1. ev \in Seq(Entry) /\ Len(ev) \in Nat
  BY LenProperties DEF Books
<1>2. CASE e.pins > 0
  <2>. DEFINE u == Append(ev, e)
  <2>1. /\ u \in Seq(Entry) /\ Len(u) = Len(ev) + 1 /\ u[Len(ev) + 1] = e
        /\ \A i \in 1..Len(ev) : u[i] = ev[i]
    BY <1>1, AppendProperties
  <2>2. \A i \in 1..Len(u) : i \in 1..Len(ev) \/ i = Len(ev) + 1
    BY <1>1, <2>1
  <2>. HIDE DEF u
  <2>3. \A i \in 1..Len(u) : \A f \in C \ {e} : u[i].val # f.val
    BY <2>1, <2>2 DEF Books
  <2>4. \A i, j \in 1..Len(u) : u[i].val = u[j].val => i = j
    BY <2>1, <2>2 DEF Books
  <2>5. \A i \in 1..Len(u) : /\ u[i].val \in Value /\ u[i].pins > 0
                             /\ u[i].pins = Cardinality(HoldersIn(jb, u[i].val))
    BY <1>2, <2>1, <2>2 DEF Books
  <2>6. ASSUME NEW c \in Client, jb[c].op = "hold"
        PROVE  \/ \E f \in C \ {e} : f.key = jb[c].key /\ f.val = jb[c].val
               \/ \E i \in 1..Len(u) : u[i].key = jb[c].key /\ u[i].val = jb[c].val
    <3>1. CASE \E f \in C : f.key = jb[c].key /\ f.val = jb[c].val
      <4>1. Len(ev) + 1 \in 1..Len(u)
        BY <1>1, <2>1
      <4>. QED BY <2>1, <3>1, <4>1
    <3>2. CASE \E i \in 1..Len(ev) : ev[i].key = jb[c].key /\ ev[i].val = jb[c].val
      <4>1. \A i \in 1..Len(ev) : i \in 1..Len(u)
        BY <1>1, <2>1
      <4>. QED BY <2>1, <3>2, <4>1
    <3>. QED BY <2>6, <3>1, <3>2 DEF Books
  <2>7. /\ \A f, g \in C \ {e} : f.val = g.val => f = g
        /\ \A f \in C \ {e} : f.pins = Cardinality(HoldersIn(jb, f.val))
    BY DEF Books
  <2>8. Books(C \ {e}, u, jb)
    BY <2>1, <2>3, <2>4, <2>5, <2>6, <2>7 DEF Books
  <2>. QED BY <1>2, <2>8 DEF u
<1>3. CASE ~(e.pins > 0)
  <2>1. HoldersIn(jb, e.val) = {}
    <3>1. e.pins = Cardinality(HoldersIn(jb, e.val)) /\ Cardinality(HoldersIn(jb, e.val)) \in Nat
      BY HolderHasPin DEF Books
    <3>2. Cardinality(HoldersIn(jb, e.val)) = 0
      BY <1>3, <3>1
    <3>. QED BY <3>2, HolderHasPin
  <2>2. \A c \in Client : jb[c].op = "hold" => jb[c].val # e.val
    BY <2>1 DEF HoldersIn
  <2>3. \A c \in Client : jb[c].op = "hold" =>
          \/ \E f \in C \ {e} : f.key = jb[c].key /\ f.val = jb[c].val
          \/ \E i \in 1..Len(ev) : ev[i].key = jb[c].key /\ ev[i].val = jb[c].val
    BY <2>2 DEF Books
  <2>4. Books(C \ {e}, ev, jb)
    BY <1>1, <2>3 DEF Books
  <2>. QED BY <1>3, <2>4
<1>. QED BY <1>2, <1>3

(* One round of the loop of EvictToCapacity.                                  *)
Evicted(s, m) == IF Len(s.order) > m THEN EvictItem(s) ELSE s

(* The recursive function of EvictToCapacity obeys its definition.            *)
LEMMA EvictionUnfolds ==
  ASSUME NEW s, NEW m, Len(s.order) \in Nat
  PROVE  \E left : /\ left[0] = s
                   /\ \A i \in 1..Len(s.order) : left[i] = Evicted(left[i - 1], m)
                   /\ EvictToCapacity(s, m) = left[Len(s.order)]
<1>. DEFINE Def(g, l) == [i \in 0..l |-> IF i = 0 THEN s ELSE Evicted(g[i - 1], m)]
            P == {l \in Nat : \E g : g = Def(g, l)}
            L == Len(s.order)
<1>1. 0 \in P
  <2>. DEFINE g == [i \in 0..0 |-> s]
  <2>1. g = Def(g, 0)
    OBVIOUS
  <2>. QED BY <2>1
<1>2. ASSUME NEW l \in Nat, l \in P PROVE l + 1 \in P
  <2>1. PICK g : g = Def(g, l)
    BY <1>2
  <2>. DEFINE h == Def(g, l + 1)
  <2>2. \A i \in 0..l : h[i] = g[i]
    <3>1. ASSUME NEW i \in 0..l PROVE h[i] = g[i]
      <4>1. i \in 0..(l + 1)
        OBVIOUS
      <4>2. h[i] = IF i = 0 THEN s ELSE Evicted(g[i - 1], m)
        BY <4>1
      <4>3. g[i] = IF i = 0 THEN s ELSE Evicted(g[i - 1], m)
        BY <2>1
      <4>. QED BY <4>2, <4>3
    <3>. QED BY <3>1
  <2>3. \A i \in 0..(l + 1) : i # 0 => h[i - 1] = g[i - 1]
    <3>. HIDE DEF h
    <3>. QED BY <2>2
  <2>4. h = Def(h, l + 1)
    <3>1. h = [i \in 0..(l + 1) |-> IF i = 0 THEN s ELSE Evicted(g[i - 1], m)]
      OBVIOUS
    <3>2. Def(h, l + 1) = [i \in 0..(l + 1) |-> IF i = 0 THEN s ELSE Evicted(h[i - 1], m)]
      OBVIOUS
    <3>. HIDE DEF h, Def
    <3>. QED BY <2>3, <3>1, <3>2
  <2>. HIDE DEF h, Def
  <2>. QED BY <2>4
<1>3. L \in P
  <2>. HIDE DEF P
  <2>. QED BY <1>1, <1>2, Counting
<1>. DEFINE w == CHOOSE g : g = Def(g, L)
<1>4. w = Def(w, L)
  <2>1. \E g : g = Def(g, L)
    BY <1>3
  <2>. HIDE DEF Def
  <2>. QED BY <2>1
<1>5. EvictToCapacity(s, m) = w[L]
  BY DEF EvictToCapacity, Evicted
<1>. HIDE DEF w
<1>6. w[0] = s
  BY <1>4
<1>7. \A i \in 1..L : w[i] = Evicted(w[i - 1], m)
  <2>1. \A i \in 1..L : i \in 0..L /\ i # 0
    OBVIOUS
  <2>. QED BY <1>4, <2>1
<1>. QED BY <1>5, <1>6, <1>7

(* EvictToCapacity leaves the youngest m entries, all in reach.               *)
LEMMA EvictToCapacityIs ==
  ASSUME NEW n \in Nat \ {0}, NEW s, NEW m \in Nat, NEW jb,
         TableOK(n, s.t), Filled(Content(n, s.t), s.order),
         Books(Content(n, s.t), s.evicted, jb), Len(s.order) < n \/ n <= 2
  PROVE  LET u == EvictToCapacity(s, m)
             k == IF Len(s.order) > m THEN Len(s.order) - m ELSE 0
         IN /\ TableOK(n, u.t) /\ Filled(Content(n, u.t), u.order)
            /\ Books(Content(n, u.t), u.evicted, jb)
            /\ Content(n, u.t) \subseteq Content(n, s.t)
            /\ Len(u.order) = Len(s.order) - k
            /\ \A j \in 1..(Len(s.order) - k) : u.order[j] = s.order[j + k]
<1>. DEFINE L == Len(s.order)
<1>1. L \in Nat
  BY LenProperties DEF Filled
<1>2. PICK left : /\ left[0] = s
                  /\ \A i \in 1..L : left[i] = Evicted(left[i - 1], m)
                  /\ EvictToCapacity(s, m) = left[L]
  BY <1>1, EvictionUnfolds
<1>. DEFINE After(u, k) == /\ TableOK(n, u.t) /\ Filled(Content(n, u.t), u.order)
                           /\ Books(Content(n, u.t), u.evicted, jb)
                           /\ Content(n, u.t) \subseteq Content(n, s.t)
                           /\ Len(u.order) = L - k
                           /\ \A j \in 1..(L - k) : u.order[j] = s.order[j + k]
            P == {i \in Nat : i <= L => \E k \in 0..L :
                    /\ After(left[i], k) /\ (k = i \/ L - k <= m) /\ (k > 0 => L - k >= m)}
<1>3. 0 \in P
  <2>1. After(s, 0)
    BY <1>1
  <2>. HIDE DEF After
  <2>. QED BY <1>1, <1>2, <2>1
<1>4. ASSUME NEW i \in Nat, i \in P PROVE i + 1 \in P
  <2>1. SUFFICES ASSUME i + 1 <= L
                 PROVE  \E k \in 0..L : /\ After(left[i + 1], k) /\ (k = i + 1 \/ L - k <= m)
                                        /\ (k > 0 => L - k >= m)
    <3>1. i + 1 \in Nat
      OBVIOUS
    <3>. HIDE DEF After
    <3>. QED BY <3>1
  <2>2. PICK k \in 0..L : /\ After(left[i], k) /\ (k = i \/ L - k <= m)
                          /\ (k > 0 => L - k >= m)
    BY <1>1, <1>4, <2>1, SMTT(30)
  <2>. DEFINE u == left[i]
  <2>3. left[i + 1] = Evicted(u, m)
    <3>1. i + 1 \in 1..L /\ (i + 1) - 1 = i
      BY <1>1, <2>1
    <3>. QED BY <1>2, <3>1
  <2>. HIDE DEF u
  <2>4. CASE ~(Len(u.order) > m)
    <3>1. left[i + 1] = u
      BY <2>3, <2>4 DEF Evicted
    <3>2. L - k <= m
      BY <1>1, <2>2, <2>4 DEF u
    <3>. HIDE DEF After
    <3>. QED BY <2>2, <3>1, <3>2 DEF u
  <2>5. CASE Len(u.order) > m
    <3>1. left[i + 1] = EvictItem(u)
      BY <2>3, <2>5 DEF Evicted
    <3>2. /\ TableOK(n, u.t) /\ Filled(Content(n, u.t), u.order)
          /\ Books(Content(n, u.t), u.evicted, jb)
          /\ Content(n, u.t) \subseteq Content(n, s.t)
          /\ Len(u.order) = L - k
          /\ \A j \in 1..(L - k) : u.order[j] = s.order[j + k]
      BY <2>2 DEF u
    <3>3. L - k > m /\ L - k > 0 /\ (L - k < n \/ n <= 2) /\ k = i
      BY <1>1, <2>2, <2>5, <3>2
    <3>4. PICK e \in Content(n, u.t) :
            /\ e.key = Head(u.order)
            /\ TableOK(n, EvictItem(u).t)
            /\ Content(n, EvictItem(u).t) = Content(n, u.t) \ {e}
            /\ EvictItem(u).order = Tail(u.order)
            /\ EvictItem(u).evicted = IF e.pins > 0 THEN Append(u.evicted, e) ELSE u.evicted
      BY <3>2, <3>3, EvictItemIs, ZenonT(60)
    <3>5. /\ Filled(Content(n, u.t) \ {e}, Tail(u.order))
          /\ Len(Tail(u.order)) = Len(u.order) - 1
          /\ \A j \in 1..(Len(u.order) - 1) : Tail(u.order)[j] = u.order[j + 1]
      <4>1. Len(u.order) > 0
        BY <3>2, <3>3
      <4>. QED BY <3>2, <3>4, <4>1, EvictFilled
    <3>6. Books(Content(n, u.t) \ {e},
                IF e.pins > 0 THEN Append(u.evicted, e) ELSE u.evicted, jb)
      <4>1. e \in Entry /\ e.val \in Value
        BY <3>2 DEF Filled
      <4>. QED BY <3>2, <4>1, EvictBooks
    <3>7. ASSUME NEW j \in 1..(L - (k + 1))
          PROVE  Tail(u.order)[j] = s.order[j + (k + 1)]
      <4>1. j \in 1..(Len(u.order) - 1) /\ j + 1 \in 1..(L - k) /\ (j + 1) + k = j + (k + 1)
        BY <1>1, <3>2, <3>3
      <4>2. Tail(u.order)[j] = u.order[j + 1]
        BY <3>5, <4>1
      <4>3. u.order[j + 1] = s.order[(j + 1) + k]
        BY <3>2, <4>1
      <4>. QED BY <4>1, <4>2, <4>3
    <3>8. Len(Tail(u.order)) = L - (k + 1) /\ k + 1 \in 0..L
      BY <1>1, <3>2, <3>3, <3>5
    <3>9. After(left[i + 1], k + 1)
      BY <3>1, <3>2, <3>4, <3>5, <3>6, <3>7, <3>8
    <3>10. k + 1 = i + 1 /\ L - (k + 1) >= m
      BY <1>1, <3>3
    <3>. HIDE DEF After
    <3>. QED BY <3>8, <3>9, <3>10
  <2>. QED BY <2>4, <2>5
<1>5. L \in P
  <2>. HIDE DEF P
  <2>. QED BY <1>1, <1>3, <1>4, Counting
<1>6. PICK k \in 0..L : /\ After(left[L], k) /\ (k = L \/ L - k <= m)
                        /\ (k > 0 => L - k >= m)
  <2>1. L <= L
    BY <1>1
  <2>. HIDE DEF After
  <2>. QED BY <1>5, <2>1
<1>7. k = IF L > m THEN L - m ELSE 0
  <2>. HIDE DEF After, L
  <2>. QED BY <1>1, <1>6
<1>. QED BY <1>2, <1>6, <1>7

(* The table has more slots than its capacity, and room for one entry more    *)
(* unless it has one or two slots.                                            *)
LEMMA TableSizeIs ==
  ASSUME NEW m \in Nat
  PROVE  /\ TableSize(m) \in Nat \ {0} /\ m < TableSize(m)
         /\ m + 1 < TableSize(m) \/ TableSize(m) <= 2
BY DEF TableSize

(* The recursive function of Rehash obeys its definition.                     *)
LEMMA RehashUnfolds ==
  ASSUME NEW n \in Nat \ {0}, NEW t \in [0..(n - 1) -> Entry], NEW m
  PROVE  \E new : /\ new[0] = Empty(m)
                  /\ \A i \in 1..n : new[i] = Put(new[i - 1], t[i - 1])
                  /\ Rehash(t, m) = new[n]
<1>. DEFINE Def(g, l) == [i \in 0..l |-> IF i = 0 THEN Empty(m) ELSE Put(g[i - 1], t[i - 1])]
            P == {l \in Nat : \E g : g = Def(g, l)}
<1>1. 0 \in P
  <2>. DEFINE g == [i \in 0..0 |-> Empty(m)]
  <2>1. g = Def(g, 0)
    OBVIOUS
  <2>. QED BY <2>1
<1>2. ASSUME NEW l \in Nat, l \in P PROVE l + 1 \in P
  <2>1. PICK g : g = Def(g, l)
    BY <1>2
  <2>. DEFINE h == Def(g, l + 1)
  <2>2. \A i \in 0..l : h[i] = g[i]
    <3>1. ASSUME NEW i \in 0..l PROVE h[i] = g[i]
      <4>1. i \in 0..(l + 1)
        OBVIOUS
      <4>2. h[i] = IF i = 0 THEN Empty(m) ELSE Put(g[i - 1], t[i - 1])
        BY <4>1
      <4>3. g[i] = IF i = 0 THEN Empty(m) ELSE Put(g[i - 1], t[i - 1])
        BY <2>1
      <4>. QED BY <4>2, <4>3
    <3>. QED BY <3>1
  <2>3. \A i \in 0..(l + 1) : i # 0 => h[i - 1] = g[i - 1]
    <3>. HIDE DEF h
    <3>. QED BY <2>2
  <2>4. h = Def(h, l + 1)
    <3>1. h = [i \in 0..(l + 1) |-> IF i = 0 THEN Empty(m) ELSE Put(g[i - 1], t[i - 1])]
      OBVIOUS
    <3>2. Def(h, l + 1) = [i \in 0..(l + 1) |-> IF i = 0 THEN Empty(m)
                                               ELSE Put(h[i - 1], t[i - 1])]
      OBVIOUS
    <3>. HIDE DEF h, Def
    <3>. QED BY <2>3, <3>1, <3>2
  <2>. HIDE DEF h, Def
  <2>. QED BY <2>4
<1>3. n \in P
  <2>. HIDE DEF P
  <2>. QED BY <1>1, <1>2, Counting
<1>. DEFINE w == CHOOSE g : g = Def(g, n)
<1>4. w = Def(w, n)
  <2>1. \E g : g = Def(g, n)
    BY <1>3
  <2>. HIDE DEF Def
  <2>. QED BY <2>1
<1>5. Rehash(t, m) = w[n]
  <2>1. Cardinality(DOMAIN t) = n
    BY FS_Interval
  <2>. QED BY <2>1 DEF Rehash
<1>. HIDE DEF w
<1>6. w[0] = Empty(m)
  BY <1>4
<1>7. \A i \in 1..n : w[i] = Put(w[i - 1], t[i - 1])
  <2>1. \A i \in 1..n : i \in 0..n /\ i # 0
    OBVIOUS
  <2>. QED BY <1>4, <2>1
<1>. QED BY <1>5, <1>6, <1>7

(* An empty table.                                                            *)
LEMMA EmptyIs ==
  ASSUME NEW m \in Nat
  PROVE  TableOK(TableSize(m), Empty(m)) /\ Content(TableSize(m), Empty(m)) = {}
<1>. DEFINE n == TableSize(m)
<1>1. n \in Nat \ {0}
  BY TableSizeIs
<1>2. Free \in Entry
  BY DEF Free, Entry
<1>3. Empty(m) = [i \in 0..(n - 1) |-> Free]
  BY DEF Empty
<1>. HIDE DEF n
<1>4. /\ Empty(m) \in [0..(n - 1) -> Entry]
      /\ \A i \in 0..(n - 1) : Empty(m)[i] = Free
  BY <1>2, <1>3
<1>. QED BY <1>4 DEF TableOK, InReach, KeysApart, Content, InUse, n

(* Put puts an entry with a new key in reach.                                 *)
LEMMA PutIs ==
  ASSUME NEW n \in Nat \ {0}, NEW u, TableOK(n, u), NEW e \in Entry, e # Free,
         \E f \in 0..(n - 1) : ~InUse(u, f),
         \A j \in 0..(n - 1) : InUse(u, j) => u[j].key # e.key
  PROVE  TableOK(n, Put(u, e)) /\ Content(n, Put(u, e)) = Content(n, u) \cup {e}
<1>. DEFINE p == Probe(u, e.key, FreeSlots(u))
<1>1. u \in [0..(n - 1) -> Entry] /\ e.key \in Nat
  BY DEF TableOK, Entry
<1>2. /\ FreeSlots(u) \in SUBSET (0..(n - 1)) /\ FreeSlots(u) # {}
      /\ \A j \in 0..(n - 1) : j \in FreeSlots(u) <=> ~InUse(u, j)
  BY <1>1 DEF FreeSlots
<1>3. /\ p \in FreeSlots(u)
      /\ \A j \in FreeSlots(u) : Dist(n, e.key % n, p) <= Dist(n, e.key % n, j)
  BY <1>1, <1>2, ProbeIs
<1>4. Put(u, e) = [u EXCEPT ![p] = e]
  BY DEF Put
<1>. HIDE DEF p
<1>5. p \in 0..(n - 1) /\ ~InUse(u, p)
  BY <1>2, <1>3
<1>6. ASSUME NEW j \in 0..(n - 1), Past(n, e.key, j, p) PROVE InUse(u, j)
  <2>1. e.key % n \in 0..(n - 1)
    BY <1>1, HomeIs
  <2>2. Dist(n, e.key % n, p) \in 0..(n - 1) /\ Dist(n, e.key % n, j) \in 0..(n - 1)
    BY <1>5, <2>1, DistIs
  <2>3. ~(Dist(n, e.key % n, p) <= Dist(n, e.key % n, j))
    BY <1>6, <2>2 DEF Past
  <2>. QED BY <1>2, <1>3, <2>3
<1>. DEFINE v == [u EXCEPT ![p] = e]
<1>7. v \in [0..(n - 1) -> Entry] /\ v[p] = e /\ \A j \in 0..(n - 1) : j # p => v[j] = u[j]
  BY <1>1, <1>5
<1>. HIDE DEF v
<1>8. InUse(v, p) /\ \A j \in 0..(n - 1) : j # p => (InUse(v, j) <=> InUse(u, j))
  BY <1>7 DEF InUse
<1>9. InReach(n, v, {})
  BY <1>5, <1>6, <1>7, <1>8 DEF InReach, TableOK
<1>10. KeysApart(n, v)
  BY <1>5, <1>7, <1>8 DEF KeysApart, TableOK
<1>11. Content(n, v) = Content(n, u) \cup {e}
  <2>1. \A j \in 0..(n - 1) : v[j] \in Content(n, u) \cup {e, Free}
    BY <1>7 DEF Content
  <2>2. \A j \in 0..(n - 1) : u[j] # Free => u[j] \in Content(n, v)
    BY <1>5, <1>7 DEF Content, InUse
  <2>3. e \in Content(n, v)
    BY <1>5, <1>7 DEF Content
  <2>. QED BY <2>1, <2>2, <2>3 DEF Content
<1>. QED BY <1>4, <1>7, <1>9, <1>10, <1>11 DEF TableOK, v

(* Rehash puts the same entries into a table of another size, in reach.       *)
LEMMA RehashIs ==
  ASSUME NEW n \in Nat \ {0}, NEW t, TableOK(n, t), NEW m \in Nat,
         NEW o, Filled(Content(n, t), o), Len(o) <= m
  PROVE  /\ TableOK(TableSize(m), Rehash(t, m))
         /\ Content(TableSize(m), Rehash(t, m)) = Content(n, t)
<1>1. t \in [0..(n - 1) -> Entry]
  BY DEF TableOK
<1>2. PICK new : /\ new[0] = Empty(m)
                 /\ \A i \in 1..n : new[i] = Put(new[i - 1], t[i - 1])
                 /\ Rehash(t, m) = new[n]
  BY <1>1, RehashUnfolds
<1>. DEFINE l == TableSize(m)
            Moved(i) == {t[j] : j \in 0..(i - 1)} \ {Free}
            P == {i \in Nat : i <= n => TableOK(l, new[i]) /\ Content(l, new[i]) = Moved(i)}
<1>3. l \in Nat \ {0} /\ m < l
  BY TableSizeIs
<1>4. 0 \in P
  <2>1. TableOK(l, new[0]) /\ Content(l, new[0]) = {}
    BY <1>2, EmptyIs
  <2>2. Moved(0) = {}
    <3>1. 0..(0 - 1) = {}
      OBVIOUS
    <3>. QED BY <3>1
  <2>. QED BY <2>1, <2>2
<1>5. ASSUME NEW i \in Nat, i \in P PROVE i + 1 \in P
  <2>. HIDE DEF l
  <2>1. SUFFICES ASSUME i + 1 <= n
                 PROVE  TableOK(l, new[i + 1]) /\ Content(l, new[i + 1]) = Moved(i + 1)
    OBVIOUS
  <2>2. i \in 0..(n - 1) /\ i + 1 \in 1..n /\ (i + 1) - 1 = i
    BY <2>1
  <2>. DEFINE e == t[i]
              u == new[i]
  <2>3. new[i + 1] = Put(u, e)
    BY <1>2, <2>2
  <2>4. TableOK(l, u) /\ Content(l, u) = Moved(i)
    BY <1>5, <2>1
  <2>5. Moved(i + 1) = Moved(i) \cup ({e} \ {Free})
    <3>1. 0..((i + 1) - 1) = 0..(i - 1) \cup {i}
      BY <2>2
    <3>. QED BY <3>1
  <2>6. \A f \in Moved(i) : f \in Content(n, t) /\ \E j \in 0..(i - 1) : f = t[j] /\ InUse(t, j)
    <3>1. \A j \in 0..(i - 1) : j \in 0..(n - 1)
      BY <2>2
    <3>. QED BY <3>1 DEF Content, InUse
  <2>. HIDE DEF u, e, Moved
  <2>7. CASE e = Free
    BY <2>3, <2>4, <2>5, <2>7 DEF Put
  <2>8. CASE e # Free
    <3>1. e \in Entry /\ InUse(t, i) /\ e.key \in Nat
      BY <1>1, <2>2, <2>8 DEF InUse, e, Entry
    <3>2. \E f \in 0..(l - 1) : ~InUse(u, f)
      <4>1. \A f \in Content(l, u) : \E j \in 1..Len(o) : o[j] = f.key
        BY <2>4, <2>6 DEF Filled
      <4>2. o \in Seq(Key) /\ Len(o) \in Nat /\ Len(o) < l
        BY <1>3, LenProperties DEF Filled
      <4>. QED BY <1>3, <2>4, <4>1, <4>2, HasFree
    <3>3. ASSUME NEW j \in 0..(l - 1), InUse(u, j) PROVE u[j].key # e.key
      <4>1. u[j] \in Content(l, u)
        BY <3>3 DEF Content, InUse
      <4>2. PICK k \in 0..(i - 1) : u[j] = t[k] /\ InUse(t, k)
        BY <2>4, <2>6, <4>1
      <4>3. k # i /\ k \in 0..(n - 1)
        BY <2>2
      <4>. QED BY <2>2, <3>1, <4>2, <4>3 DEF TableOK, KeysApart, e
    <3>4. TableOK(l, Put(u, e)) /\ Content(l, Put(u, e)) = Content(l, u) \cup {e}
      BY <1>3, <2>4, <2>8, <3>1, <3>2, <3>3, PutIs
    <3>. QED BY <2>3, <2>4, <2>5, <2>8, <3>4
  <2>. QED BY <2>7, <2>8
<1>6. n \in P
  <2>. HIDE DEF P
  <2>. QED BY <1>4, <1>5, Counting
<1>7. Moved(n) = Content(n, t)
  BY DEF Content
<1>8. TableOK(l, new[n]) /\ Content(l, new[n]) = Moved(n)
  <2>1. n <= n
    OBVIOUS
  <2>. HIDE DEF Moved, l
  <2>. QED BY <1>6, <2>1
<1>. QED BY <1>2, <1>7, <1>8

(* What a client does.                                                        *)
Jobs == [op : {"idle", "insert", "lookup", "hold"}, key : Nat, val : Value \cup {NoValue}]
(* What clients may be doing: calls are about keys.                           *)
JobsOK(jb) ==
  /\ jb \in [Client -> Jobs]
  /\ \A c \in Client : jb[c].op \in {"insert", "lookup"} => jb[c].key \in Key

(* The table, the queue and the evicted entries between two operations.       *)
CacheIInv ==
  /\ capacity \in Capacities /\ JobsOK(job)
  /\ TableOK(TableSize(capacity), table)
  /\ Filled(Content(TableSize(capacity), table), order) /\ Len(order) <= capacity
  /\ Books(Content(TableSize(capacity), table), evicted, job)

(* Holders of the same values are owed the same.                              *)
LEMMA SameHolders ==
  ASSUME NEW C, NEW ev, NEW jb, NEW jk, Books(C, ev, jb),
         \A c \in Client : jk[c].op = "hold" <=> jb[c].op = "hold",
         \A c \in Client : jk[c].op = "hold" => jk[c] = jb[c]
  PROVE  Books(C, ev, jk)
<1>1. \A v : HoldersIn(jk, v) = HoldersIn(jb, v)
  BY DEF HoldersIn
<1>. QED BY <1>1 DEF Books

(* A client gets hold of a value.                                             *)
LEMMA HolderComes ==
  ASSUME NEW jb, NEW jk, NEW c \in Client, jb[c].op # "hold", jk[c].op = "hold",
         \A d \in Client \ {c} : jk[d] = jb[d]
  PROVE  \A v : Cardinality(HoldersIn(jk, v))
                  = IF v = jk[c].val THEN Cardinality(HoldersIn(jb, v)) + 1
                                     ELSE Cardinality(HoldersIn(jb, v))
<1>1. ASSUME NEW v PROVE Cardinality(HoldersIn(jk, v))
                  = IF v = jk[c].val THEN Cardinality(HoldersIn(jb, v)) + 1
                                     ELSE Cardinality(HoldersIn(jb, v))
  <2>1. c \notin HoldersIn(jb, v) /\ IsFiniteSet(HoldersIn(jb, v))
    BY HolderHasPin DEF HoldersIn
  <2>2. CASE v = jk[c].val
    <3>1. HoldersIn(jk, v) = HoldersIn(jb, v) \cup {c}
      BY <2>2 DEF HoldersIn
    <3>. QED BY <2>1, <2>2, <3>1, FS_AddElement, SMTT(30)
  <2>3. CASE v # jk[c].val
    <3>1. HoldersIn(jk, v) = HoldersIn(jb, v)
      BY <2>3 DEF HoldersIn
    <3>. QED BY <2>3, <3>1
  <2>. QED BY <2>2, <2>3
<1>. QED BY <1>1

(* A client lets go of a value.                                               *)
LEMMA HolderLeaves ==
  ASSUME NEW jb, NEW jk, NEW c \in Client, jb[c].op = "hold", jk[c].op # "hold",
         \A d \in Client \ {c} : jk[d] = jb[d]
  PROVE  \A v : /\ Cardinality(HoldersIn(jk, v))
                     = IF v = jb[c].val THEN Cardinality(HoldersIn(jb, v)) - 1
                                        ELSE Cardinality(HoldersIn(jb, v))
                /\ v = jb[c].val => Cardinality(HoldersIn(jb, v)) > 0
<1>1. ASSUME NEW v
      PROVE  /\ Cardinality(HoldersIn(jk, v))
                     = IF v = jb[c].val THEN Cardinality(HoldersIn(jb, v)) - 1
                                        ELSE Cardinality(HoldersIn(jb, v))
             /\ v = jb[c].val => Cardinality(HoldersIn(jb, v)) > 0
  <2>1. IsFiniteSet(HoldersIn(jb, v))
    BY HolderHasPin
  <2>2. CASE v = jb[c].val
    <3>1. HoldersIn(jk, v) = HoldersIn(jb, v) \ {c} /\ c \in HoldersIn(jb, v)
      BY <2>2 DEF HoldersIn
    <3>2. Cardinality(HoldersIn(jk, v)) = Cardinality(HoldersIn(jb, v)) - 1
      BY <2>1, <3>1, FS_RemoveElement
    <3>3. Cardinality(HoldersIn(jb, v)) \in Nat /\ Cardinality(HoldersIn(jb, v)) # 0
      BY <3>1, HolderHasPin
    <3>. QED BY <2>2, <3>2, <3>3
  <2>3. CASE v # jb[c].val
    <3>1. HoldersIn(jk, v) = HoldersIn(jb, v)
      BY <2>3 DEF HoldersIn
    <3>. QED BY <2>3, <3>1
  <2>. QED BY <2>2, <2>3
<1>. QED BY <1>1

(* A table with another entry in a slot.                                     *)
Replaced(t, i, f) == [t EXCEPT ![i] = f]

(* An entry of the table gets another number of pins.                         *)
LEMMA PinsChange ==
  ASSUME NEW n \in Nat \ {0}, NEW t, TableOK(n, t), NEW i \in 0..(n - 1), InUse(t, i),
         NEW f \in Entry, f # Free, f.key = t[i].key
  PROVE  /\ TableOK(n, Replaced(t, i, f))
         /\ Content(n, Replaced(t, i, f)) = (Content(n, t) \ {t[i]}) \cup {f}
<1>. DEFINE u == Replaced(t, i, f)
<1>1. t \in [0..(n - 1) -> Entry]
  BY DEF TableOK
<1>2. u \in [0..(n - 1) -> Entry] /\ u[i] = f /\ \A j \in 0..(n - 1) : j # i => u[j] = t[j]
  BY <1>1 DEF Replaced
<1>. HIDE DEF u
<1>3. \A j \in 0..(n - 1) : (InUse(u, j) <=> InUse(t, j)) /\ u[j].key = t[j].key
  BY <1>2 DEF InUse
<1>4. InReach(n, u, {})
  BY <1>3 DEF InReach, TableOK
<1>5. KeysApart(n, u)
  BY <1>3 DEF KeysApart, TableOK
<1>6. Content(n, u) = (Content(n, t) \ {t[i]}) \cup {f}
  <2>1. ASSUME NEW j \in 0..(n - 1), u[j] # Free
        PROVE  u[j] \in (Content(n, t) \ {t[i]}) \cup {f}
    <3>1. CASE j # i
      <4>1. u[j] = t[j] /\ InUse(t, j) /\ t[j].key # t[i].key
        BY <1>2, <1>3, <2>1, <3>1 DEF InUse, TableOK, KeysApart
      <4>. QED BY <4>1 DEF Content, InUse
    <3>. QED BY <1>2, <3>1
  <2>2. ASSUME NEW j \in 0..(n - 1), t[j] # Free, t[j] # t[i]
        PROVE  t[j] \in Content(n, u)
    <3>1. j # i /\ u[j] = t[j]
      BY <1>2, <2>2
    <3>. QED BY <2>2, <3>1 DEF Content
  <2>3. f \in Content(n, u)
    BY <1>2 DEF Content
  <2>. QED BY <2>1, <2>2, <2>3 DEF Content
<1>. QED BY <1>2, <1>4, <1>5, <1>6 DEF TableOK, u

(* The keys of a table and its queue stay the same then.                      *)
LEMMA PinsFilled ==
  ASSUME NEW C, NEW o, Filled(C, o), NEW e \in C, NEW f \in Entry,
         f.key = e.key, f.val = e.val
  PROVE  Filled((C \ {e}) \cup {f}, o)
<1>. DEFINE D == (C \ {e}) \cup {f}
<1>1. f.key \in Key /\ f.val \in Value
  BY DEF Filled
<1>2. \A g \in D : g \in Entry /\ g.key \in Key /\ g.val \in Value
  BY <1>1 DEF Filled
<1>3. \A g, h \in D : g.key = h.key => g = h
  BY <1>1 DEF Filled
<1>4. \A g \in D : \E j \in 1..Len(o) : o[j] = g.key
  BY <1>1 DEF Filled
<1>5. \A j \in 1..Len(o) : \E g \in D : g.key = o[j]
  <2>1. SUFFICES ASSUME NEW j \in 1..Len(o) PROVE \E g \in D : g.key = o[j]
    OBVIOUS
  <2>2. PICK g \in C : g.key = o[j]
    BY DEF Filled
  <2>. QED BY <1>1, <2>2
<1>. HIDE DEF D
<1>6. Filled(D, o)
  BY <1>2, <1>3, <1>4, <1>5 DEF Filled
<1>. QED BY <1>6 DEF D

(* A probe for the key of an entry ends at the entry.                         *)
LEMMA FindsEntry ==
  ASSUME NEW n \in Nat \ {0}, NEW t, TableOK(n, t), NEW e \in Content(n, t),
         \E f \in 0..(n - 1) : ~InUse(t, f)
  PROVE  Find(t, e.key) \in 0..(n - 1) /\ InUse(t, Find(t, e.key)) /\ t[Find(t, e.key)] = e
<1>1. e.key \in Nat
  BY ContentIs DEF Entry
<1>2. PICK x \in 0..(n - 1) : t[x] = e /\ InUse(t, x)
  BY ContentIs
<1>. DEFINE k == e.key
<1>. HIDE DEF k
<1>3. k \in Nat
  BY <1>1 DEF k
<1>4. /\ Find(t, k) \in 0..(n - 1)
      /\ InUse(t, Find(t, k)) => t[Find(t, k)].key = k
      /\ ~InUse(t, Find(t, k)) => \A j \in 0..(n - 1) : InUse(t, j) => t[j].key # k
  BY <1>3, FindIs
<1>5. InUse(t, Find(t, k)) /\ t[Find(t, k)].key = k
  BY <1>2, <1>4 DEF k
<1>6. Find(t, k) = x
  BY <1>2, <1>4, <1>5 DEF TableOK, KeysApart, k
<1>. QED BY <1>2, <1>4, <1>5, <1>6 DEF k

(* In a step, value w gets p holders, and other holders stay; a client that   *)
(* holds something held it before or holds entry e.                           *)
HoldersOf(w, p) ==
  \A v : Cardinality(HoldersIn(job', v))
           = IF v = w THEN p ELSE Cardinality(HoldersIn(job, v))
HeldBefore(c) == job[c].op = "hold" /\ job'[c] = job[c]
HoldersComeTo(e) ==
  \A c \in Client : job'[c].op = "hold" =>
    HeldBefore(c) \/ (job'[c].key = e.key /\ job'[c].val = e.val)
HoldersStay == \A c \in Client : job'[c].op = "hold" => HeldBefore(c)

(* One entry's holders change, and its pins with them.                        *)
LEMMA PinsBooks ==
  ASSUME NEW C, Books(C, evicted, job), NEW e \in C, NEW f, f.key = e.key, f.val = e.val,
         HoldersOf(e.val, f.pins), HoldersComeTo(e)
  PROVE  Books((C \ {e}) \cup {f}, evicted, job')
<1>. DEFINE D == (C \ {e}) \cup {f}
<1>1. \A g, h \in D : g.val = h.val => g = h
  BY DEF Books, HoldersOf
<1>2. \A i \in 1..Len(evicted) : \A g \in D : evicted[i].val # g.val
  BY DEF Books, HoldersOf
<1>3. \A g \in D : g.pins = Cardinality(HoldersIn(job', g.val))
  BY DEF Books, HoldersOf
<1>4. \A i \in 1..Len(evicted) : /\ evicted[i].val \in Value /\ evicted[i].pins > 0
                                 /\ evicted[i].pins = Cardinality(HoldersIn(job', evicted[i].val))
  BY DEF Books, HoldersOf
<1>5. ASSUME NEW c \in Client, job'[c].op = "hold"
      PROVE  \/ \E g \in D : g.key = job'[c].key /\ g.val = job'[c].val
             \/ \E i \in 1..Len(evicted) : /\ evicted[i].key = job'[c].key
                                           /\ evicted[i].val = job'[c].val
  <2>1. CASE job'[c].key = e.key /\ job'[c].val = e.val
    BY <2>1
  <2>2. CASE job[c].op = "hold" /\ job'[c] = job[c]
    <3>1. \/ \E g \in C : g.key = job'[c].key /\ g.val = job'[c].val
          \/ \E i \in 1..Len(evicted) : evicted[i].key = job'[c].key /\ evicted[i].val = job'[c].val
      BY <2>2 DEF Books
    <3>2. ASSUME NEW g \in C, g.key = job'[c].key, g.val = job'[c].val
          PROVE  \E h \in D : h.key = job'[c].key /\ h.val = job'[c].val
      BY <3>2
    <3>. QED BY <3>1, <3>2
  <2>. QED BY <1>5, <2>1, <2>2 DEF HoldersComeTo, HeldBefore
<1>. HIDE DEF D
<1>6. Books(D, evicted, job')
  BY <1>1, <1>2, <1>3, <1>4, <1>5 DEF Books
<1>. QED BY <1>6 DEF D

(* The last pin of an evicted entry goes, and the entry with it.              *)
LEMMA LastPinBooks ==
  ASSUME NEW C, Books(C, evicted, job), NEW i \in 1..Len(evicted),
         HoldersOf(evicted[i].val, 0), HoldersStay,
         \A e \in C : e.val \in Value
  PROVE  Books(C, RemoveAt(evicted, i), job')
<1>. DEFINE u == RemoveAt(evicted, i)
            L == Len(evicted)
            was(j) == IF j < i THEN j ELSE j + 1
<1>1. evicted \in Seq(Entry) /\ L \in Nat /\ i \in 1..L
  BY LenProperties DEF Books
<1>2. /\ u \in Seq(Entry) /\ Len(u) = L - 1
      /\ \A j \in 1..(L - 1) : u[j] = evicted[was(j)]
  <2>1. /\ SubSeq(evicted, 1, i - 1) \in Seq(Entry) /\ Len(SubSeq(evicted, 1, i - 1)) = i - 1
        /\ \A j \in 1..(i - 1) : SubSeq(evicted, 1, i - 1)[j] = evicted[j]
    BY <1>1, SubSeqProperties
  <2>2. /\ SubSeq(evicted, i + 1, L) \in Seq(Entry) /\ Len(SubSeq(evicted, i + 1, L)) = L - i
        /\ \A j \in 1..(L - i) : SubSeq(evicted, i + 1, L)[j] = evicted[j + i]
    BY <1>1, SubSeqProperties
  <2>. DEFINE a == SubSeq(evicted, 1, i - 1)
              b == SubSeq(evicted, i + 1, L)
  <2>3. u = a \o b
    BY DEF RemoveAt
  <2>. HIDE DEF u, L, a, b
  <2>4. /\ a \in Seq(Entry) /\ b \in Seq(Entry) /\ Len(a) = i - 1 /\ Len(b) = L - i
        /\ \A j \in 1..(i - 1) : a[j] = evicted[j]
        /\ \A j \in 1..(L - i) : b[j] = evicted[j + i]
    BY <2>1, <2>2 DEF a, b
  <2>5. /\ u \in Seq(Entry) /\ Len(u) = (i - 1) + (L - i)
        /\ \A j \in 1..((i - 1) + (L - i)) : u[j] = IF j <= i - 1 THEN a[j] ELSE b[j - (i - 1)]
    BY <2>3, <2>4, ConcatProperties
  <2>6. ASSUME NEW j \in 1..(L - 1) PROVE u[j] = evicted[was(j)]
    <3>1. CASE j < i
      BY <1>1, <2>4, <2>5, <3>1
    <3>2. CASE j >= i
      <4>1. u[j] = b[j - (i - 1)] /\ j - (i - 1) \in 1..(L - i) /\ (j - (i - 1)) + i = j + 1
        BY <1>1, <2>5, <2>6, <3>2
      <4>2. u[j] = evicted[j + 1]
        BY <2>4, <4>1
      <4>. QED BY <3>2, <4>2
    <3>. QED BY <1>1, <3>1, <3>2
  <2>. QED BY <1>1, <2>5, <2>6
<1>3. /\ \A j \in 1..(L - 1) : was(j) \in 1..L /\ was(j) # i
      /\ \A j, k \in 1..(L - 1) : was(j) = was(k) => j = k
      /\ \A j \in 1..L : j # i => \E k \in 1..(L - 1) : was(k) = j
  <2>1. /\ \A j \in 1..(L - 1) : was(j) \in 1..L /\ was(j) # i
        /\ \A j, k \in 1..(L - 1) : was(j) = was(k) => j = k
    BY <1>1
  <2>2. ASSUME NEW j \in 1..L, j # i PROVE \E k \in 1..(L - 1) : was(k) = j
    <3>1. CASE j < i
      <4>1. j \in 1..(L - 1) /\ was(j) = j
        BY <1>1, <3>1
      <4>. QED BY <4>1
    <3>2. CASE j > i
      <4>1. j - 1 \in 1..(L - 1) /\ was(j - 1) = j
        BY <1>1, <3>2
      <4>. QED BY <4>1
    <3>. QED BY <1>1, <2>2, <3>1, <3>2
  <2>. QED BY <2>1, <2>2
<1>. HIDE DEF u, L, was
<1>4. 1..Len(u) = 1..(L - 1)
  BY <1>2
<1>5. \A j \in 1..Len(u) : was(j) \in 1..Len(evicted) /\ was(j) # i /\ u[j] = evicted[was(j)]
  BY <1>2, <1>3, <1>4 DEF L
<1>6. \A j \in 1..Len(u) : \A e \in C : u[j].val # e.val
  BY <1>5 DEF Books
<1>7. ASSUME NEW j \in 1..Len(u), NEW k \in 1..Len(u), u[j].val = u[k].val PROVE j = k
  <2>1. /\ evicted[was(j)].val = evicted[was(k)].val
        /\ was(j) \in 1..Len(evicted) /\ was(k) \in 1..Len(evicted)
    BY <1>5, <1>7
  <2>2. was(j) = was(k)
    BY <2>1 DEF Books
  <2>. QED BY <1>3, <1>4, <2>2
<1>8. \A j \in 1..Len(u) : /\ u[j].val \in Value /\ u[j].pins > 0
                           /\ u[j].pins = Cardinality(HoldersIn(job', u[j].val))
  <2>1. \A j \in 1..Len(u) : u[j].val # evicted[i].val
    BY <1>5 DEF Books
  <2>. QED BY <1>5, <2>1 DEF Books, HoldersOf
<1>9. \A e \in C : e.pins = Cardinality(HoldersIn(job', e.val))
  BY DEF Books, HoldersOf
<1>10. ASSUME NEW c \in Client, job'[c].op = "hold"
       PROVE  \/ \E e \in C : e.key = job'[c].key /\ e.val = job'[c].val
              \/ \E j \in 1..Len(u) : u[j].key = job'[c].key /\ u[j].val = job'[c].val
  <2>1. job[c].op = "hold" /\ job'[c] = job[c]
    BY <1>10 DEF HoldersStay, HeldBefore
  <2>2. job'[c].val # evicted[i].val
    <3>1. Cardinality(HoldersIn(job', job'[c].val)) # 0
      <4>1. c \in HoldersIn(job', job'[c].val)
        BY <1>10 DEF HoldersIn
      <4>. QED BY <4>1, HolderHasPin
    <3>. QED BY <3>1 DEF HoldersOf
  <2>3. CASE \E e \in C : e.key = job'[c].key /\ e.val = job'[c].val
    BY <2>3
  <2>4. CASE \E j \in 1..Len(evicted) : evicted[j].key = job'[c].key /\ evicted[j].val = job'[c].val
    <3>1. PICK j \in 1..Len(evicted) : evicted[j].key = job'[c].key /\ evicted[j].val = job'[c].val
      BY <2>4
    <3>2. j # i
      BY <2>2, <3>1
    <3>3. PICK k \in 1..Len(u) : was(k) = j
      BY <1>3, <1>4, <3>2 DEF L
    <3>. QED BY <1>5, <3>1, <3>3
  <2>. QED BY <2>1, <2>3, <2>4 DEF Books
<1>11. Books(C, u, job')
  <2>1. \A e, f \in C : e.val = f.val => e = f
    BY DEF Books
  <2>. QED BY <1>2, <1>6, <1>7, <1>8, <1>9, <1>10, <2>1 DEF Books
<1>. QED BY <1>11 DEF u

(* An evicted entry loses one of several pins.                                *)
LEMMA PinLeavesBooks ==
  ASSUME NEW C, Books(C, evicted, job), NEW i \in 1..Len(evicted),
         NEW p \in Nat, p > 0,
         HoldersOf(evicted[i].val, p), HoldersStay
  PROVE  Books(C, [evicted EXCEPT ![i].pins = p], job')
<1>. DEFINE f == [key |-> evicted[i].key, val |-> evicted[i].val, pins |-> p]
            u == [evicted EXCEPT ![i].pins = p]
<1>1. /\ evicted \in Seq(Entry) /\ Len(evicted) \in Nat
      /\ i \in 1..Len(evicted) /\ evicted[i] \in Entry
  BY LenProperties, ElementOfSeq DEF Books
<1>2. [evicted[i] EXCEPT !.pins = p] = f /\ f \in Entry
  BY <1>1, SMTT(30) DEF Entry
<1>3. u = [evicted EXCEPT ![i] = f]
  BY <1>2
<1>4. f.key = evicted[i].key /\ f.val = evicted[i].val /\ f.pins = p
  OBVIOUS
<1>. HIDE DEF f, u
<1>5. /\ u \in Seq(Entry) /\ Len(u) = Len(evicted) /\ u[i] = f
      /\ \A j \in 1..Len(evicted) : j # i => u[j] = evicted[j]
  BY <1>1, <1>2, <1>3, ExceptSeq
<1>6. \A j \in 1..Len(u) : u[j].key = evicted[j].key /\ u[j].val = evicted[j].val
  BY <1>4, <1>5
<1>7. \A j \in 1..Len(u) : \A e \in C : u[j].val # e.val
  BY <1>5, <1>6 DEF Books
<1>8. \A j, k \in 1..Len(u) : u[j].val = u[k].val => j = k
  BY <1>5, <1>6 DEF Books
<1>9. \A j \in 1..Len(u) : /\ u[j].val \in Value /\ u[j].pins > 0
                           /\ u[j].pins = Cardinality(HoldersIn(job', u[j].val))
  <2>1. SUFFICES ASSUME NEW j \in 1..Len(u)
                 PROVE  /\ u[j].val \in Value /\ u[j].pins > 0
                        /\ u[j].pins = Cardinality(HoldersIn(job', u[j].val))
    OBVIOUS
  <2>2. j \in 1..Len(evicted)
    BY <1>5
  <2>3. CASE j = i
    BY <1>4, <1>5, <2>2, <2>3 DEF Books, HoldersOf
  <2>4. CASE j # i
    <3>1. u[j] = evicted[j] /\ evicted[j].val # evicted[i].val
      BY <1>5, <2>2, <2>4 DEF Books
    <3>. QED BY <2>2, <3>1 DEF Books, HoldersOf
  <2>. QED BY <2>3, <2>4
<1>10. \A e \in C : e.pins = Cardinality(HoldersIn(job', e.val))
  BY DEF Books, HoldersOf
<1>11. ASSUME NEW c \in Client, job'[c].op = "hold"
       PROVE  \/ \E e \in C : e.key = job'[c].key /\ e.val = job'[c].val
              \/ \E j \in 1..Len(u) : u[j].key = job'[c].key /\ u[j].val = job'[c].val
  <2>1. job[c].op = "hold" /\ job'[c] = job[c]
    BY <1>11 DEF HoldersStay, HeldBefore
  <2>2. \/ \E e \in C : e.key = job'[c].key /\ e.val = job'[c].val
        \/ \E j \in 1..Len(evicted) : evicted[j].key = job'[c].key /\ evicted[j].val = job'[c].val
    BY <2>1 DEF Books
  <2>. QED BY <1>5, <1>6, <2>2
<1>12. Books(C, u, job')
  <2>1. \A g, h \in C : g.val = h.val => g = h
    BY DEF Books
  <2>. QED BY <1>5, <1>7, <1>8, <1>9, <1>10, <1>11, <2>1 DEF Books
<1>. QED BY <1>12 DEF u

(* The items of PinnedFifo's queue.                                           *)
Items == [key : Nat, val : Value]
(* The entries C of a table in the order of their keys o: PinnedFifo's queue. *)
ValueAt(C, k) == (CHOOSE e \in C : e.key = k).val
QueueOf(C, o) == [i \in 1..Len(o) |-> [key |-> o[i], val |-> ValueAt(C, o[i])]]

(* Each item of the queue is an entry of the table.                           *)
LEMMA QueueOfIs ==
  ASSUME NEW C, NEW o, Filled(C, o)
  PROVE  /\ QueueOf(C, o) \in Seq(Items) /\ Len(QueueOf(C, o)) = Len(o) /\ Len(o) \in Nat
         /\ DOMAIN QueueOf(C, o) = 1..Len(o)
         /\ \A i \in 1..Len(o) : /\ QueueOf(C, o)[i] = [key |-> o[i], val |-> ValueAt(C, o[i])]
                                 /\ \E e \in C : e.key = o[i] /\ e.val = ValueAt(C, o[i])
         /\ \A e \in C : ValueAt(C, e.key) = e.val
<1>. DEFINE q == QueueOf(C, o)
<1>1. Len(o) \in Nat /\ o \in Seq(Key)
  BY LenProperties DEF Filled
<1>2. ASSUME NEW e \in C PROVE ValueAt(C, e.key) = e.val
  <2>1. (CHOOSE f \in C : f.key = e.key) = e
    BY DEF Filled
  <2>. QED BY <2>1 DEF ValueAt
<1>3. ASSUME NEW i \in 1..Len(o) PROVE \E e \in C : e.key = o[i] /\ e.val = ValueAt(C, o[i])
  <2>1. PICK e \in C : e.key = o[i]
    BY DEF Filled
  <2>. QED BY <1>2, <2>1
<1>4. \A i \in 1..Len(o) : o[i] \in Nat /\ ValueAt(C, o[i]) \in Value
  <2>1. \A e \in C : e.key \in Nat /\ e.val \in Value
    BY CacheAssumption DEF Filled
  <2>. QED BY <1>3, <2>1
<1>5. q = [i \in 1..Len(o) |-> [key |-> o[i], val |-> ValueAt(C, o[i])]]
  BY DEF QueueOf
<1>. HIDE DEF q
<1>6. \A i \in 1..Len(o) : [key |-> o[i], val |-> ValueAt(C, o[i])] \in Items
  BY <1>4 DEF Items
<1>7. q \in [1..Len(o) -> Items]
  BY <1>5, <1>6
<1>8. q \in Seq(Items) /\ Len(q) = Len(o) /\ DOMAIN q = 1..Len(o)
  BY <1>1, <1>7, SeqDef
<1>. QED BY <1>1, <1>2, <1>3, <1>5, <1>8 DEF q

(* The queue read off the table, as the refinement does.                      *)
LEMMA QueueIs ==
  ASSUME NEW n \in Nat \ {0}, NEW t, TableOK(n, t), NEW o, Filled(Content(n, t), o),
         Len(o) < n
  PROVE  [i \in DOMAIN o |-> [key |-> o[i], val |-> t[Find(t, o[i])].val]]
           = QueueOf(Content(n, t), o)
<1>1. o \in Seq(Key) /\ DOMAIN o = 1..Len(o)
  BY LenProperties DEF Filled
<1>2. \E f \in 0..(n - 1) : ~InUse(t, f)
  BY <1>1, HasFree DEF Filled
<1>3. ASSUME NEW i \in 1..Len(o) PROVE t[Find(t, o[i])].val = ValueAt(Content(n, t), o[i])
  <2>1. PICK e \in Content(n, t) : e.key = o[i]
    BY DEF Filled
  <2>2. t[Find(t, e.key)] = e
    BY <1>2, FindsEntry
  <2>3. ValueAt(Content(n, t), e.key) = e.val
    BY QueueOfIs
  <2>. QED BY <2>1, <2>2, <2>3
<1>. QED BY <1>1, <1>3 DEF QueueOf

(* Changes of pins are none of the queue.                                     *)
LEMMA SameQueue ==
  ASSUME NEW C, NEW D, NEW o, Filled(C, o), Filled(D, o),
         \A f \in D : \E e \in C : e.key = f.key /\ e.val = f.val
  PROVE  QueueOf(D, o) = QueueOf(C, o)
<1>1. \A f \in D : ValueAt(D, f.key) = f.val
  BY QueueOfIs
<1>2. ASSUME NEW i \in 1..Len(o) PROVE ValueAt(D, o[i]) = ValueAt(C, o[i])
  <2>1. PICK f \in D : f.key = o[i] /\ f.val = ValueAt(D, o[i])
    <3>1. PICK f \in D : f.key = o[i]
      BY DEF Filled
    <3>. QED BY <1>1, <3>1
  <2>2. PICK e \in C : e.key = f.key /\ e.val = f.val
    OBVIOUS
  <2>3. ValueAt(C, e.key) = e.val
    BY QueueOfIs
  <2>. QED BY <2>1, <2>2, <2>3
<1>. QED BY <1>2 DEF QueueOf

(* What is left of the entries when the oldest go is the end of the queue.    *)
LEMMA QueueTrims ==
  ASSUME NEW C, NEW o, Filled(C, o), NEW D, NEW p, Filled(D, p), D \subseteq C,
         NEW m \in Nat,
         LET k == IF Len(o) > m THEN Len(o) - m ELSE 0
         IN /\ Len(p) = Len(o) - k
            /\ \A j \in 1..(Len(o) - k) : p[j] = o[j + k]
  PROVE  QueueOf(D, p) = Fifo!Trim(QueueOf(C, o), m)
<1>. DEFINE q == QueueOf(C, o)
            r == QueueOf(D, p)
            L == Len(o)
            k == IF L > m THEN L - m ELSE 0
<1>1. /\ q \in Seq(Items) /\ Len(q) = L /\ L \in Nat
      /\ \A i \in 1..L : q[i] = [key |-> o[i], val |-> ValueAt(C, o[i])]
  BY QueueOfIs
<1>2. /\ r \in Seq(Items) /\ Len(r) = Len(p)
      /\ \A i \in 1..Len(p) : r[i] = [key |-> p[i], val |-> ValueAt(D, p[i])]
  <2>1. r \in Seq(Items) /\ Len(r) = Len(p)
    BY QueueOfIs
  <2>2. ASSUME NEW i \in 1..Len(p) PROVE r[i] = [key |-> p[i], val |-> ValueAt(D, p[i])]
    BY DEF QueueOf
  <2>. QED BY <2>1, <2>2
<1>3. \A f \in D : ValueAt(D, f.key) = f.val
  BY QueueOfIs
<1>4. /\ r \in Seq(Items) /\ Len(r) = Len(p) /\ Len(p) = L - k
      /\ \A i \in 1..Len(p) : r[i] = [key |-> p[i], val |-> ValueAt(D, p[i])]
  BY <1>2
<1>5. k \in 0..L /\ L - k \in Nat
  BY <1>1
<1>6. ASSUME NEW j \in 1..(L - k) PROVE r[j] = q[j + k]
  <2>1. p[j] = o[j + k] /\ j + k \in 1..L /\ j \in 1..Len(p)
    BY <1>1, <1>4, <1>5
  <2>. HIDE DEF k, L, q, r
  <2>2. PICK f \in D : f.key = p[j] /\ f.val = ValueAt(D, p[j])
    <3>1. PICK f \in D : f.key = p[j]
      BY <2>1 DEF Filled
    <3>. QED BY <1>3, <3>1
  <2>3. ValueAt(C, f.key) = f.val
    BY QueueOfIs
  <2>. QED BY <1>1, <1>4, <2>1, <2>2, <2>3
<1>. HIDE DEF q, r
<1>7. CASE L > m
  <2>1. k = L - m /\ L - k = m /\ L - m + 1 \in Int /\ L \in Int
    BY <1>1, <1>7
  <2>2. \A i \in (L - m + 1)..L : q[i] \in Items
    <3>1. \A i \in (L - m + 1)..L : i \in 1..Len(q)
      BY <1>1, <1>7
    <3>. QED BY <1>1, <3>1, ElementOfSeq
  <2>. DEFINE u == SubSeq(q, L - m + 1, L)
              a == L - m + 1
  <2>3. /\ u \in Seq(Items) /\ Len(u) = IF a <= L THEN L - a + 1 ELSE 0
        /\ \A i \in 1..(L - a + 1) : u[i] = q[a + i - 1]
    <3>1. a \in Int /\ L \in Int /\ \A i \in a..L : q[i] \in Items
      BY <2>1, <2>2
    <3>2. u = SubSeq(q, a, L)
      OBVIOUS
    <3>. HIDE DEF a, u, L
    <3>. QED BY <3>1, <3>2, SubSeqProperties
  <2>4. Len(u) = m /\ \A i \in 1..m : u[i] = q[i + k]
    <3>1. Len(u) = m
      BY <1>1, <1>7, <2>3
    <3>2. ASSUME NEW i \in 1..m PROVE u[i] = q[i + k]
      <4>1. i \in 1..(L - a + 1) /\ a + i - 1 = i + k
        BY <1>1, <1>7, <2>1
      <4>. HIDE DEF a, k, u
      <4>. QED BY <2>3, <4>1
    <3>. QED BY <3>1, <3>2
  <2>5. Fifo!Trim(q, m) = u
    BY <1>1, <1>7 DEF Fifo!Trim
  <2>. HIDE DEF u, k, L, a
  <2>6. r = u
    <3>1. Len(r) = Len(u) /\ \A i \in 1..Len(r) : r[i] = u[i]
      BY <1>4, <1>6, <2>1, <2>4, ZenonT(60)
    <3>. QED BY <1>4, <2>3, <3>1, SeqEqual
  <2>. QED BY <2>5, <2>6 DEF q, r
<1>8. CASE ~(L > m)
  <2>1. k = 0 /\ L - k = L /\ \A j \in 1..L : j + k = j
    BY <1>1, <1>8
  <2>2. Fifo!Trim(q, m) = q
    BY <1>1, <1>8 DEF Fifo!Trim
  <2>. HIDE DEF k, L
  <2>3. r = q
    <3>1. Len(r) = Len(q) /\ \A i \in 1..Len(r) : r[i] = q[i]
      BY <1>1, <1>4, <1>6, <2>1
    <3>. QED BY <1>1, <1>4, <3>1, SeqEqual
  <2>. QED BY <2>2, <2>3 DEF q, r
<1>. QED BY <1>7, <1>8

(* A new entry comes to the end of the queue.                                 *)
LEMMA QueueGrows ==
  ASSUME NEW C, NEW o, Filled(C, o), NEW e \in Entry, e.key \in Key, e.val \in Value,
         \A f \in C : f.key # e.key
  PROVE  /\ Filled(C \cup {e}, Append(o, e.key))
         /\ QueueOf(C \cup {e}, Append(o, e.key))
              = Append(QueueOf(C, o), [key |-> e.key, val |-> e.val])
<1>. DEFINE k == e.key
            L == Len(o)
            p == Append(o, k)
            D == C \cup {e}
<1>. HIDE DEF k
<1>1. o \in Seq(Key) /\ L \in Nat /\ k \in Key
  BY LenProperties DEF Filled, k
<1>2. /\ p \in Seq(Key) /\ Len(p) = L + 1 /\ p[L + 1] = k
      /\ \A i \in 1..L : p[i] = o[i]
  BY <1>1, AppendProperties
<1>. HIDE DEF p
<1>3. \A i \in 1..L : o[i] # k
  <2>1. \A i \in 1..L : \E f \in C : f.key = o[i]
    BY DEF Filled
  <2>. QED BY <2>1 DEF k
<1>4. \A i \in 1..Len(p) : i \in 1..L \/ i = L + 1
  BY <1>1, <1>2
<1>5. Filled(D, p)
  <2>1. \A i, j \in 1..Len(p) : p[i] = p[j] => i = j
    BY <1>2, <1>3, <1>4 DEF Filled
  <2>2. \A f \in D : f \in Entry /\ f.key \in Key /\ f.val \in Value
    BY DEF Filled
  <2>3. \A f, g \in D : f.key = g.key => f = g
    BY DEF Filled
  <2>4. ASSUME NEW f \in D PROVE \E j \in 1..Len(p) : p[j] = f.key
    <3>1. CASE f = e
      <4>1. L + 1 \in 1..Len(p)
        BY <1>1, <1>2
      <4>. QED BY <1>2, <3>1, <4>1 DEF k
    <3>2. CASE f \in C
      <4>1. PICK j \in 1..L : o[j] = f.key
        BY <3>2 DEF Filled
      <4>2. j \in 1..Len(p)
        BY <1>1, <1>2
      <4>. QED BY <1>2, <4>1, <4>2
    <3>. QED BY <3>1, <3>2
  <2>5. ASSUME NEW j \in 1..Len(p) PROVE \E f \in D : f.key = p[j]
    <3>1. CASE j \in 1..L
      <4>1. \E f \in C : f.key = o[j]
        BY <3>1 DEF Filled
      <4>. QED BY <1>2, <3>1, <4>1
    <3>2. CASE j = L + 1
      BY <1>2, <3>2 DEF k
    <3>. QED BY <1>4, <3>1, <3>2
  <2>. HIDE DEF D
  <2>. QED BY <1>2, <2>1, <2>2, <2>3, <2>4, <2>5 DEF Filled
<1>. DEFINE q == QueueOf(C, o)
            r == QueueOf(D, p)
            x == [key |-> k, val |-> e.val]
<1>6. /\ q \in Seq(Items) /\ Len(q) = L
      /\ \A i \in 1..L : q[i] = [key |-> o[i], val |-> ValueAt(C, o[i])]
  BY QueueOfIs
<1>7. /\ r \in Seq(Items) /\ Len(r) = Len(p)
      /\ \A i \in 1..Len(p) : r[i] = [key |-> p[i], val |-> ValueAt(D, p[i])]
  <2>. HIDE DEF D
  <2>. QED BY <1>5, QueueOfIs
<1>8. /\ r \in Seq(Items) /\ Len(r) = L + 1
      /\ \A i \in 1..(L + 1) : r[i] = [key |-> p[i], val |-> ValueAt(D, p[i])]
  BY <1>7, <1>2
<1>9. x \in Items
  BY <1>1, CacheAssumption DEF Items
<1>10. r[L + 1] = x
  <2>1. ValueAt(D, e.key) = e.val
    BY <1>5, QueueOfIs
  <2>2. L + 1 \in 1..(L + 1)
    BY <1>1
  <2>. QED BY <1>2, <1>8, <2>1, <2>2 DEF k
<1>11. \A i \in 1..Len(o) : \E f \in C : f.key = o[i]
  BY DEF Filled
<1>12. \A f \in C : ValueAt(C, f.key) = f.val
  BY QueueOfIs
<1>13. ASSUME NEW i \in 1..L PROVE r[i] = q[i]
  <2>1. PICK f \in C : f.key = o[i] /\ f.val = ValueAt(C, f.key)
    BY <1>11, <1>12 DEF L
  <2>2. ValueAt(D, f.key) = f.val
    BY <1>5, QueueOfIs
  <2>3. i \in 1..(L + 1) /\ p[i] = o[i]
    BY <1>1, <1>2
  <2>. QED BY <1>6, <1>8, <2>1, <2>2, <2>3
<1>. HIDE DEF q, r, x, D, L
<1>14. /\ Append(q, x) \in Seq(Items) /\ Len(Append(q, x)) = L + 1
       /\ Append(q, x)[L + 1] = x /\ \A i \in 1..L : Append(q, x)[i] = q[i]
  BY <1>6, <1>9, AppendProperties
<1>15. r = Append(q, x)
  <2>1. \A i \in 1..Len(r) : i \in 1..L \/ i = L + 1
    BY <1>1, <1>8
  <2>2. \A i \in 1..Len(r) : r[i] = Append(q, x)[i]
    BY <1>10, <1>13, <1>14, <2>1
  <2>. QED BY <1>8, <1>14, <2>2, SeqEqual
<1>. QED BY <1>5, <1>15 DEF q, r, x, D, p, k

(* The queue and the values held as PinnedFifo sees them, and its steps.      *)
Queue == [i \in DOMAIN order |-> [key |-> order[i], val |-> table[Find(table, order[i])].val]]
Holds == [c \in Client |-> IF job[c].op = "hold" THEN job[c].val ELSE NoValue]
FifoStep == Fifo!Next \/ UNCHANGED <<Queue, capacity, Holds>>

(* What makes a step one of PinnedFifo.                                       *)
LEMMA FifoInserts ==
  ASSUME NEW k \in Key, NEW v \in Value,
         \A i \in DOMAIN Queue : Queue[i].val # v /\ Queue[i].key # k,
         \A c \in Client : Holds[c] # v,
         Queue' = Fifo!Trim(Append(Queue, [key |-> k, val |-> v]), capacity),
         capacity' = capacity, Holds' = Holds
  PROVE  FifoStep
<1>1. Fifo!Insert(k, v)
  BY DEF Fifo!Insert, Fifo!Live, Fifo!KeyIn, Queue, Holds
<1>. QED BY <1>1 DEF FifoStep, Fifo!Next

(* A client that gets hold of an item of the queue.                           *)
LEMMA FifoGets ==
  ASSUME NEW c \in Client, NEW k \in Key, Holds[c] = NoValue,
         NEW i \in DOMAIN Queue, Queue[i].key = k, Holds' = [Holds EXCEPT ![c] = Queue[i].val],
         Queue' = Queue, capacity' = capacity
  PROVE  FifoStep
<1>1. Fifo!Get(c, k)
  BY DEF Fifo!Get, Queue, Holds
<1>. QED BY <1>1 DEF FifoStep, Fifo!Next

(* A client that lets go.                                                     *)
LEMMA FifoLetsGo ==
  ASSUME NEW c \in Client, Holds' = [Holds EXCEPT ![c] = NoValue],
         Queue' = Queue, capacity' = capacity
  PROVE  FifoStep
<1>1. Fifo!LetGo(c)
  BY DEF Fifo!LetGo, Queue, Holds
<1>. QED BY <1>1 DEF FifoStep, Fifo!Next

(* A new capacity.                                                            *)
LEMMA FifoSets ==
  ASSUME NEW n \in Capacities, Queue' = Fifo!Trim(Queue, n), capacity' = n, Holds' = Holds
  PROVE  FifoStep
<1>1. Fifo!SetCapacity(n)
  BY DEF Fifo!SetCapacity, Queue, Holds
<1>. QED BY <1>1 DEF FifoStep, Fifo!Next

(* An empty queue.                                                            *)
LEMMA FifoClears ==
  ASSUME Queue' = << >>, capacity' = capacity, Holds' = Holds
  PROVE  FifoStep
<1>1. Fifo!Clear
  BY DEF Fifo!Clear, Queue, Holds
<1>. QED BY <1>1 DEF FifoStep, Fifo!Next

(* What the invariant gives, with N slots.                                    *)
LEMMA CacheIs ==
  ASSUME CacheIInv
  PROVE  LET n == TableSize(capacity)
             C == Content(n, table)
         IN /\ capacity \in Nat /\ n \in Nat \ {0} /\ capacity < n
            /\ capacity + 1 < n \/ n <= 2
            /\ TableOK(n, table) /\ Filled(C, order) /\ Len(order) <= capacity
            /\ Len(order) \in Nat /\ Len(order) < n
            /\ Books(C, evicted, job) /\ JobsOK(job)
            /\ \E f \in 0..(n - 1) : ~InUse(table, f)
            /\ Queue = QueueOf(C, order)
<1>. DEFINE n == TableSize(capacity)
            C == Content(n, table)
<1>1. capacity \in Nat
  BY CacheAssumption DEF CacheIInv
<1>2. n \in Nat \ {0} /\ capacity < n /\ (capacity + 1 < n \/ n <= 2)
  BY <1>1, TableSizeIs
<1>3. /\ TableOK(n, table) /\ Filled(C, order) /\ Len(order) <= capacity
      /\ Books(C, evicted, job) /\ JobsOK(job)
  BY DEF CacheIInv
<1>. HIDE DEF n
<1>4. order \in Seq(Key) /\ Len(order) \in Nat /\ Len(order) < n
  BY <1>1, <1>2, <1>3, LenProperties DEF Filled
<1>5. \E f \in 0..(n - 1) : ~InUse(table, f)
  BY <1>2, <1>3, <1>4, HasFree DEF Filled
<1>6. Queue = QueueOf(C, order)
  BY <1>2, <1>3, <1>4, QueueIs DEF Queue
<1>. QED BY <1>1, <1>2, <1>3, <1>4, <1>5, <1>6 DEF n

(* The same after a step, from what the step leaves.                          *)
LEMMA CacheBecomes ==
  ASSUME capacity' \in Capacities, JobsOK(job'),
         TableOK(TableSize(capacity'), table'),
         Filled(Content(TableSize(capacity'), table'), order'), Len(order') <= capacity',
         Books(Content(TableSize(capacity'), table'), evicted', job')
  PROVE  /\ CacheIInv'
         /\ Queue' = QueueOf(Content(TableSize(capacity'), table'), order')
<1>. DEFINE n == TableSize(capacity')
            t == table'
            o == order'
<1>1. capacity' \in Nat
  BY CacheAssumption
<1>2. n \in Nat \ {0} /\ capacity' < n
  BY <1>1, TableSizeIs
<1>3. TableOK(n, t) /\ Filled(Content(n, t), o) /\ Len(o) <= capacity'
  OBVIOUS
<1>. HIDE DEF n, t, o
<1>4. Len(o) \in Nat /\ Len(o) < n
  BY <1>1, <1>2, <1>3, LenProperties DEF Filled
<1>5. [i \in DOMAIN o |-> [key |-> o[i], val |-> t[Find(t, o[i])].val]]
        = QueueOf(Content(n, t), o)
  BY <1>2, <1>3, <1>4, QueueIs
<1>6. CacheIInv'
  BY DEF CacheIInv
<1>. QED BY <1>5, <1>6 DEF Queue, n, t, o

(* A new entry with a value of its own.                                       *)
LEMMA NewBooks ==
  ASSUME NEW C, NEW ev, NEW jb, Books(C, ev, jb), NEW e, e.pins = 0,
         \A f \in C : f.val # e.val, \A i \in 1..Len(ev) : ev[i].val # e.val
  PROVE  Books(C \cup {e}, ev, jb)
<1>. DEFINE D == C \cup {e}
<1>1. HoldersIn(jb, e.val) = {}
  BY DEF Books, HoldersIn
<1>2. Cardinality(HoldersIn(jb, e.val)) = 0
  BY <1>1, HolderHasPin
<1>3. \A g, h \in D : g.val = h.val => g = h
  BY DEF Books
<1>4. \A i \in 1..Len(ev) : \A g \in D : ev[i].val # g.val
  BY DEF Books
<1>5. \A g \in D : g.pins = Cardinality(HoldersIn(jb, g.val))
  BY <1>2 DEF Books
<1>6. \A c \in Client : jb[c].op = "hold" =>
        \/ \E g \in D : g.key = jb[c].key /\ g.val = jb[c].val
        \/ \E i \in 1..Len(ev) : ev[i].key = jb[c].key /\ ev[i].val = jb[c].val
  BY DEF Books
<1>. HIDE DEF D
<1>7. Books(D, ev, jb)
  BY <1>3, <1>4, <1>5, <1>6 DEF Books
<1>. QED BY <1>7 DEF D

(* Who holds what stays when a client that holds nothing has no new value.    *)
LEMMA SameHolds ==
  ASSUME NEW c \in Client, NEW x \in Jobs, JobsOK(job), job[c].op # "hold",
         x.op # "hold", x.op \in {"insert", "lookup"} => x.key \in Key,
         job' = [job EXCEPT ![c] = x]
  PROVE  /\ JobsOK(job') /\ Holds' = Holds
         /\ \A d \in Client : job'[d].op = "hold" <=> job[d].op = "hold"
         /\ \A d \in Client : job'[d].op = "hold" => job'[d] = job[d]
<1>1. job \in [Client -> Jobs]
  BY DEF JobsOK
<1>2. job' \in [Client -> Jobs] /\ job'[c] = x /\ \A d \in Client \ {c} : job'[d] = job[d]
  BY <1>1
<1>3. JobsOK(job')
  BY <1>2 DEF JobsOK
<1>4. Holds' = Holds
  BY <1>2 DEF Holds
<1>. QED BY <1>2, <1>3, <1>4

(* The cache begins empty.                                                    *)
LEMMA InitKeeps ==
  ASSUME Init
  PROVE  CacheIInv /\ Queue = << >> /\ Holds = [c \in Client |-> NoValue]
<1>. DEFINE n == TableSize(capacity)
<1>1. /\ capacity \in Nat /\ capacity \in Capacities /\ table = Empty(capacity)
      /\ order = << >> /\ evicted = << >> /\ job = [c \in Client |-> Idle]
  BY CacheAssumption DEF Init
<1>2. TableOK(n, table) /\ Content(n, table) = {}
  BY <1>1, EmptyIs
<1>3. /\ Len(order) = 0 /\ Len(evicted) = 0 /\ order \in Seq(Key) /\ evicted \in Seq(Entry)
      /\ DOMAIN order = {}
  BY <1>1
<1>4. Idle \in Jobs /\ Idle.op = "idle"
  BY DEF Idle, Jobs
<1>5. JobsOK(job) /\ \A c \in Client : job[c].op # "hold"
  BY <1>1, <1>4 DEF JobsOK
<1>6. Filled({}, order) /\ Len(order) <= capacity
  BY <1>1, <1>3 DEF Filled
<1>7. Books({}, evicted, job)
  BY <1>3, <1>5 DEF Books
<1>8. CacheIInv
  BY <1>1, <1>2, <1>5, <1>6, <1>7 DEF CacheIInv
<1>9. Queue = << >>
  <2>1. Queue = [i \in {} |-> [key |-> order[i], val |-> table[Find(table, order[i])].val]]
    BY <1>3 DEF Queue
  <2>. QED BY <2>1
<1>10. Holds = [c \in Client |-> NoValue]
  BY <1>5 DEF Holds
<1>. QED BY <1>8, <1>9, <1>10

(* A call is noted.                                                           *)
LEMMA CallKeeps ==
  ASSUME CacheIInv, NEW c \in Client, NEW op \in {"insert", "lookup"}, NEW k \in Key,
         Call(c, op, k)
  PROVE  CacheIInv' /\ FifoStep
<1>. DEFINE x == [Idle EXCEPT !.op = op, !.key = k]
            C == Content(TableSize(capacity), table)
<1>1. /\ capacity' = capacity /\ table' = table /\ order' = order /\ evicted' = evicted
      /\ job[c] = Idle /\ job' = [job EXCEPT ![c] = x]
  BY DEF Call, cache
<1>2. /\ capacity \in Capacities /\ JobsOK(job) /\ TableOK(TableSize(capacity), table)
      /\ Filled(C, order) /\ Len(order) <= capacity /\ Books(C, evicted, job)
  BY DEF CacheIInv
<1>3. Idle \in Jobs /\ k \in Nat
  BY CacheAssumption DEF Idle, Jobs
<1>4. x \in Jobs /\ x.op # "hold" /\ x.key \in Key
  BY <1>3 DEF Jobs
<1>. HIDE DEF x, C
<1>5. /\ JobsOK(job') /\ Holds' = Holds
      /\ \A d \in Client : job'[d].op = "hold" <=> job[d].op = "hold"
      /\ \A d \in Client : job'[d].op = "hold" => job'[d] = job[d]
  <2>1. job[c].op # "hold"
    BY <1>1 DEF Idle
  <2>. QED BY <1>1, <1>2, <1>4, <2>1, SameHolds
<1>6. Books(C, evicted, job')
  BY <1>2, <1>5, SameHolders
<1>7. CacheIInv'
  BY <1>1, <1>2, <1>5, <1>6 DEF CacheIInv, C
<1>8. Queue' = Queue
  BY <1>1 DEF Queue
<1>. QED BY <1>1, <1>5, <1>7, <1>8 DEF FifoStep

(* An entry is put at the end of the queue, and the oldest go.                *)
LEMMA InsertKeeps ==
  ASSUME CacheIInv, NEW c \in Client, Insert(c)
  PROVE  CacheIInv' /\ FifoStep
<1>. DEFINE n == TableSize(capacity)
            C == Content(n, table)
            k == job[c].key
            i == Find(table, k)
<1>1. /\ capacity \in Nat /\ n \in Nat \ {0} /\ capacity < n
      /\ capacity + 1 < n \/ n <= 2
      /\ TableOK(n, table) /\ Filled(C, order) /\ Len(order) <= capacity
      /\ Len(order) \in Nat /\ Len(order) < n
      /\ Books(C, evicted, job) /\ JobsOK(job)
      /\ \E f \in 0..(n - 1) : ~InUse(table, f)
      /\ Queue = QueueOf(C, order)
  BY CacheIs
<1>2. capacity \in Capacities
  BY DEF CacheIInv
<1>3. job[c].op = "insert" /\ job' = [job EXCEPT ![c] = Idle] /\ capacity' = capacity
  BY DEF Insert
<1>4. k \in Key /\ k \in Nat
  BY <1>1, <1>3, CacheAssumption DEF JobsOK
<1>5. /\ JobsOK(job') /\ Holds' = Holds
      /\ \A d \in Client : job'[d].op = "hold" <=> job[d].op = "hold"
      /\ \A d \in Client : job'[d].op = "hold" => job'[d] = job[d]
  <2>1. job[c].op # "hold" /\ Idle \in Jobs /\ Idle.op = "idle"
    BY <1>3 DEF Idle, Jobs
  <2>. QED BY <1>1, <1>3, <2>1, SameHolds
<1>6. Books(C, evicted, job')
  BY <1>1, <1>5, SameHolders
<1>7. /\ i \in 0..(n - 1)
      /\ ~InUse(table, i) => \A j \in 0..(n - 1) : InUse(table, j) => table[j].key # k
  <2>. HIDE DEF n, k
  <2>. QED BY <1>1, <1>4, FindIs DEF n
<1>8. CASE InUse(table, i) /\ UNCHANGED <<table, order, evicted>>
  <2>1. CacheIInv'
    BY <1>1, <1>2, <1>3, <1>5, <1>6, <1>8 DEF CacheIInv
  <2>2. Queue' = Queue
    BY <1>8 DEF Queue
  <2>. QED BY <1>3, <1>5, <2>1, <2>2 DEF FifoStep
<1>9. CASE ~InUse(table, i) /\ \E v \in Value \ Allocated :
             Become(EvictToCapacity(
               State([table EXCEPT ![i] = [key |-> k, val |-> v, pins |-> 0]],
                     Append(order, k)), capacity))
  <2>1. PICK v \in Value \ Allocated :
             Become(EvictToCapacity(
               State([table EXCEPT ![i] = [key |-> k, val |-> v, pins |-> 0]],
                     Append(order, k)), capacity))
    BY <1>9
  <2>. DEFINE e == [key |-> k, val |-> v, pins |-> 0]
              s == State([table EXCEPT ![i] = e], Append(order, k))
              u == EvictToCapacity(s, capacity)
  <2>2. table' = u.t /\ order' = u.order /\ evicted' = u.evicted
    BY <2>1 DEF Become
  <2>3. /\ e \in Entry /\ e # Free /\ e.key = k /\ e.val = v /\ e.pins = 0
        /\ v \in Value /\ v # NoValue
    BY <1>4, CacheAssumption DEF Entry, Free
  <2>. HIDE DEF e
  <2>4. \A f \in C : f.key # k
    <3>1. \A f \in C : \E j \in 0..(n - 1) : table[j] = f /\ InUse(table, j)
      BY <1>1, ContentIs
    <3>. HIDE DEF C, n, k
    <3>. QED BY <1>7, <1>9, <3>1
  <2>5. [table EXCEPT ![i] = e] = Put(table, e)
    <3>1. SlotsOf(table, k) = {}
      <4>1. DOMAIN table = 0..(n - 1)
        BY <1>1 DEF TableOK
      <4>. QED BY <1>7, <1>9, <4>1 DEF SlotsOf
    <3>2. FreeSlots(table) \cup SlotsOf(table, k) = FreeSlots(table)
      BY <3>1
    <3>3. i = Probe(table, k, FreeSlots(table))
      BY <3>2 DEF Find
    <3>. QED BY <2>3, <3>3 DEF Put
  <2>6. TableOK(n, Put(table, e)) /\ Content(n, Put(table, e)) = C \cup {e}
    <3>1. \A j \in 0..(n - 1) : InUse(table, j) => table[j].key # e.key
      BY <1>7, <1>9, <2>3
    <3>. HIDE DEF n
    <3>. QED BY <1>1, <2>3, <3>1, PutIs DEF n
  <2>7. /\ Filled(C \cup {e}, Append(order, k))
        /\ QueueOf(C \cup {e}, Append(order, k))
             = Append(QueueOf(C, order), [key |-> k, val |-> v])
    <3>. HIDE DEF C, k
    <3>1. /\ Filled(C \cup {e}, Append(order, e.key))
          /\ QueueOf(C \cup {e}, Append(order, e.key))
               = Append(QueueOf(C, order), [key |-> e.key, val |-> e.val])
      BY <1>1, <1>4, <2>3, <2>4, QueueGrows, ZenonT(60)
    <3>. QED BY <2>3, <3>1
  <2>8. (\A f \in C : f.val # v) /\ (\A j \in 1..Len(evicted) : evicted[j].val # v)
    <3>1. \A f \in C : f.val \in Values(table)
      <4>1. \A f \in C : \E j \in 0..(n - 1) : table[j] = f
        BY <1>1, ContentIs
      <4>2. DOMAIN table = 0..(n - 1) /\ \A f \in C : f.val # NoValue
        BY <1>1, CacheAssumption DEF TableOK, Filled
      <4>. QED BY <4>1, <4>2 DEF Values
    <3>2. DOMAIN evicted = 1..Len(evicted)
      BY <1>1, LenProperties DEF Books
    <3>. QED BY <3>1, <3>2 DEF Allocated
  <2>9. Books(C \cup {e}, evicted, job')
    <3>. HIDE DEF C
    <3>. QED BY <1>6, <2>3, <2>8, NewBooks
  <2>10. /\ s.t = Put(table, e) /\ s.order = Append(order, k) /\ s.evicted = evicted
         /\ Len(s.order) = Len(order) + 1
    <3>1. order \in Seq(Key) /\ Len(Append(order, k)) = Len(order) + 1
      BY <1>1, <1>4, AppendProperties DEF Filled
    <3>. QED BY <2>5, <3>1 DEF State
  <2>. HIDE DEF s, u
  <2>11. /\ TableOK(n, s.t) /\ Filled(Content(n, s.t), s.order)
         /\ Books(Content(n, s.t), s.evicted, job') /\ Content(n, s.t) = C \cup {e}
         /\ Len(s.order) < n \/ n <= 2
    <3>1. Len(s.order) < n \/ n <= 2
      <4>. HIDE DEF n
      <4>. QED BY <1>1, <2>10
    <3>. HIDE DEF n, C
    <3>. QED BY <2>6, <2>7, <2>9, <2>10, <3>1
  <2>. DEFINE l == IF Len(s.order) > capacity THEN Len(s.order) - capacity ELSE 0
  <2>12. /\ TableOK(n, u.t) /\ Filled(Content(n, u.t), u.order)
         /\ Books(Content(n, u.t), u.evicted, job')
         /\ Content(n, u.t) \subseteq C \cup {e}
         /\ Len(u.order) = Len(s.order) - l
         /\ \A j \in 1..(Len(s.order) - l) : u.order[j] = s.order[j + l]
    <3>. HIDE DEF n, C, l
    <3>. QED BY <1>1, <2>11, EvictToCapacityIs, ZenonT(60) DEF u, l, n
  <2>13. Len(u.order) <= capacity
    BY <1>1, <2>10, <2>12
  <2>14. CacheIInv' /\ Queue' = QueueOf(Content(n, u.t), u.order)
    BY <1>2, <1>3, <1>5, <2>2, <2>12, <2>13, CacheBecomes
  <2>15. QueueOf(Content(n, u.t), u.order)
           = Fifo!Trim(QueueOf(C \cup {e}, s.order), capacity)
    <3>. DEFINE D == Content(n, u.t)
                E == C \cup {e}
                o == s.order
                p == u.order
    <3>1. /\ Filled(E, o) /\ Filled(D, p) /\ D \subseteq E
          /\ Len(p) = Len(o) - l /\ \A j \in 1..(Len(o) - l) : p[j] = o[j + l]
      BY <2>11, <2>12
    <3>2. l = IF Len(o) > capacity THEN Len(o) - capacity ELSE 0
      OBVIOUS
    <3>. HIDE DEF D, E, o, p, l
    <3>3. QueueOf(D, p) = Fifo!Trim(QueueOf(E, o), capacity)
      BY <1>1, <3>1, <3>2, QueueTrims
    <3>. QED BY <3>3 DEF D, E, o, p
  <2>16. Queue' = Fifo!Trim(Append(Queue, [key |-> k, val |-> v]), capacity)
    BY <1>1, <2>7, <2>10, <2>14, <2>15
  <2>17. \A j \in DOMAIN Queue : Queue[j].val # v /\ Queue[j].key # k
    <3>. HIDE DEF C, k
    <3>1. /\ DOMAIN QueueOf(C, order) = 1..Len(order)
          /\ \A j \in 1..Len(order) :
                QueueOf(C, order)[j] = [key |-> order[j], val |-> ValueAt(C, order[j])]
          /\ \A f \in C : ValueAt(C, f.key) = f.val
      BY <1>1, QueueOfIs
    <3>2. \A j \in 1..Len(order) : \E f \in C : f.key = order[j]
      BY <1>1 DEF Filled
    <3>3. \A j \in 1..Len(order) : ValueAt(C, order[j]) # v /\ order[j] # k
      BY <2>4, <2>8, <3>1, <3>2
    <3>. QED BY <1>1, <3>1, <3>3
  <2>18. ASSUME NEW d \in Client PROVE Holds[d] # v
    <3>1. CASE job[d].op = "hold"
      <4>1. \/ \E f \in C : f.key = job[d].key /\ f.val = job[d].val
            \/ \E j \in 1..Len(evicted) : /\ evicted[j].key = job[d].key
                                          /\ evicted[j].val = job[d].val
        BY <1>1, <3>1 DEF Books
      <4>2. job[d].val # v
        <5>. HIDE DEF C
        <5>. QED BY <2>8, <4>1
      <4>. QED BY <3>1, <4>2 DEF Holds
    <3>2. CASE job[d].op # "hold"
      BY <2>3, <3>2 DEF Holds
    <3>. QED BY <3>1, <3>2
  <2>19. FifoStep
    BY <1>3, <1>4, <1>5, <2>3, <2>16, <2>17, <2>18, FifoInserts
  <2>. QED BY <2>14, <2>19
<1>. QED BY <1>8, <1>9 DEF Insert

(* The pins of an entry in the table follow its holders.                      *)
LEMMA PinStep ==
  ASSUME CacheIInv, NEW i \in 0..(TableSize(capacity) - 1), InUse(table, i), NEW p \in Nat,
         table' = [table EXCEPT ![i].pins = p], order' = order, evicted' = evicted,
         capacity' = capacity, JobsOK(job'),
         HoldersOf(table[i].val, p), HoldersComeTo(table[i])
  PROVE  CacheIInv' /\ Queue' = Queue
<1>. DEFINE n == TableSize(capacity)
            C == Content(n, table)
            e == table[i]
            f == [key |-> e.key, val |-> e.val, pins |-> p]
            D == (C \ {e}) \cup {f}
            t == [table EXCEPT ![i].pins = p]
<1>1. /\ capacity \in Nat /\ n \in Nat \ {0}
      /\ TableOK(n, table) /\ Filled(C, order) /\ Len(order) <= capacity
      /\ Books(C, evicted, job)
      /\ Queue = QueueOf(C, order)
  BY CacheIs
<1>2. capacity \in Capacities
  BY DEF CacheIInv
<1>3. e \in C /\ e.val \in Value /\ e.val # NoValue
  <2>1. e \in C
    BY DEF Content, InUse
  <2>. HIDE DEF C, e
  <2>. QED BY <1>1, <2>1, CacheAssumption DEF Filled
<1>4. /\ f \in Entry /\ f # Free /\ f.key = e.key /\ f.val = e.val /\ f.pins = p
      /\ [e EXCEPT !.pins = p] = f
  <2>1. e \in Entry
    BY <1>1, <1>3 DEF Filled
  <2>. HIDE DEF e
  <2>. QED BY <1>3, <2>1 DEF Entry, Free
<1>5. t = [table EXCEPT ![i] = f]
  BY <1>4
<1>. HIDE DEF f
<1>6. TableOK(n, t) /\ Content(n, t) = D
  <2>1. t = Replaced(table, i, f)
    BY <1>5 DEF Replaced
  <2>. HIDE DEF n, t
  <2>. QED BY <1>1, <1>4, <2>1, PinsChange DEF n
<1>7. Filled(D, order)
  <2>. HIDE DEF C, e
  <2>. QED BY <1>1, <1>3, <1>4, PinsFilled
<1>8. Books(D, evicted, job')
  <2>1. HoldersOf(e.val, f.pins) /\ HoldersComeTo(e)
    BY <1>4
  <2>. HIDE DEF C, e
  <2>. QED BY <1>1, <1>3, <1>4, <2>1, PinsBooks
<1>9. CacheIInv' /\ Queue' = QueueOf(D, order)
  <2>1. table' = t
    OBVIOUS
  <2>. HIDE DEF t, D
  <2>2. /\ capacity' \in Capacities /\ TableOK(TableSize(capacity'), table')
        /\ Filled(Content(TableSize(capacity'), table'), order') /\ Len(order') <= capacity'
        /\ Books(Content(TableSize(capacity'), table'), evicted', job')
        /\ Content(TableSize(capacity'), table') = D
    BY <1>1, <1>2, <1>6, <1>7, <1>8, <2>1
  <2>. QED BY <2>2, CacheBecomes
<1>10. QueueOf(D, order) = QueueOf(C, order)
  <2>1. \A g \in D : \E h \in C : h.key = g.key /\ h.val = g.val
    <3>. HIDE DEF C, e
    <3>. QED BY <1>3, <1>4
  <2>. HIDE DEF C, D
  <2>. QED BY <1>1, <1>7, <2>1, SameQueue
<1>. QED BY <1>1, <1>9, <1>10

(* A client that finds its key gets hold of the value.                        *)
LEMMA LookupAndPinKeeps ==
  ASSUME CacheIInv, NEW c \in Client, LookupAndPin(c)
  PROVE  CacheIInv' /\ FifoStep
<1>. DEFINE n == TableSize(capacity)
            C == Content(n, table)
            k == job[c].key
            i == Find(table, k)
<1>1. /\ n \in Nat \ {0}
      /\ TableOK(n, table) /\ Filled(C, order) /\ Len(order) <= capacity
      /\ Books(C, evicted, job) /\ JobsOK(job)
      /\ \E f \in 0..(n - 1) : ~InUse(table, f)
      /\ Queue = QueueOf(C, order)
  BY CacheIs
<1>2. /\ job[c].op = "lookup" /\ capacity' = capacity /\ order' = order /\ evicted' = evicted
      /\ job \in [Client -> Jobs]
  BY <1>1 DEF LookupAndPin, JobsOK
<1>3. k \in Key /\ k \in Nat
  BY <1>1, <1>2, CacheAssumption DEF JobsOK
<1>4. i \in 0..(n - 1) /\ (InUse(table, i) => table[i].key = k)
  <2>. HIDE DEF n, k
  <2>. QED BY <1>1, <1>3, FindIs DEF n
<1>5. CASE ~InUse(table, i)
  <2>1. job' = [job EXCEPT ![c] = Idle] /\ table' = table
    BY <1>5 DEF LookupAndPin
  <2>2. /\ JobsOK(job') /\ Holds' = Holds
        /\ \A d \in Client : job'[d].op = "hold" <=> job[d].op = "hold"
        /\ \A d \in Client : job'[d].op = "hold" => job'[d] = job[d]
    <3>1. job[c].op # "hold" /\ Idle \in Jobs /\ Idle.op = "idle"
      BY <1>2 DEF Idle, Jobs
    <3>. QED BY <1>1, <2>1, <3>1, SameHolds
  <2>3. Books(C, evicted, job')
    BY <1>1, <2>2, SameHolders
  <2>4. CacheIInv' /\ capacity \in Capacities
    BY <1>1, <1>2, <2>1, <2>2, <2>3 DEF CacheIInv
  <2>5. Queue' = Queue
    BY <1>2, <2>1 DEF Queue
  <2>. QED BY <1>2, <2>2, <2>4, <2>5 DEF FifoStep
<1>6. CASE InUse(table, i)
  <2>. DEFINE w == table[i].val
              p == table[i].pins + 1
  <2>1. /\ table' = [table EXCEPT ![i].pins = @ + 1]
        /\ job' = [job EXCEPT ![c].op = "hold", ![c].val = w]
    BY <1>6 DEF LookupAndPin
  <2>2. table[i] \in C /\ table[i] \in Entry /\ w \in Value /\ p \in Nat
    <3>1. table[i] \in C
      BY <1>4, <1>6 DEF Content, InUse
    <3>. HIDE DEF C, i
    <3>. QED BY <1>1, <3>1 DEF Filled, Entry
  <2>. HIDE DEF i
  <2>3. table' = [table EXCEPT ![i].pins = p]
    BY <2>1
  <2>. HIDE DEF w, p
  <2>4. /\ job' \in [Client -> Jobs] /\ job'[c].op = "hold" /\ job'[c].val = w
        /\ job'[c].key = k /\ \A d \in Client \ {c} : job'[d] = job[d]
    BY <1>2, <2>1, <2>2 DEF Jobs
  <2>5. JobsOK(job')
    BY <1>1, <2>4 DEF JobsOK
  <2>6. \A v : Cardinality(HoldersIn(job', v))
                 = IF v = w THEN p ELSE Cardinality(HoldersIn(job, v))
    <3>1. \A v : Cardinality(HoldersIn(job', v))
                   = IF v = job'[c].val THEN Cardinality(HoldersIn(job, v)) + 1
                                        ELSE Cardinality(HoldersIn(job, v))
      <4>1. job[c].op # "hold"
        BY <1>2
      <4>. QED BY <2>4, <4>1, HolderComes
    <3>2. Cardinality(HoldersIn(job, w)) + 1 = p
      BY <1>1, <2>2 DEF Books, w, p
    <3>. QED BY <2>4, <3>1, <3>2
  <2>7. HoldersComeTo(table[i])
    <3>1. table[i].key = k /\ table[i].val = w
      BY <1>4, <1>6 DEF i, w
    <3>. HIDE DEF k
    <3>2. ASSUME NEW d \in Client, job'[d].op = "hold"
          PROVE  HeldBefore(d) \/ (job'[d].key = table[i].key /\ job'[d].val = table[i].val)
      <4>1. CASE d = c
        BY <2>4, <3>1, <4>1
      <4>2. CASE d # c
        BY <2>4, <3>2, <4>2 DEF HeldBefore
      <4>. QED BY <4>1, <4>2
    <3>. QED BY <3>2 DEF HoldersComeTo
  <2>8. CacheIInv' /\ Queue' = Queue
    <3>1. i \in 0..(TableSize(capacity) - 1) /\ InUse(table, i)
      BY <1>4, <1>6
    <3>2. HoldersOf(table[i].val, p)
      BY <2>6 DEF w, HoldersOf
    <3>3. p \in Nat
      BY <2>2
    <3>. QED BY <1>2, <2>3, <2>5, <2>7, <3>1, <3>2, <3>3, PinStep
  <2>9. Holds[c] = NoValue /\ Holds' = [Holds EXCEPT ![c] = w]
    BY <1>2, <2>4 DEF Holds
  <2>10. \E j \in DOMAIN Queue : Queue[j].key = k /\ Queue[j].val = w
    <3>. HIDE DEF C, k
    <3>1. /\ DOMAIN QueueOf(C, order) = 1..Len(order)
          /\ \A j \in 1..Len(order) :
                QueueOf(C, order)[j] = [key |-> order[j], val |-> ValueAt(C, order[j])]
          /\ \A f \in C : ValueAt(C, f.key) = f.val
      BY <1>1, QueueOfIs
    <3>2. PICK j \in 1..Len(order) : order[j] = table[i].key
      BY <1>1, <2>2 DEF Filled
    <3>3. ValueAt(C, order[j]) = w
      BY <2>2, <3>1, <3>2 DEF w
    <3>. QED BY <1>1, <1>4, <1>6, <3>1, <3>2, <3>3 DEF i, k
  <2>11. PICK j \in DOMAIN Queue : Queue[j].key = k /\ Queue[j].val = w
    BY <2>10
  <2>12. FifoStep
    <3>1. Holds' = [Holds EXCEPT ![c] = Queue[j].val]
      BY <2>9, <2>11
    <3>. QED BY <1>2, <1>3, <2>8, <2>9, <2>11, <3>1, FifoGets
  <2>. QED BY <2>8, <2>12
<1>. QED BY <1>5, <1>6

(* A client gives its pin back, to the table or to an evicted entry.          *)
LEMMA UnpinKeeps ==
  ASSUME CacheIInv, NEW c \in Client, Unpin(c)
  PROVE  CacheIInv' /\ FifoStep
<1>. DEFINE n == TableSize(capacity)
            C == Content(n, table)
            k == job[c].key
            w == job[c].val
            out == {i \in DOMAIN evicted : evicted[i].key = k /\ evicted[i].val = w}
<1>1. /\ n \in Nat \ {0} /\ capacity \in Nat
      /\ TableOK(n, table) /\ Filled(C, order) /\ Len(order) <= capacity
      /\ Books(C, evicted, job) /\ JobsOK(job)
      /\ \E f \in 0..(n - 1) : ~InUse(table, f)
      /\ Queue = QueueOf(C, order)
  BY CacheIs
<1>2. /\ job[c].op = "hold" /\ capacity' = capacity /\ order' = order
      /\ job' = [job EXCEPT ![c] = Idle] /\ job \in [Client -> Jobs]
      /\ capacity \in Capacities
  BY <1>1 DEF Unpin, JobsOK, CacheIInv
<1>3. DOMAIN evicted = 1..Len(evicted) /\ evicted \in Seq(Entry) /\ Len(evicted) \in Nat
  BY <1>1, LenProperties DEF Books
<1>4. /\ job' \in [Client -> Jobs] /\ job'[c].op = "idle"
      /\ \A d \in Client \ {c} : job'[d] = job[d]
  BY <1>2 DEF Idle, Jobs
<1>5. JobsOK(job')
  BY <1>1, <1>4 DEF JobsOK
<1>6. HoldersStay
  BY <1>4 DEF HoldersStay, HeldBefore
<1>7. /\ Cardinality(HoldersIn(job, w)) > 0
      /\ HoldersOf(w, Cardinality(HoldersIn(job, w)) - 1)
  <2>1. \A v : /\ Cardinality(HoldersIn(job', v))
                     = IF v = job[c].val THEN Cardinality(HoldersIn(job, v)) - 1
                                         ELSE Cardinality(HoldersIn(job, v))
               /\ v = job[c].val => Cardinality(HoldersIn(job, v)) > 0
    <3>1. job[c].op = "hold" /\ job'[c].op # "hold"
      BY <1>2, <1>4
    <3>. QED BY <1>4, <3>1, HolderLeaves
  <2>. QED BY <2>1 DEF HoldersOf
<1>8. Holds' = [Holds EXCEPT ![c] = NoValue]
  BY <1>2, <1>4 DEF Holds
<1>9. CASE out # {}
  <2>. DEFINE i == Min(out)
              p == evicted[i].pins - 1
  <2>1. i \in out
    <3>1. out \in SUBSET Nat
      BY <1>3
    <3>. HIDE DEF out
    <3>. QED BY <1>9, <3>1, MinIs
  <2>2. /\ evicted' = IF evicted[i].pins = 1 THEN RemoveAt(evicted, i)
                      ELSE [evicted EXCEPT ![i].pins = @ - 1]
        /\ table' = table
    BY <1>9 DEF Unpin
  <2>. HIDE DEF i, out
  <2>3. i \in 1..Len(evicted) /\ evicted[i].key = k /\ evicted[i].val = w
    BY <1>3, <2>1 DEF out
  <2>4. /\ evicted[i].pins = Cardinality(HoldersIn(job, w)) /\ evicted[i].pins \in Nat
        /\ evicted[i].pins > 0
    <3>1. evicted[i] \in Entry
      BY <1>3, <2>3, ElementOfSeq
    <3>. QED BY <1>1, <2>3, <3>1 DEF Books, Entry
  <2>5. HoldersOf(evicted[i].val, p)
    BY <1>7, <2>3, <2>4
  <2>6. Books(C, evicted', job')
    <3>1. CASE evicted[i].pins = 1
      <4>1. evicted' = RemoveAt(evicted, i) /\ p = 0 /\ \A e \in C : e.val \in Value
        BY <1>1, <2>2, <3>1 DEF Filled
      <4>. HIDE DEF C
      <4>. QED BY <1>1, <1>6, <2>3, <2>5, <4>1, LastPinBooks
    <3>2. CASE evicted[i].pins # 1
      <4>1. p \in Nat /\ p > 0
        BY <2>4, <3>2
      <4>2. evicted' = [evicted EXCEPT ![i].pins = p]
        BY <2>2, <3>2
      <4>. HIDE DEF C, p
      <4>3. Books(C, [evicted EXCEPT ![i].pins = p], job')
        BY <1>1, <1>6, <2>3, <2>5, <4>1, PinLeavesBooks
      <4>. QED BY <4>2, <4>3
    <3>. QED BY <3>1, <3>2
  <2>7. CacheIInv'
    BY <1>1, <1>2, <1>5, <2>2, <2>6 DEF CacheIInv
  <2>8. Queue' = Queue
    BY <1>2, <2>2 DEF Queue
  <2>. QED BY <1>2, <1>8, <2>7, <2>8, FifoLetsGo
<1>10. CASE out = {}
  <2>. DEFINE i == Probe(table, k, FreeSlots(table) \cup
                           {x \in SlotsOf(table, k) : table[x].val = w})
              p == table[i].pins - 1
  <2>1. table' = [table EXCEPT ![i].pins = @ - 1] /\ evicted' = evicted
    BY <1>10 DEF Unpin
  <2>2. PICK e \in C : e.key = k /\ e.val = w
    <3>1. ~ \E j \in 1..Len(evicted) : evicted[j].key = k /\ evicted[j].val = w
      BY <1>3, <1>10
    <3>. QED BY <1>1, <1>2, <3>1 DEF Books
  <2>3. {x \in SlotsOf(table, k) : table[x].val = w} = SlotsOf(table, k)
    <3>1. ASSUME NEW x \in SlotsOf(table, k) PROVE table[x].val = w
      <4>1. x \in 0..(n - 1) /\ InUse(table, x) /\ table[x].key = k
        BY <1>1 DEF SlotsOf, TableOK
      <4>2. table[x] \in C
        BY <1>1, <4>1, ContentIs
      <4>. QED BY <1>1, <2>2, <4>1, <4>2 DEF Filled
    <3>. QED BY <3>1
  <2>4. i = Find(table, k)
    BY <2>3 DEF Find
  <2>5. i \in 0..(n - 1) /\ InUse(table, i) /\ table[i] = e
    <3>. HIDE DEF i, n
    <3>1. /\ Find(table, e.key) \in 0..(n - 1) /\ InUse(table, Find(table, e.key))
          /\ table[Find(table, e.key)] = e
      BY <1>1, FindsEntry DEF n
    <3>. QED BY <2>2, <2>4, <3>1
  <2>. HIDE DEF i
  <2>6. /\ table[i].pins = Cardinality(HoldersIn(job, w)) /\ table[i].val = w
        /\ p \in Nat
    <3>1. e \in Entry /\ e.pins = Cardinality(HoldersIn(job, w))
      BY <1>1, <2>2 DEF Books, Filled
    <3>. QED BY <1>7, <2>2, <2>5, <3>1 DEF Entry
  <2>7. HoldersOf(table[i].val, p)
    BY <1>7, <2>6
  <2>8. HoldersComeTo(table[i])
    BY <1>6 DEF HoldersStay, HoldersComeTo, HeldBefore
  <2>9. table' = [table EXCEPT ![i].pins = p]
    BY <2>1
  <2>. HIDE DEF p
  <2>10. CacheIInv' /\ Queue' = Queue
    <3>1. i \in 0..(TableSize(capacity) - 1) /\ InUse(table, i)
      BY <2>5
    <3>. QED BY <1>2, <1>5, <2>1, <2>6, <2>7, <2>8, <2>9, <3>1, PinStep
  <2>. QED BY <1>2, <1>8, <2>10, FifoLetsGo
<1>. QED BY <1>9, <1>10

(* What leaves a smaller queue, of the same clients.                          *)
LEMMA EvictionLeaves ==
  ASSUME CacheIInv, NEW m \in Nat
  PROVE  LET n == TableSize(capacity)
             u == EvictToCapacity(State(table, order), m)
         IN /\ n \in Nat \ {0} /\ TableOK(n, u.t) /\ Filled(Content(n, u.t), u.order)
            /\ Books(Content(n, u.t), u.evicted, job)
            /\ Len(u.order) <= m /\ Len(u.order) <= capacity
            /\ QueueOf(Content(n, u.t), u.order) = Fifo!Trim(Queue, m)
<1>. DEFINE n == TableSize(capacity)
            C == Content(n, table)
            s == State(table, order)
            u == EvictToCapacity(s, m)
            l == IF Len(order) > m THEN Len(order) - m ELSE 0
<1>1. /\ capacity \in Nat /\ n \in Nat \ {0}
      /\ TableOK(n, table) /\ Filled(C, order) /\ Len(order) <= capacity
      /\ Len(order) \in Nat /\ Len(order) < n /\ Books(C, evicted, job)
      /\ Queue = QueueOf(C, order)
  BY CacheIs
<1>2. s.t = table /\ s.order = order /\ s.evicted = evicted
  BY DEF State
<1>. HIDE DEF s, u, n
<1>3. /\ TableOK(n, u.t) /\ Filled(Content(n, u.t), u.order)
      /\ Books(Content(n, u.t), u.evicted, job)
      /\ Content(n, u.t) \subseteq C
      /\ Len(u.order) = Len(order) - l
      /\ \A j \in 1..(Len(order) - l) : u.order[j] = order[j + l]
  <2>1. /\ TableOK(n, s.t) /\ Filled(Content(n, s.t), s.order)
        /\ Books(Content(n, s.t), s.evicted, job)
        /\ Len(s.order) < n \/ n <= 2
    BY <1>1, <1>2
  <2>2. l = IF Len(s.order) > m THEN Len(s.order) - m ELSE 0
    BY <1>2
  <2>. HIDE DEF l
  <2>3. /\ TableOK(n, u.t) /\ Filled(Content(n, u.t), u.order)
        /\ Books(Content(n, u.t), u.evicted, job)
        /\ Content(n, u.t) \subseteq Content(n, s.t)
        /\ Len(u.order) = Len(s.order) - l
        /\ \A j \in 1..(Len(s.order) - l) : u.order[j] = s.order[j + l]
    BY <1>1, <1>2, <2>2, EvictToCapacityIs, ZenonT(60) DEF u
  <2>. QED BY <1>2, <2>3
<1>4. Len(u.order) <= m /\ Len(u.order) <= capacity
  BY <1>1, <1>3
<1>5. QueueOf(Content(n, u.t), u.order) = Fifo!Trim(QueueOf(C, order), m)
  <2>. DEFINE D == Content(n, u.t)
              p == u.order
  <2>1. /\ Filled(C, order) /\ Filled(D, p) /\ D \subseteq C
        /\ Len(p) = Len(order) - l /\ \A j \in 1..(Len(order) - l) : p[j] = order[j + l]
    BY <1>1, <1>3
  <2>2. l = IF Len(order) > m THEN Len(order) - m ELSE 0
    OBVIOUS
  <2>. HIDE DEF D, C, p, l
  <2>3. QueueOf(D, p) = Fifo!Trim(QueueOf(C, order), m)
    BY <2>1, <2>2, QueueTrims
  <2>. QED BY <2>3 DEF D, p
<1>. QED BY <1>1, <1>3, <1>4, <1>5 DEF n, u, s

(* All entries go, the oldest first.                                          *)
LEMMA ClearKeeps ==
  ASSUME CacheIInv, Clear
  PROVE  CacheIInv' /\ FifoStep
<1>. DEFINE n == TableSize(capacity)
            u == EvictToCapacity(State(table, order), 0)
<1>1. /\ capacity' = capacity /\ job' = job
      /\ table' = u.t /\ order' = u.order /\ evicted' = u.evicted
  BY DEF Clear, Become
<1>2. capacity \in Capacities /\ JobsOK(job)
  BY DEF CacheIInv
<1>3. /\ n \in Nat \ {0} /\ TableOK(n, u.t) /\ Filled(Content(n, u.t), u.order)
      /\ Books(Content(n, u.t), u.evicted, job)
      /\ Len(u.order) <= 0 /\ Len(u.order) <= capacity
  BY EvictionLeaves
<1>. HIDE DEF u
<1>4. CacheIInv' /\ Queue' = QueueOf(Content(n, u.t), u.order)
  BY <1>1, <1>2, <1>3, CacheBecomes
<1>5. Queue' = << >>
  <2>. HIDE DEF n
  <2>1. Len(u.order) = 0
    BY <1>3, LenProperties DEF Filled
  <2>2. /\ QueueOf(Content(n, u.t), u.order) \in Seq(Items)
        /\ Len(QueueOf(Content(n, u.t), u.order)) = 0
    BY <1>3, <2>1, QueueOfIs
  <2>. QED BY <1>4, <2>2, EmptySeq DEF n
<1>6. Holds' = Holds
  BY <1>1 DEF Holds
<1>. QED BY <1>1, <1>4, <1>5, <1>6, FifoClears

(* The oldest entries go, and the others are hashed anew.                     *)
LEMMA SetCapacityKeeps ==
  ASSUME CacheIInv, SetCapacity
  PROVE  CacheIInv' /\ FifoStep
<1>1. PICK m \in Capacities :
        LET s == EvictToCapacity(State(table, order), m)
        IN /\ capacity' = m
           /\ table' = Rehash(s.t, m) /\ order' = s.order /\ evicted' = s.evicted
  BY DEF SetCapacity
<1>. DEFINE n == TableSize(capacity)
            u == EvictToCapacity(State(table, order), m)
<1>2. /\ capacity' = m /\ job' = job /\ m \in Nat
      /\ table' = Rehash(u.t, m) /\ order' = u.order /\ evicted' = u.evicted
  BY <1>1, CacheAssumption DEF SetCapacity
<1>3. JobsOK(job)
  BY DEF CacheIInv
<1>4. /\ n \in Nat \ {0} /\ TableOK(n, u.t) /\ Filled(Content(n, u.t), u.order)
      /\ Books(Content(n, u.t), u.evicted, job)
      /\ Len(u.order) <= m
      /\ QueueOf(Content(n, u.t), u.order) = Fifo!Trim(Queue, m)
  BY <1>2, EvictionLeaves
<1>. HIDE DEF u, n
<1>5. /\ TableOK(TableSize(m), Rehash(u.t, m))
      /\ Content(TableSize(m), Rehash(u.t, m)) = Content(n, u.t)
  BY <1>2, <1>4, RehashIs
<1>6. CacheIInv' /\ Queue' = QueueOf(Content(n, u.t), u.order)
  BY <1>2, <1>3, <1>4, <1>5, CacheBecomes
<1>7. Holds' = Holds
  BY <1>2 DEF Holds
<1>. QED BY <1>2, <1>4, <1>6, <1>7, FifoSets

(* Every step keeps the invariant, and is one of PinnedFifo or none.          *)
LEMMA StepsKeep ==
  ASSUME CacheIInv, [Next]_vars
  PROVE  CacheIInv' /\ FifoStep
<1>1. CASE UNCHANGED vars
  <2>1. /\ capacity' = capacity /\ table' = table /\ order' = order
        /\ evicted' = evicted /\ job' = job
    BY <1>1 DEF vars, cache
  <2>2. CacheIInv'
    BY <2>1 DEF CacheIInv
  <2>3. Queue' = Queue /\ Holds' = Holds
    BY <2>1 DEF Queue, Holds
  <2>. QED BY <2>1, <2>2, <2>3 DEF FifoStep
<1>2. CASE Next
  <2>1. ASSUME NEW c \in Client, Insert(c) PROVE CacheIInv' /\ FifoStep
    BY <2>1, InsertKeeps
  <2>2. ASSUME NEW c \in Client, LookupAndPin(c) PROVE CacheIInv' /\ FifoStep
    BY <2>2, LookupAndPinKeeps
  <2>3. ASSUME NEW c \in Client, Unpin(c) PROVE CacheIInv' /\ FifoStep
    BY <2>3, UnpinKeeps
  <2>4. ASSUME NEW c \in Client, NEW k \in Key, Call(c, "insert", k) \/ Call(c, "lookup", k)
        PROVE  CacheIInv' /\ FifoStep
    BY <2>4, CallKeeps
  <2>5. CASE SetCapacity
    BY <2>5, SetCapacityKeeps
  <2>6. CASE Clear
    BY <2>6, ClearKeeps
  <2>. QED BY <1>2, <2>1, <2>2, <2>3, <2>4, <2>5, <2>6 DEF Next
<1>. QED BY <1>1, <1>2

(* The invariant of the hash table, its queue and its pins.                   *)
LEMMA CacheInvariant == Spec => []CacheIInv
BY InitKeeps, StepsKeep, PTL DEF Spec

(* Between two operations a probe ends, and a pin is known for each holder.   *)
LEMMA CacheIInvImplies == CacheIInv => CacheInv
<1>. SUFFICES ASSUME CacheIInv PROVE CacheInv
  OBVIOUS
<1>. DEFINE n == TableSize(capacity)
            C == Content(n, table)
<1>1. /\ n \in Nat \ {0} /\ TableOK(n, table) /\ Filled(C, order)
      /\ Books(C, evicted, job) /\ JobsOK(job)
      /\ \E f \in 0..(n - 1) : ~InUse(table, f)
  BY CacheIs
<1>2. /\ capacity \in Capacities /\ order \in Seq(Key) /\ evicted \in Seq(Entry)
      /\ table \in [0..(n - 1) -> Entry] /\ DOMAIN evicted = 1..Len(evicted)
  BY <1>1, LenProperties DEF CacheIInv, Filled, Books, TableOK
<1>3. TypeOK
  <2>1. \E i \in DOMAIN table : table[i] = Free
    BY <1>1, <1>2 DEF InUse
  <2>2. job \in [Client -> [op : {"idle", "insert", "lookup", "hold"},
                            key : Nat, val : Value \cup {NoValue}]]
    BY <1>1 DEF JobsOK, Jobs
  <2>. QED BY <1>2, <2>1, <2>2 DEF TypeOK
<1>4. \A v : Holders(v) = HoldersIn(job, v)
  BY DEF Holders, HoldersIn
<1>5. \A i \in DOMAIN table : table[i] # Free => table[i] \in C
  BY <1>2 DEF Content
<1>6. ASSUME NEW c \in Client, job[c].op = "hold" PROVE job[c].val \in Allocated
  <2>1. CASE \E e \in C : e.key = job[c].key /\ e.val = job[c].val
    <3>1. PICK e \in C : e.val = job[c].val
      BY <2>1
    <3>2. e.val # NoValue /\ \E i \in DOMAIN table : table[i] = e
      <4>1. e.val \in Value /\ \E i \in 0..(n - 1) : table[i] = e
        BY <1>1, ContentIs DEF Filled
      <4>. QED BY <1>2, <4>1, CacheAssumption
    <3>. QED BY <3>1, <3>2 DEF Allocated, Values
  <2>2. CASE \E i \in 1..Len(evicted) : evicted[i].key = job[c].key /\ evicted[i].val = job[c].val
    BY <1>2, <2>2 DEF Allocated
  <2>. QED BY <1>1, <1>6, <2>1, <2>2 DEF Books
<1>7. PinsCounted
  <2>. HIDE DEF C
  <2>1. \A i \in DOMAIN table :
          table[i] # Free => table[i].pins = Cardinality(Holders(table[i].val))
    BY <1>1, <1>4, <1>5 DEF Books
  <2>2. \A i \in DOMAIN evicted : /\ evicted[i].pins = Cardinality(Holders(evicted[i].val))
                                  /\ evicted[i].pins > 0
    BY <1>1, <1>2, <1>4 DEF Books
  <2>. QED BY <1>6, <2>1, <2>2 DEF PinsCounted
<1>. QED BY <1>3, <1>7 DEF CacheInv

(* Every probe ends, nothing dangles and nothing leaks: whatever is inserted, *)
(* pinned, evicted, rehashed and cleared in any order, with any hashes.       *)
THEOREM NothingDangles == Spec => []CacheInv
BY CacheInvariant, CacheIInvImplies, PTL

(* The hash table is the queue that PinnedFifo promises: eviction leaves      *)
(* every other key in reach of its probe, and takes the oldest.               *)
THEOREM TableIsAQueue == Spec => IsPinnedFifo
<1>1. Init => Fifo!Init
  <2>. SUFFICES ASSUME Init PROVE Fifo!Init
    OBVIOUS
  <2>1. Queue = << >> /\ Holds = [c \in Client |-> NoValue] /\ capacity \in Capacities
    BY InitKeeps DEF Init
  <2>. QED BY <2>1 DEF Fifo!Init, Queue, Holds
<1>2. CacheIInv /\ [Next]_vars => [Fifo!Next]_<<Queue, capacity, Holds>>
  BY StepsKeep DEF FifoStep
<1>. QED BY <1>1, <1>2, CacheInvariant, PTL
         DEF Spec, IsPinnedFifo, Fifo!Spec, Queue, Holds
================================================================================
