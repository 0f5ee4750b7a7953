------------------------------ MODULE PinnedFifo ------------------------------
(***************************************************************************)
(* What HashKeyedCache promises: a bounded queue of keyed values, the      *)
(* oldest of which leaves first; a lookup finds a key exactly while it is  *)
(* in the queue and gets hold of its value, which nobody frees before it   *)
(* is let go of.                                                           *)
(***************************************************************************)
EXTENDS Integers, Sequences

CONSTANTS Key, Value, NoValue, Client, Capacities

VARIABLES
  fifo,      \* the entries [key, val], oldest first
  capacity,
  hold       \* the value each client holds, or NoValue

\* The n youngest entries.
Trim(s, n) == IF Len(s) > n THEN SubSeq(s, Len(s) - n + 1, Len(s)) ELSE s
KeyIn(s, k) == \E i \in DOMAIN s : s[i].key = k
Live == {fifo[i].val : i \in DOMAIN fifo} \cup {hold[c] : c \in Client}

Init == fifo = << >> /\ capacity \in Capacities /\ hold = [c \in Client |-> NoValue]

\* An existing key is not replaced.
Insert(k, v) ==
  /\ v \notin Live
  /\ ~KeyIn(fifo, k)
  /\ fifo' = Trim(Append(fifo, [key |-> k, val |-> v]), capacity)
  /\ UNCHANGED <<capacity, hold>>
Get(c, k) ==
  /\ hold[c] = NoValue
  /\ \E i \in DOMAIN fifo : /\ fifo[i].key = k
                            /\ hold' = [hold EXCEPT ![c] = fifo[i].val]
  /\ UNCHANGED <<fifo, capacity>>
LetGo(c) ==
  /\ hold' = [hold EXCEPT ![c] = NoValue]
  /\ UNCHANGED <<fifo, capacity>>
SetCapacity(n) ==
  /\ fifo' = Trim(fifo, n) /\ capacity' = n
  /\ UNCHANGED hold
Clear == fifo' = << >> /\ UNCHANGED <<capacity, hold>>

Next == \/ \E k \in Key, v \in Value : Insert(k, v)
        \/ \E c \in Client : LetGo(c) \/ \E k \in Key : Get(c, k)
        \/ \E n \in Capacities : SetCapacity(n)
        \/ Clear
Spec == Init /\ [][Next]_<<fifo, capacity, hold>>
===============================================================================
