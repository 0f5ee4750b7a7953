--------------------------------- MODULE Demux ---------------------------------
(***************************************************************************)
(* The demultiplexing network (neural/backends/network_demux.cc).  A       *)
(* computation splits its batch into parts, queues each for one device and *)
(* sleeps; the devices' threads compute parts, and who finishes the last   *)
(* one wakes the caller, which then destroys the computation.  A step is   *)
(* what holds no mutex at its ends, with one exception: who has tested the *)
(* condition to wait for and does not sleep yet is "drowsy", and holds the *)
(* mutex.                                                                  *)
(***************************************************************************)
EXTENDS Integers, Sequences, FiniteSets

CONSTANTS
  Caller,     \* threads that compute batches, each with a computation of its own
  Thread,     \* DemuxingBackend::threads_ of all devices
  DeviceOf,   \* the device whose queue a thread serves
  Devices,    \* backends_.size()
  Step,       \* batch_step_
  BatchSize,  \* the sizes of batches each caller tries, but 0
  Owner       \* the thread that destroys the network

ASSUME DemuxAssumption ==
  /\ Devices \in Nat \ {0} /\ Step \in Nat \ {0} /\ BatchSize \in [Caller -> SUBSET (Nat \ {0})]
  /\ DeviceOf \in [Thread -> 0..(Devices - 1)]
  /\ IsFiniteSet(Thread) /\ Owner \notin Thread \cup Caller
  /\ \A d \in 0..(Devices - 1) : \E t \in Thread : DeviceOf[t] = d

VARIABLES
  call,        \* where each caller is in ComputeBlocking and after it
  size,        \* planes_.size()
  ready,       \* dataready_
  first,       \* start_index
  parts,       \* parents_: [device, from, to, computed], in the order of the inputs
  queue,       \* DemuxingBackend::queue_ of each device: <<caller, part>>
  at,          \* where each thread is, and the owner
  item,        \* the <<caller, part>> it works on
  closing,     \* the device whose destruction the owner has come to
  startIndex,  \* start_index_, which is only used modulo Devices
  abort        \* abort_

requests  == <<call, size, ready, first, parts>>
demuxVars == <<requests, queue, at, item, closing, startIndex, abort>>

Device   == 0..(Devices - 1)
Notifier == Thread \cup {Owner}
NoItem   == <<Owner, 0>>
Source(n) == item[n][1]
Least(a, b) == IF a < b THEN a ELSE b
Asleep(d) == {t \in Thread : DeviceOf[t] = d /\ at[t] = "asleep"}
\* DemuxingBackend::mutex_ of d, and DemuxingComputation::mutex_ of c.
DeviceFree(d) == \A t \in Thread : DeviceOf[t] = d => at[t] # "drowsy"
CallerFree(c) == call[c] # "drowsy"

\* How many steps of Step inputs each device gets, and how many get one more.
Splits(n)     == 1 + (n - 1) \div Step
PerDevice(n)  == Splits(n) \div Devices
Extra(n)      == Splits(n) - PerDevice(n) * Devices
WorkItems(n)  == IF PerDevice(n) > 0 THEN Devices ELSE Extra(n)
CountStored_ExtraOnly(n) == Extra(n)
CountStored(n) == WorkItems(n)
SplitSize(n, j) == PerDevice(n) + IF j <= Extra(n) THEN 1 ELSE 0

DemuxInit ==
  /\ call = [c \in Caller |-> "out"]
  /\ size = [c \in Caller |-> 0] /\ ready = [c \in Caller |-> -1]
  /\ first = [c \in Caller |-> 0] /\ parts = [c \in Caller |-> << >>]
  /\ queue = [d \in Device |-> << >>]
  /\ at = [n \in Notifier |-> IF n = Owner THEN "open" ELSE "look"]
  /\ item = [n \in Notifier |-> NoItem]
  /\ closing = 0 /\ startIndex = 0 /\ abort = FALSE

-----------------------------------------------------------------------------
\* The callers.
Goto(c, place) == call' = [call EXCEPT ![c] = place]

\* ComputeBlocking begins: the count of parts is stored before the first is sent.
\* With an empty batch it returns at once and leaves nothing to destroy.
BeginBatch(c) ==
  /\ call[c] = "out" /\ at[Owner] = "open"
  /\ \E n \in BatchSize[c] :
       /\ size' = [size EXCEPT ![c] = n]
       /\ ready' = [ready EXCEPT ![c] = CountStored(n)]
       /\ first' = [first EXCEPT ![c] = startIndex]
       /\ startIndex' = (startIndex + (IF Extra(n) > 1 THEN Extra(n) ELSE 1)) % Devices
  /\ Goto(c, "send")
  /\ UNCHANGED <<parts, queue, at, item, closing, abort>>

\* One part goes to the next device, and one of the device's threads is notified.
SendPart(c) ==
  LET j    == Len(parts[c]) + 1
      d    == (first[c] + j - 1) % Devices
      from == IF j = 1 THEN 0 ELSE parts[c][j - 1].to
      to   == Least(from + SplitSize(size[c], j) * Step, size[c])
  IN /\ call[c] = "send" /\ DeviceFree(d)
     /\ parts' = [parts EXCEPT ![c] = Append(@, [device |-> d, from |-> from, to |-> to,
                                                 computed |-> FALSE])]
     /\ queue' = [queue EXCEPT ![d] = Append(@, <<c, j>>)]
     /\ Goto(c, IF j = WorkItems(size[c]) THEN "test" ELSE "send")
     /\ IF Asleep(d) = {} THEN UNCHANGED at
        ELSE \E t \in Asleep(d) : at' = [at EXCEPT ![t] = "look"]
     /\ UNCHANGED <<size, ready, first, item, closing, startIndex, abort>>

\* dataready_cv_.wait: the test of the condition, then the sleep.  (A wake-up
\* without a notification would only repeat the test.)
TestReady(c) ==
  /\ call[c] = "test"
  /\ Goto(c, IF ready[c] <= 0 THEN "done" ELSE "drowsy")
  /\ UNCHANGED <<size, ready, first, parts, queue, at, item, closing, startIndex, abort>>
FallAsleep(c) ==
  /\ call[c] = "drowsy" /\ Goto(c, "asleep")
  /\ UNCHANGED <<size, ready, first, parts, queue, at, item, closing, startIndex, abort>>

\* The results have been read; ~DemuxingComputation spins until dataready_ is -1.
MayDestroy_NoSpin(c) == ready[c] <= 0
MayDestroy(c) == ready[c] = -1
DestroyComputation(c) ==
  /\ call[c] = "done" /\ MayDestroy(c)
  /\ Goto(c, "out")
  /\ size' = [size EXCEPT ![c] = 0] /\ ready' = [ready EXCEPT ![c] = -1]
  /\ first' = [first EXCEPT ![c] = 0] /\ parts' = [parts EXCEPT ![c] = << >>]
  /\ UNCHANGED <<queue, at, item, closing, startIndex, abort>>

-----------------------------------------------------------------------------
\* NotifyComplete, by the thread that computed the part, or by the owner for a
\* part that nobody will compute.
Move(n, place) == at' = [at EXCEPT ![n] = place]
\* The notifier is done with its item.
GoOn(n) == /\ Move(n, IF n = Owner THEN "drain" ELSE "look")
           /\ item' = [item EXCEPT ![n] = NoItem]

IsLast(n) == ready[Source(n)] = 1
CountDown(n) ==
  /\ at[n] = "finish"
  /\ ready' = [ready EXCEPT ![Source(n)] = @ - 1]
  /\ IF IsLast(n) THEN Move(n, "notify") /\ UNCHANGED item ELSE GoOn(n)
  /\ UNCHANGED <<call, size, first, parts, queue, closing, startIndex, abort>>
\* The empty critical section before notify_one: whoever was testing the
\* condition sleeps now.
PassLock(n) == CallerFree(Source(n))
NotifyCaller(n) ==
  /\ at[n] = "notify" /\ PassLock(n) /\ Move(n, "mark")
  /\ IF call[Source(n)] = "asleep" THEN Goto(Source(n), "test") ELSE UNCHANGED call
  /\ UNCHANGED <<size, ready, first, parts, queue, item, closing, startIndex, abort>>
LetDestroy(n) ==
  /\ at[n] = "mark" /\ GoOn(n)
  /\ ready' = [ready EXCEPT ![Source(n)] = -1]
  /\ UNCHANGED <<call, size, first, parts, queue, closing, startIndex, abort>>

-----------------------------------------------------------------------------
\* DemuxingBackend::Worker.
Look(t) ==
  LET d == DeviceOf[t]
  IN /\ at[t] = "look" /\ DeviceFree(d)
     /\ \/ abort /\ Move(t, "exit") /\ UNCHANGED <<item, queue>>
        \/ /\ ~abort /\ queue[d] = << >>
           /\ Move(t, "drowsy") /\ UNCHANGED <<item, queue>>
        \/ /\ ~abort /\ queue[d] # << >>
           /\ item' = [item EXCEPT ![t] = Head(queue[d])]
           /\ queue' = [queue EXCEPT ![d] = Tail(@)]
           /\ Move(t, "compute")
     /\ UNCHANGED <<requests, closing, startIndex, abort>>
ThreadSleeps(t) ==
  /\ at[t] = "drowsy" /\ Move(t, "asleep")
  /\ UNCHANGED <<requests, queue, item, closing, startIndex, abort>>
ComputePart(t) ==
  /\ at[t] = "compute" /\ Move(t, "finish")
  /\ parts' = [parts EXCEPT ![Source(t)][item[t][2]].computed = TRUE]
  /\ UNCHANGED <<call, size, ready, first, queue, item, closing, startIndex, abort>>

\* ~DemuxingNetwork.  It may overtake calls that wait for their parts, which its
\* destruction completes, but not one that still hands out parts.
Close ==
  /\ at[Owner] = "open" /\ \A c \in Caller : call[c] # "send"
  /\ abort' = TRUE /\ Move(Owner, "wake")
  /\ UNCHANGED <<requests, queue, item, closing, startIndex>>
AbortLock_Skipped(d) == TRUE
AbortLock(d) == DeviceFree(d)
WakeAll(d) == [n \in Notifier |-> IF n \in Asleep(d) THEN "look" ELSE at[n]]
WakeDevice ==
  /\ at[Owner] = "wake" /\ AbortLock(closing)
  /\ at' = [WakeAll(closing) EXCEPT
              ![Owner] = IF closing = Devices - 1 THEN "join" ELSE "wake"]
  /\ closing' = (closing + 1) % Devices
  /\ UNCHANGED <<requests, queue, item, startIndex, abort>>
\* ~DemuxingBackend of one device after the other.
JoinThreads ==
  /\ at[Owner] = "join"
  /\ \A t \in Thread : DeviceOf[t] = closing => at[t] = "exit"
  /\ Move(Owner, "drain")
  /\ UNCHANGED <<requests, queue, item, closing, startIndex, abort>>
Drain ==
  /\ at[Owner] = "drain"
  /\ IF queue[closing] # << >>
     THEN /\ item' = [item EXCEPT ![Owner] = Head(queue[closing])]
          /\ queue' = [queue EXCEPT ![closing] = Tail(@)]
          /\ Move(Owner, "finish") /\ UNCHANGED closing
     ELSE /\ Move(Owner, IF closing = Devices - 1 THEN "gone" ELSE "join")
          /\ closing' = (closing + 1) % Devices /\ UNCHANGED <<item, queue>>
  /\ UNCHANGED <<requests, startIndex, abort>>

CallerStep(c) == SendPart(c) \/ TestReady(c) \/ FallAsleep(c) \/ DestroyComputation(c)
Complete(n)   == CountDown(n) \/ NotifyCaller(n) \/ LetDestroy(n)
ThreadStep(t) == Look(t) \/ ThreadSleeps(t) \/ ComputePart(t) \/ Complete(t)
OwnerStep     == WakeDevice \/ JoinThreads \/ Drain \/ Complete(Owner)

DemuxNext ==
  \/ \E c \in Caller : BeginBatch(c) \/ CallerStep(c)
  \/ \E t \in Thread : ThreadStep(t)
  \/ Close \/ OwnerStep

DemuxSpec == DemuxInit /\ [][DemuxNext]_demuxVars
\* A thread that can run does, and a caller that wants the mutex of a device, which
\* is always held for a moment only, gets it in the end.  Nothing is assumed of new
\* batches and of the destruction of the network.
DemuxFairness ==
  /\ \A c \in Caller : WF_demuxVars(CallerStep(c)) /\ SF_demuxVars(SendPart(c))
  /\ \A t \in Thread : WF_demuxVars(ThreadStep(t))
  /\ WF_demuxVars(OwnerStep)
DemuxFairSpec == DemuxSpec /\ DemuxFairness

-----------------------------------------------------------------------------
DemuxTypeOK ==
  /\ call \in [Caller -> {"out", "send", "test", "drowsy", "asleep", "done"}]
  /\ size \in [Caller -> Nat] /\ ready \in [Caller -> -1..Devices]
  /\ first \in [Caller -> Device]
  /\ parts \in [Caller -> Seq([device : Device, from : Nat, to : Nat, computed : BOOLEAN])]
  /\ queue \in [Device -> Seq(Caller \X (1..Devices))]
  /\ at \in [Notifier -> {"open", "wake", "join", "drain", "gone", "look", "drowsy",
                          "asleep", "compute", "finish", "notify", "mark", "exit"}]
  /\ item \in [Notifier -> (Caller \X (1..Devices)) \cup {NoItem}]
  /\ closing \in Device /\ startIndex \in Device /\ abort \in BOOLEAN

\* Where the parts of c are that have not been counted down, and who does
\* what comes after the last of them.
Queued(c)   == {p \in UNION {{d} \X DOMAIN queue[d] : d \in Device} :
                  queue[p[1]][p[2]][1] = c}
Working(c)  == {n \in Notifier : Source(n) = c /\ at[n] \in {"compute", "finish"}}
Notifying(c) == {n \in Notifier : Source(n) = c /\ at[n] \in {"notify", "mark"}}
Unsent(c)   == IF call[c] = "send" THEN WorkItems(size[c]) - Len(parts[c]) ELSE 0

\* dataready_ counts what is outstanding, whichever threads complete the parts and
\* even if some are completed before others are sent: nobody but the last thread
\* is between its count-down and the store of -1, and only while the count is 0.
PartsAccounted ==
  \A c \in Caller :
    LET left == Unsent(c) + Cardinality(Queued(c)) + Cardinality(Working(c))
    IN /\ left = (IF ready[c] > 0 THEN ready[c] ELSE 0)
       /\ Cardinality(Notifying(c)) = (IF ready[c] = 0 THEN 1 ELSE 0)

\* No thread, no queue and no destructor has a pointer to a computation that its
\* caller has destroyed, although the caller may return as soon as the count is 0
\* and is notified only afterwards.
NobodyTouchesTheDead ==
  \A c \in Caller : call[c] = "out" =>
    /\ \A n \in Notifier : Source(n) # c
    /\ \A d \in Device : \A i \in DOMAIN queue[d] : queue[d][i][1] # c

\* When a call returns, each input is in one part, found by the ends of the parts,
\* no device was given more than one of them, no part is empty, and all were
\* computed unless the network is being destroyed.
ResultsComplete ==
  \A c \in Caller : call[c] = "done" =>
    /\ \A s \in 0..(size[c] - 1) :
         Cardinality({j \in DOMAIN parts[c] :
                        parts[c][j].from <= s /\ s < parts[c][j].to}) = 1
    /\ \A i, j \in DOMAIN parts[c] :
         /\ i < j => /\ parts[c][i].to <= parts[c][j].from
                     /\ parts[c][i].device # parts[c][j].device
         /\ parts[c][i].from < parts[c][i].to
         /\ parts[c][i].computed \/ abort

\* Every batch comes to an end, also one that the destruction of the network
\* overtakes.
CallsReturn == \A c \in Caller : (call[c] # "out") ~> (call[c] = "out")
\* The destruction of the network comes to an end.
ClosingEnds == abort ~> (at[Owner] = "gone")

\* To its callers the network is what any other is.
Phase(c) == IF size[c] = 0 THEN "idle"
            ELSE IF ready[c] > 0 THEN "asked"
            ELSE IF \A j \in DOMAIN parts[c] : parts[c][j].computed THEN "answered"
            ELSE "dropped"
DemuxService == INSTANCE BatchService WITH Client <- Caller, open <- ~abort,
                  phase <- [c \in Caller |-> Phase(c)]
DemuxServes == DemuxService!SafetySpec

\* The network's state is consistent whenever nobody is inside of a critical
\* section: parts are counted, nobody points at what is gone, results are complete.
DemuxInv == /\ DemuxTypeOK /\ PartsAccounted /\ NobodyTouchesTheDead
            /\ ResultsComplete

\* No call and no destruction waits for ever.
DemuxReturns == CallsReturn /\ ClosingEnds
===============================================================================
