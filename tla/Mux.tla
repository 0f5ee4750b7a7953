---------------------------------- MODULE Mux ----------------------------------
(***************************************************************************)
(* The multiplexing network (neural/backends/network_mux.cc).  Batches of  *)
(* many threads wait in one queue; each worker takes as many of them as    *)
(* fit into one batch of the network it works for, computes that, and      *)
(* tells each child where in it its results are.  The network of a worker  *)
(* is known by what BatchService says of it.                               *)
(***************************************************************************)
EXTENDS Integers, Sequences, SequencesExt

CONSTANTS
  Child,     \* threads that compute batches (MuxingComputation)
  Worker,    \* threads_
  MaxBatch,  \* of each worker: max_batch of its network
  Width      \* of each child: the size of its batches; nobody computes an empty one

ASSUME MuxAssumption ==
  /\ MaxBatch \in [Worker -> Nat \ {0}] /\ Width \in [Child -> Nat \ {0}]
  /\ Worker # {} /\ IsFiniteSet(Worker)

VARIABLES
  child,     \* where each child is: "away", "waiting" or "done"
  served,    \* dataready_
  parent,    \* parent_: the inputs <<child, number>> of its batch, or none yet
  offset,    \* idx_in_parent_
  results,   \* parent_ has been computed
  line,      \* queue_
  worker,    \* where each worker is: "look", "asleep", "compute" or "gone"
  children,  \* those it has to notify
  below,     \* the phase of its batch in the network below
  closer,    \* how far ~MuxingNetwork has come
  stopping   \* abort_

muxVars == <<child, served, parent, offset, results, line, worker, children, below, closer,
             stopping>>

\* The networks below are destroyed after the workers.
Below == INSTANCE BatchService WITH Client <- Worker, phase <- below,
           open <- (closer # "closed")

\* How many inputs the first children of cs have together.
Ends(cs) ==
  LET end[i \in 0..Len(cs)] == IF i = 0 THEN 0 ELSE end[i - 1] + Width[cs[i]]
  IN end
Total(cs)   == Ends(cs)[Len(cs)]
Planes(c)   == [k \in 1..Width[c] |-> <<c, k>>]
Batch(cs)   == FlattenSeq([i \in DOMAIN cs |-> Planes(cs[i])])
Sleepers    == {w \in Worker : worker[w] = "asleep"}

MuxInit ==
  /\ child = [c \in Child |-> "away"]
  /\ served = [c \in Child |-> FALSE]
  /\ parent = [c \in Child |-> << >>] /\ offset = [c \in Child |-> 0]
  /\ results = [c \in Child |-> FALSE]
  /\ line = << >> /\ worker = [w \in Worker |-> "look"]
  /\ children = [w \in Worker |-> << >>] /\ below = [w \in Worker |-> "idle"]
  /\ closer = "open" /\ stopping = FALSE

-----------------------------------------------------------------------------
\* ComputeBlocking: Enqueue, and the wait for dataready_, which is set under the
\* mutex together with the notification.
NotifyOne_IfFirst ==
  IF line = << >> /\ Sleepers # {}
  THEN \E w \in Sleepers : worker' = [worker EXCEPT ![w] = "look"]
  ELSE UNCHANGED worker
NotifyOne ==
  IF Sleepers # {} THEN \E w \in Sleepers : worker' = [worker EXCEPT ![w] = "look"]
  ELSE UNCHANGED worker
Enqueue(c) ==
  /\ child[c] = "away" /\ closer = "open"
  /\ child' = [child EXCEPT ![c] = "waiting"]
  /\ line' = Append(line, c)
  /\ NotifyOne
  /\ UNCHANGED <<served, parent, offset, results, children, below, closer, stopping>>
ReturnToCaller(c) ==
  /\ child[c] = "waiting" /\ served[c]
  /\ child' = [child EXCEPT ![c] = "done"]
  /\ UNCHANGED <<served, parent, offset, results, line, worker, children, below, closer,
                 stopping>>
\* The child reads its results and is destroyed.
DestroyChild(c) ==
  /\ child[c] = "done"
  /\ child' = [child EXCEPT ![c] = "away"]
  /\ served' = [served EXCEPT ![c] = FALSE]
  /\ parent' = [parent EXCEPT ![c] = << >>] /\ offset' = [offset EXCEPT ![c] = 0]
  /\ results' = [results EXCEPT ![c] = FALSE]
  /\ UNCHANGED <<line, worker, children, below, closer, stopping>>

-----------------------------------------------------------------------------
\* Worker: the first child of the queue is always taken, the next ones as long as
\* they fit.
Fits(w, n) == n = 1 \/ Total(SubSeq(line, 1, n)) <= MaxBatch[w]
PlaceOf(cs, i) == Ends(cs)[i - 1]
Rest(n) == SubSeq(line, n + 1, Len(line))
TakeChildren(w) ==
  /\ worker[w] = "look" /\ ~stopping
  /\ \E n \in DOMAIN line :
       LET cs == SubSeq(line, 1, n)
       IN /\ Fits(w, n) /\ \A m \in (n + 1)..Len(line) : ~Fits(w, m)
          /\ line' = Rest(n)
          /\ children' = [children EXCEPT ![w] = cs]
          /\ parent' = [c \in Child |-> IF c \in ToSet(cs) THEN Batch(cs) ELSE parent[c]]
          /\ offset' = [c \in Child |-> IF c \in ToSet(cs)
                          THEN PlaceOf(cs, CHOOSE i \in DOMAIN cs : cs[i] = c)
                          ELSE offset[c]]
  /\ worker' = [worker EXCEPT ![w] = "compute"]
  /\ UNCHANGED <<child, served, results, closer, stopping>>
  /\ Below!Ask(w)
WorkerSleeps(w) ==
  /\ worker[w] = "look" /\ ~stopping /\ line = << >>
  /\ worker' = [worker EXCEPT ![w] = "asleep"]
  /\ UNCHANGED <<child, served, parent, offset, results, line, children, below, closer,
                 stopping>>
WorkerExits(w) ==
  /\ worker[w] = "look" /\ stopping
  /\ worker' = [worker EXCEPT ![w] = "gone"]
  /\ UNCHANGED <<child, served, parent, offset, results, line, children, below, closer,
                 stopping>>
\* The network below has computed the batch.
ComputedBelow(w) ==
  /\ results' = [c \in Child |-> results[c] \/ c \in ToSet(children[w])]
  /\ UNCHANGED <<child, served, parent, offset, line, worker, children, closer, stopping>>
  /\ Below!Answer(w)
MayNotify_AtOnce(w) == worker[w] = "compute"
MayNotify(w) == below[w] = "answered"
NotifyChild(w) ==
  /\ MayNotify(w) /\ children[w] # << >>
  /\ served' = [served EXCEPT ![Head(children[w])] = TRUE]
  /\ children' = [children EXCEPT ![w] = Tail(@)]
  /\ UNCHANGED <<child, parent, offset, results, line, worker, below, closer, stopping>>
NextBatch(w) ==
  /\ below[w] = "answered" /\ children[w] = << >>
  /\ worker' = [worker EXCEPT ![w] = "look"]
  /\ UNCHANGED <<child, served, parent, offset, results, line, children, closer, stopping>>
  /\ Below!Leave(w)

-----------------------------------------------------------------------------
\* ~MuxingNetwork: Abort, Wait, and the children that are left in the queue.
Abort ==
  /\ closer = "open" /\ closer' = "wake" /\ stopping' = TRUE
  /\ UNCHANGED <<child, served, parent, offset, results, line, worker, children, below>>
NotifyAll ==
  /\ closer = "wake" /\ closer' = "join"
  /\ worker' = [w \in Worker |-> IF worker[w] = "asleep" THEN "look" ELSE worker[w]]
  /\ UNCHANGED <<child, served, parent, offset, results, line, children, below, stopping>>
WaitForWorkers ==
  /\ closer = "join" /\ \A w \in Worker : worker[w] = "gone"
  /\ closer' = "unstick"
  /\ UNCHANGED <<child, served, parent, offset, results, line, worker, children, below,
                 stopping>>
MustUnstick_Never == FALSE
MustUnstick == line # << >>
Unstick ==
  /\ closer = "unstick"
  /\ IF MustUnstick
     THEN /\ served' = [served EXCEPT ![Head(line)] = TRUE]
          /\ line' = Tail(line) /\ UNCHANGED closer
     ELSE closer' = "closed" /\ UNCHANGED <<served, line>>
  /\ UNCHANGED <<child, parent, offset, results, worker, children, below, stopping>>

ChildStep(c)  == ReturnToCaller(c) \/ DestroyChild(c)
WorkerStep(w) == \/ TakeChildren(w) \/ WorkerSleeps(w) \/ WorkerExits(w)
                 \/ ComputedBelow(w) \/ NotifyChild(w) \/ NextBatch(w)
CloserStep    == NotifyAll \/ WaitForWorkers \/ Unstick
MuxNext == \/ \E c \in Child : Enqueue(c) \/ ChildStep(c)
           \/ \E w \in Worker : WorkerStep(w)
           \/ Abort \/ CloserStep

MuxSpec == MuxInit /\ [][MuxNext]_muxVars
\* Threads that can run do, and the networks below keep their promise.  Nothing is
\* assumed of new batches and of the destruction of the network.
MuxFairness == /\ \A c \in Child : WF_muxVars(ChildStep(c))
               /\ \A w \in Worker : WF_muxVars(WorkerStep(w))
               /\ WF_muxVars(CloserStep)
MuxFairSpec == MuxSpec /\ MuxFairness

-----------------------------------------------------------------------------
MuxTypeOK ==
  /\ child \in [Child -> {"away", "waiting", "done"}]
  /\ served \in [Child -> BOOLEAN]
  /\ parent \in [Child -> Seq(Child \X Nat)] /\ offset \in [Child -> Nat]
  /\ results \in [Child -> BOOLEAN]
  /\ line \in Seq(Child)
  /\ worker \in [Worker -> {"look", "asleep", "compute", "gone"}]
  /\ children \in [Worker -> Seq(Child)]
  /\ below \in [Worker -> {"idle", "asked", "answered"}]
  /\ closer \in {"open", "wake", "join", "unstick", "closed"} /\ stopping \in BOOLEAN

\* A child that waits is in the queue or in the hands of one worker, once; nobody
\* has a pointer to a child that has been told, which may be gone already.
EachChildInOnePlace ==
  \A c \in Child :
    LET inLine  == Cardinality({i \in DOMAIN line : line[i] = c})
        inHands == {w \in Worker : c \in ToSet(children[w])}
    IN inLine + Cardinality(inHands)
         = IF child[c] = "waiting" /\ ~served[c] THEN 1 ELSE 0

\* A child that returns reads, at its offset, the results of its own inputs, unless
\* the network was destroyed before a worker took it.
OwnResults ==
  \A c \in Child : child[c] = "done" =>
    \/ results[c] /\ \A k \in 1..Width[c] : parent[c][offset[c] + k] = <<c, k>>
    \/ parent[c] = << >> /\ stopping

\* A batch exceeds the limit of its network only if it is a single child's.
WithinLimit ==
  \A w \in Worker : below[w] = "asked" =>
    Total(children[w]) <= MaxBatch[w] \/ Len(children[w]) = 1

\* One notification for each child is enough: while some worker sleeps, the
\* workers that are about to look are at least as many as the children that wait,
\* although one of them may take several and another find nothing.
NoSleeperIsMissed ==
  Sleepers # {} /\ ~stopping =>
    Len(line) <= Cardinality({w \in Worker : worker[w] = "look"})

\* Every batch comes to an end, also if the network is destroyed meanwhile.
ChildrenReturn == \A c \in Child : (child[c] = "waiting") ~> (child[c] # "waiting")

\* To its callers the network is what any other is.
ChildPhase(c) == IF child[c] = "away" THEN "idle"
                 ELSE IF ~served[c] THEN "asked"
                 ELSE IF results[c] THEN "answered" ELSE "dropped"
MuxService == INSTANCE BatchService WITH Client <- Child, open <- ~stopping,
                phase <- [c \in Child |-> ChildPhase(c)]
MuxServes == MuxService!SafetySpec

\* The network's state is consistent: each child is in one place, reads its own
\* results, fits its batch, and does not wait beside a sleeping worker.
MuxInv == /\ MuxTypeOK /\ EachChildInOnePlace /\ OwnResults /\ WithinLimit
          /\ NoSleeperIsMissed
===============================================================================
