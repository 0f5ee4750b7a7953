----------------------------- MODULE HelpersProofs -----------------------------
(***************************************************************************)
(* Proofs about the threads beside a search.  For every finite set of      *)
(* helpers, every room in the list of tasks and every number of rounds:    *)
(* no task runs twice, and none runs when the worker goes on.  For every   *)
(* number of searches and batches, every height of a node and every        *)
(* capacity of its local queue: the collector's sleep can be relied on.    *)
(***************************************************************************)
EXTENDS TaskPool, NodeGarbage, FiniteSetTheorems, SequenceTheorems, TLAPS

-----------------------------------------------------------------------------
(* TaskPool.                                                               *)


(* The worker shares its work: tasks are published and waited for. *)
Sharing == at \in {"publish", "waiting", "compare"}

(* While the work is shared the counters tell how many tasks there are, are *)
(* taken and are completed.  At other times no task runs, and the count,    *)
(* which is the first that a reset changes, promises none.                  *)
Ledger ==
  /\ Sharing => /\ size = count /\ taken <= count
                /\ completed + Cardinality(Running) = taken
                /\ complete \subseteq 1..taken
  /\ ~Sharing => Running = {} /\ count <= taken
  /\ at = "compare" => seen <= completed
  /\ at \in {"reset2", "reset3", "notify"} => count = 0
  /\ at \in {"reset3", "notify"} => taken = 0
  /\ at = "notify" => completed = 0 /\ size = 0 /\ complete = {}

(* One helper takes at a time.  What it has loaded of the tasks taken is not *)
(* too little, though a reset may have come meanwhile, and when it takes a   *)
(* task there is one.                                                        *)
OneTakes ==
  /\ \A h \in Helper : pc[h] \in {"check", "check2", "take"} <=> taking = h
  /\ \A h \in Helper : pc[h] = "check2" => taken <= nta[h]
  /\ \A h \in Helper : pc[h] = "take" => Sharing /\ taken < count

(* The tasks that run were taken, by one helper each. *)
TasksAreTaken ==
  /\ \A h \in Running : id[h] \in 1..taken
  /\ \A h \in Running : pc[h] = "run" => id[h] \notin complete
  /\ \A g, h \in Running : id[g] = id[h] => g = h

IInv == TypeOK /\ Ledger /\ OneTakes /\ TasksAreTaken

-----------------------------------------------------------------------------
(* A helper that takes a task runs one more, one that completes it one less. *)
LEMMA RunningCount ==
  /\ Cardinality(Running) \in Nat
  /\ Running = {} <=> Cardinality(Running) = 0
  /\ \A h \in Helper : h \notin Running =>
       Cardinality(Running \cup {h}) = Cardinality(Running) + 1
  /\ \A h \in Running : Cardinality(Running \ {h}) = Cardinality(Running) - 1
<1>1. IsFiniteSet(Running)
  <2>1. Running \in SUBSET Helper
    BY DEF Running
  <2>. QED
    BY <2>1, PoolAssumption, FS_Subset
<1>2. Cardinality(Running) \in Nat
  BY <1>1, FS_CardinalityType
<1>3. Running = {} <=> Cardinality(Running) = 0
  BY <1>1, FS_EmptySet
<1>4. ASSUME NEW h \in Helper, h \notin Running
      PROVE  Cardinality(Running \cup {h}) = Cardinality(Running) + 1
  BY <1>1, <1>4, FS_AddElement
<1>5. ASSUME NEW h \in Running
      PROVE  Cardinality(Running \ {h}) = Cardinality(Running) - 1
  BY <1>1, FS_RemoveElement
<1>. QED
  BY <1>2, <1>3, <1>4, <1>5

LEMMA InitIInv == Init => IInv
<1>. SUFFICES ASSUME Init PROVE IInv
  OBVIOUS
<1>. USE PoolAssumption DEF Init
<1>1. TypeOK
  <2>1. /\ pc \in [Helper -> {"look", "look2", "grab", "check", "check2", "take",
                             "run", "finish", "doze", "wait", "awake", "gone"}]
        /\ nta \in [Helper -> 0..MaxTasks] /\ id \in [Helper -> 0..MaxTasks]
    OBVIOUS
  <2>2. count \in -1..MaxTasks /\ 0 \in 0..MaxTasks /\ rounds \in 0..MaxRounds
    OBVIOUS
  <2>. QED
    BY <2>1, <2>2 DEF TypeOK
<1>2. Running = {}
  BY DEF Running
<1>3. Ledger /\ OneTakes /\ TasksAreTaken
  BY <1>2 DEF Ledger, Sharing, OneTakes, TasksAreTaken
<1>. QED
  BY <1>1, <1>3 DEF IInv

(* A step of the worker runs no task and takes none. *)
LEMMA WorkerSteps ==
  ASSUME IInv, Work
  PROVE  IInv'
<1>. USE PoolAssumption, RunningCount
     DEF IInv, TypeOK, Ledger, Sharing, OneTakes, TasksAreTaken,
         worker, counts, tasks, helpers
<1>1. CASE BeginPick
  <2>1. Running' = Running
    BY <1>1 DEF BeginPick, Running
  <2>. QED
    BY <1>1, <2>1 DEF BeginPick
<1>2. CASE BeginProcessing
  <2>1. Running' = Running
    BY <1>2 DEF BeginProcessing, Running
  <2>. QED
    BY <1>2, <2>1 DEF BeginProcessing
<1>3. CASE ResetCount
  <2>1. Running' = Running
    BY <1>3 DEF ResetCount, Running
  <2>. QED
    BY <1>3, <2>1 DEF ResetCount, ResetStep
<1>4. CASE ResetTaken
  <2>1. Running' = Running
    BY <1>4 DEF ResetTaken, Running
  <2>. QED
    BY <1>4, <2>1 DEF ResetTaken, ResetStep
<1>5. CASE ResetRest
  <2>1. Running' = Running
    BY <1>5 DEF ResetRest, Running
  <2>. QED
    BY <1>5, <2>1 DEF ResetRest, ResetStep, WakeHelpers
<1>6. CASE Notify
  <2>1. Running' = Running
    BY <1>6 DEF Notify, NotifyAll, Running
  <2>. QED
    BY <1>6, <2>1 DEF Notify, NotifyAll
<1>7. CASE LoadCompleted
  <2>1. Running' = Running
    BY <1>7 DEF LoadCompleted, Running
  <2>. QED
    BY <1>7, <2>1 DEF LoadCompleted
<1>8. CASE Compare
  <2>1. Running' = Running
    BY <1>8 DEF Compare, Running
  <2>. QED
    BY <1>8, <2>1 DEF Compare, AllDone
<1>9. CASE ProcessAlone
  <2>1. Running' = Running
    BY <1>9 DEF ProcessAlone, Running
  <2>. QED
    BY <1>9, <2>1 DEF ProcessAlone
<1>10. CASE EndGather
  <2>1. Running' = Running
    BY <1>10 DEF EndGather, Running
  <2>. QED
    BY <1>10, <2>1 DEF EndGather
<1>11. CASE Destroy
  <2>1. Running' = Running
    BY <1>11 DEF Destroy, WakeToExit, NotifyAll, Running
  <2>. QED
    BY <1>11, <2>1 DEF Destroy, WakeToExit, NotifyAll
<1>. QED
  BY <1>1, <1>2, <1>3, <1>4, <1>5, <1>6, <1>7, <1>8, <1>9, <1>10, <1>11
     DEF Work, Reset, Wait

(* A task that is split off is published, and nobody has taken it. *)
LEMMA SplitOffSteps ==
  ASSUME IInv, Publish \/ \E h \in Helper : Split(h)
  PROVE  IInv'
<1>. USE PoolAssumption, RunningCount
     DEF IInv, TypeOK, Ledger, Sharing, OneTakes, TasksAreTaken,
         worker, counts, tasks, helpers, SplitOff
<1>1. CASE Publish
  <2>1. Running' = Running
    BY <1>1 DEF Publish, NotifyAll, Running
  <2>2. TypeOK'
    BY <1>1, <2>1 DEF Publish, NotifyAll
  <2>3. Ledger'
    BY <1>1, <2>1 DEF Publish, NotifyAll
  <2>4. OneTakes'
    BY <1>1, <2>1 DEF Publish, NotifyAll
  <2>5. TasksAreTaken'
    <3>1. \A g \in Running : pc'[g] = pc[g]
      BY <1>1 DEF Publish, NotifyAll, Running
    <3>. QED
      BY <1>1, <2>1, <3>1 DEF Publish
  <2>. QED
    BY <2>2, <2>3, <2>4, <2>5
<1>2. ASSUME NEW h \in Helper, Split(h)
      PROVE  IInv'
  <2>1. h \in Running /\ Sharing
    BY <1>2 DEF Split, Running
  <2>2. Running' = Running
    BY <1>2 DEF Split, NotifyAll, Running
  <2>3. TypeOK'
    BY <1>2, <2>1, <2>2 DEF Split, NotifyAll
  <2>4. Ledger'
    BY <1>2, <2>1, <2>2 DEF Split, NotifyAll
  <2>5. OneTakes'
    BY <1>2, <2>1, <2>2 DEF Split, NotifyAll
  <2>6. TasksAreTaken'
    <3>1. \A g \in Running : pc'[g] = pc[g]
      BY <1>2 DEF Split, NotifyAll, Running
    <3>. QED
      BY <1>2, <2>1, <2>2, <3>1 DEF Split
  <2>. QED
    BY <2>3, <2>4, <2>5, <2>6
<1>. QED
  BY <1>1, <1>2

(* A helper that does not take, run or complete a task changes no counter. *)
LEMMA HelperSteps ==
  ASSUME IInv, NEW h \in Helper, RunTasks(h) \/ GrabFails(h) \/ SpuriousWake(h)
  PROVE  IInv'
<1>. USE PoolAssumption, RunningCount
     DEF IInv, TypeOK, Ledger, Sharing, OneTakes, TasksAreTaken,
         worker, counts, tasks, helpers, Goto
<1>1. CASE Look(h)
  <2>1. Running' = Running
    BY <1>1 DEF Look, Running
  <2>. QED
    BY <1>1, <2>1 DEF Look
<1>2. CASE Look2(h)
  <2>1. Running' = Running
    BY <1>2 DEF Look2, Running
  <2>. QED
    BY <1>2, <2>1 DEF Look2
<1>3. CASE Grab(h)
  <2>1. Running' = Running
    BY <1>3 DEF Grab, Running
  <2>. QED
    BY <1>3, <2>1 DEF Grab
<1>4. CASE GrabFails(h)
  <2>1. Running' = Running
    BY <1>4 DEF GrabFails, Running
  <2>. QED
    BY <1>4, <2>1 DEF GrabFails
<1>5. CASE Check(h)
  <2>1. Running' = Running
    BY <1>5 DEF Check, Running
  <2>. QED
    BY <1>5, <2>1 DEF Check
<1>6. CASE Check2(h)
  <2>1. Running' = Running
    BY <1>6 DEF Check2, Running
  <2>2. TypeOK'
    BY <1>6, <2>1 DEF Check2, StillThere
  <2>3. Ledger'
    BY <1>6, <2>1 DEF Check2, StillThere
  <2>4. OneTakes'
    BY <1>6, <2>1 DEF Check2, StillThere
  <2>5. TasksAreTaken'
    <3>1. \A g \in Running : pc'[g] = pc[g]
      BY <1>6 DEF Check2, StillThere, Running
    <3>. QED
      BY <1>6, <2>1, <3>1 DEF Check2
  <2>. QED
    BY <2>2, <2>3, <2>4, <2>5
<1>7. CASE Doze(h)
  <2>1. Running' = Running
    BY <1>7 DEF Doze, Running
  <2>. QED
    BY <1>7, <2>1 DEF Doze
<1>8. CASE SpuriousWake(h)
  <2>1. Running' = Running
    BY <1>8 DEF SpuriousWake, Running
  <2>. QED
    BY <1>8, <2>1 DEF SpuriousWake
<1>9. CASE Awake(h)
  <2>1. Running' = Running
    BY <1>9 DEF Awake, Running
  <2>. QED
    BY <1>9, <2>1 DEF Awake
<1>10. CASE Take(h)
  <2>1. h \notin Running /\ Running' = Running \cup {h}
    BY <1>10 DEF Take, Running
  <2>2. Cardinality(Running') = Cardinality(Running) + 1
    BY <2>1
  <2>3. Sharing /\ taken < count
    BY <1>10 DEF Take
  <2>. QED
    BY <1>10, <2>1, <2>2, <2>3 DEF Take
<1>11. CASE Finish(h)
  <2>1. Running' = Running /\ h \in Running
    BY <1>11 DEF Finish, Running
  <2>2. TypeOK'
    <3>1. id[h] \in 1..MaxTasks
      BY <2>1
    <3>2. complete' \subseteq 1..MaxTasks
      BY <1>11, <3>1 DEF Finish
    <3>3. pc' \in [Helper -> {"look", "look2", "grab", "check", "check2", "take",
                             "run", "finish", "doze", "wait", "awake", "gone"}]
      BY <1>11 DEF Finish
    <3>. QED
      BY <1>11, <3>2, <3>3 DEF Finish
  <2>3. Ledger'
    BY <1>11, <2>1, ZenonT(40) DEF Finish
  <2>4. OneTakes'
    BY <1>11, <2>1 DEF Finish
  <2>5. TasksAreTaken'
    BY <1>11, <2>1 DEF Finish
  <2>. QED
    BY <2>2, <2>3, <2>4, <2>5
<1>12. CASE Complete(h)
  <2>1. h \in Running /\ Running' = Running \ {h}
    BY <1>12 DEF Complete, Running
  <2>2. Cardinality(Running') = Cardinality(Running) - 1 /\ Cardinality(Running') \in Nat
    BY <2>1
  <2>3. Sharing
    BY <2>1
  <2>. QED
    BY <1>12, <2>1, <2>2, <2>3 DEF Complete
<1>. QED
  BY <1>1, <1>2, <1>3, <1>4, <1>5, <1>6, <1>7, <1>8, <1>9, <1>10, <1>11, <1>12
     DEF RunTasks

LEMMA IInvImplies == IInv => TasksInv
<1>. SUFFICES ASSUME IInv PROVE TasksInv
  OBVIOUS
<1>1. NoneOutlivesTheWait
  BY DEF IInv, Ledger, Sharing, NoneOutlivesTheWait
<1>2. EveryTaskRunsOnce
  BY DEF IInv, TypeOK, Ledger, Sharing, TasksAreTaken, EveryTaskRunsOnce
<1>. QED
  BY <1>1, <1>2 DEF IInv, TasksInv

(* No helper runs a task that was cleared, that another runs or that was run before, *)
(* and none runs one when the worker goes on (SearchWorker::RunTasks, ResetTasks and *)
(* WaitForTasks).                                                                    *)
THEOREM TasksRunOnceAndInTime == Spec => []TasksInv
<1>1. IInv /\ [Next]_vars => IInv'
  <2>1. CASE UNCHANGED vars
    BY <2>1 DEF vars, worker, counts, tasks, helpers, IInv, TypeOK, Ledger, Sharing,
                OneTakes, TasksAreTaken, Running
  <2>. QED
    BY <2>1, WorkerSteps, SplitOffSteps, HelperSteps DEF Next
<1>. QED
  BY InitIInv, <1>1, IInvImplies, PTL DEF Spec

-----------------------------------------------------------------------------
(* NodeGarbage.                                                            *)


(* Where the collector's thread is tells what it holds, and where it can   *)
(* be asleep; an aborted search is a stopped one, which no search thread   *)
(* starts the collector for.                                               *)
PhasesAgree ==
  /\ dying # <<>> => gc \in {"free", "drop"}
  /\ nodes # <<>> => gc \in {"free", "check", "drop", "lock"}
  /\ state = "Sleeping" => gc \in {"top", "wait"}
  /\ aborted => stopped
  /\ AbortEndsCollection

(* The nodes of the first n batches. *)
NodeOf(n) == [batch : 1..n, height : 1..MaxHeight]

(* The nodes that are somewhere are of the batches that were released. *)
ShapesAgree ==
  /\ releases \in 0..MaxReleases
  /\ released \in Seq(Seq(NodeOf(releases)) \ {<<>>})
  /\ own \in Seq(NodeOf(releases)) /\ Len(own) < LocalCapacity
  /\ nodes \in Seq(NodeOf(releases)) /\ dying \in Seq(NodeOf(releases))
  /\ owed \subseteq 1..releases

(* The variables that have a few values have one of them. *)
FlagsTyped ==
  /\ state \in {"Running", "GoToSleep", "Sleeping"}
  /\ gc \in {"top", "acknowledge", "wait", "take", "free", "check", "drop", "lock"}
  /\ took \in BOOLEAN
  /\ user \in {"free", "newgame", "searching", "stop", "abort", "waiting", "joining"}
  /\ mayAnswer \in BOOLEAN /\ stopped \in BOOLEAN /\ sent \in BOOLEAN
  /\ started \in BOOLEAN /\ aborted \in BOOLEAN

(* The node that is destroyed is one. *)
OneDies == dying # <<>> => dying = <<dying[1]>>

GarbageIInv == FlagsTyped /\ ShapesAgree /\ PhasesAgree /\ OneDies /\ OwedKeepsAwake

-----------------------------------------------------------------------------
(* What Pop takes from a batch is a node, and what it leaves are nodes. *)
LEMMA LastAndFront ==
  ASSUME NEW S, NEW s \in Seq(S), s # <<>>
  PROVE  Last(s) \in S /\ Front(s) \in Seq(S)
<1>1. Len(s) \in Nat \ {0}
  BY EmptySeq
<1>2. Last(s) \in S
  BY <1>1, ElementOfSeq DEF Last
<1>3. \A i \in 1 .. Len(s) - 1 : s[i] \in S
  BY <1>1, ElementOfSeq
<1>4. SubSeq(s, 1, Len(s) - 1) \in Seq(S)
  BY <1>1, <1>3, SubSeqProperties
<1>. QED
  BY <1>2, <1>4 DEF Front

(* The batches of what is queued or taken are batches that were released. *)
LEMMA BatchesReleased ==
  ASSUME NEW n \in Nat, NEW queue \in Seq(Seq(NodeOf(n)) \ {<<>>}),
         NEW batch \in Seq(NodeOf(n))
  PROVE  Batches(queue, batch) \subseteq 1..n
<1>1. ASSUME NEW q \in Range(queue)
      PROVE  Range(q) \subseteq NodeOf(n)
  <2>1. q \in Seq(NodeOf(n))
    BY RangeOfSeq
  <2>. QED
    BY <2>1, RangeOfSeq
<1>2. Range(batch) \subseteq NodeOf(n)
  BY RangeOfSeq
<1>3. (UNION {Range(q) : q \in Range(queue)}) \cup Range(batch) \subseteq NodeOf(n)
  BY <1>1, <1>2
<1>4. \A x \in NodeOf(n) : x.batch \in 1..n
  BY DEF NodeOf
<1>. QED
  BY <1>3, <1>4 DEF Batches

(* A further batch leaves the shapes of the earlier ones as they are. *)
LEMMA FurtherBatch ==
  ASSUME NEW n \in Nat
  PROVE  /\ Seq(NodeOf(n)) \subseteq Seq(NodeOf(n + 1))
         /\ Seq(Seq(NodeOf(n)) \ {<<>>}) \subseteq Seq(Seq(NodeOf(n + 1)) \ {<<>>})
<1>1. NodeOf(n) \subseteq NodeOf(n + 1)
  BY DEF NodeOf
<1>2. Seq(NodeOf(n)) \subseteq Seq(NodeOf(n + 1))
  BY <1>1, SeqMonotonic
<1>. QED
  BY <1>2, SeqMonotonic

LEMMA AppendGrows ==
  ASSUME NEW S, NEW s \in Seq(S), NEW x \in S
  PROVE  /\ Append(s, x) \in Seq(S) /\ Append(s, x) # <<>>
         /\ Len(Append(s, x)) = Len(s) + 1
BY AppendProperties

(* A queue keeps its shape when a batch is put before it. *)
LEMMA PutFirst ==
  ASSUME NEW n, NEW batch \in Seq(NodeOf(n)), batch # <<>>,
         NEW queue \in Seq(Seq(NodeOf(n)) \ {<<>>})
  PROVE  <<batch>> \o queue \in Seq(Seq(NodeOf(n)) \ {<<>>})
<1>1. <<batch>> \in Seq(Seq(NodeOf(n)) \ {<<>>})
  OBVIOUS
<1>. QED
  BY <1>1, ConcatProperties

-----------------------------------------------------------------------------
LEMMA GarbageInitIInv == GarbageInit => GarbageIInv
<1>. SUFFICES ASSUME GarbageInit PROVE GarbageIInv
  OBVIOUS
<1>1. FlagsTyped /\ PhasesAgree
  BY DEF GarbageInit, FlagsTyped, PhasesAgree, AbortEndsCollection
<1>2. ShapesAgree
  BY BoundsAssumption, EmptySeq DEF GarbageInit, ShapesAgree
<1>3. OneDies /\ OwedKeepsAwake
  BY DEF GarbageInit, OneDies, OwedKeepsAwake
<1>. QED
  BY <1>1, <1>2, <1>3 DEF GarbageIInv

(* The flags and the phases, step by step. *)
LEMMA StepPhases ==
  ASSUME FlagsTyped, PhasesAgree, [GarbageNext]_garbageVars
  PROVE  FlagsTyped' /\ PhasesAgree'
<1>. USE DEF FlagsTyped, PhasesAgree, AbortEndsCollection, gcVars, searchVars
<1>1. CASE GCThread
  <2>1. CASE Top
    BY <1>1, <2>1 DEF GCThread, Top
  <2>2. CASE Acknowledge
    BY <1>1, <2>2 DEF GCThread, Acknowledge
  <2>3. CASE WakeUp
    BY <1>1, <2>3 DEF GCThread, WakeUp
  <2>4. CASE TakeBatch
    BY <1>1, <2>4 DEF GCThread, TakeBatch
  <2>5. CASE Free
    BY <1>1, <2>5 DEF GCThread, Free, Pop
  <2>6. CASE CheckActive
    BY <1>1, <2>6 DEF GCThread, CheckActive
  <2>7. CASE DropRest
    BY <1>1, <2>7 DEF GCThread, DropRest, Pop
  <2>8. CASE DestroyNode
    BY <1>1, <2>8 DEF GCThread, DestroyNode
  <2>9. CASE Lock
    BY <1>1, <2>9 DEF GCThread, Lock
  <2>. QED
    BY <1>1, <2>1, <2>2, <2>3, <2>4, <2>5, <2>6, <2>7, <2>8, <2>9 DEF GCThread
<1>2. CASE SetPosition
  BY <1>2 DEF SetPosition
<1>3. CASE NewGame
  BY <1>3 DEF NewGame
<1>4. CASE StartCollection
  BY <1>4 DEF StartCollection, Start
<1>5. CASE StartSearch
  BY <1>5 DEF StartSearch
<1>6. CASE StopCollection
  BY <1>6 DEF StopCollection, Stop
<1>7. CASE StopSearch
  BY <1>7 DEF StopSearch
<1>8. CASE AbortSearch
  BY <1>8 DEF AbortSearch
<1>9. CASE WaitSearch
  BY <1>9 DEF WaitSearch
<1>10. CASE WaitForCollector
  BY <1>10 DEF WaitForCollector
<1>11. CASE JoinThreads
  BY <1>11 DEF JoinThreads
<1>12. CASE CollectDuringSearch
  BY <1>12 DEF CollectDuringSearch, MayCollect, Start
<1>13. CASE ShouldStop
  BY <1>13 DEF ShouldStop
<1>14. CASE OutputBestMove
  BY <1>14 DEF OutputBestMove, Stop
<1>15. CASE UNCHANGED garbageVars
  BY <1>15 DEF garbageVars
<1>. QED
  BY <1>1, <1>2, <1>3, <1>4, <1>5, <1>6, <1>7, <1>8, <1>9, <1>10, <1>11, <1>12, <1>13, <1>14, <1>15
     DEF GarbageNext

(* A batch that is released has the next number. *)
LEMMA SubmitShapes ==
  ASSUME ShapesAgree, Submit, UNCHANGED <<own, nodes, dying, owed>>
  PROVE  ShapesAgree'
<1>. USE BoundsAssumption DEF ShapesAgree
<1>1. PICK heights \in UNION {[1..k -> 1..MaxHeight] : k \in 1..2} :
        /\ releases < MaxReleases
        /\ releases' = releases + 1
        /\ released' = Append(released, [k \in DOMAIN heights |->
                         [batch |-> releases + 1, height |-> heights[k]]])
  BY DEF Submit
<1>. DEFINE batch == [k \in DOMAIN heights |->
                        [batch |-> releases + 1, height |-> heights[k]]]
<1>2. PICK k \in 1..2 : heights \in [1..k -> 1..MaxHeight]
  OBVIOUS
<1>3. batch \in [1..k -> NodeOf(releases + 1)]
  BY <1>2 DEF NodeOf
<1>4. batch \in Seq(NodeOf(releases + 1)) \ {<<>>}
  BY <1>3
<1>5. /\ Seq(NodeOf(releases)) \subseteq Seq(NodeOf(releases + 1))
      /\ Seq(Seq(NodeOf(releases)) \ {<<>>}) \subseteq
           Seq(Seq(NodeOf(releases + 1)) \ {<<>>})
  <2>1. releases \in Nat
    OBVIOUS
  <2>. QED
    BY <2>1, FurtherBatch
<1>6. Append(released, batch) \in Seq(Seq(NodeOf(releases + 1)) \ {<<>>})
  BY <1>4, <1>5, AppendProperties
<1>7. /\ own \in Seq(NodeOf(releases + 1)) /\ nodes \in Seq(NodeOf(releases + 1))
      /\ dying \in Seq(NodeOf(releases + 1)) /\ owed \subseteq 1..releases + 1
  BY <1>5
<1>. QED
  BY <1>1, <1>6, <1>7

(* A node is popped from what was taken. *)
LEMMA PopShapes ==
  ASSUME ShapesAgree, NEW then, Pop(then), nodes # <<>>, UNCHANGED releases
  PROVE  ShapesAgree'
<1>1. Last(nodes) \in NodeOf(releases) /\ Front(nodes) \in Seq(NodeOf(releases))
  BY LastAndFront DEF ShapesAgree
<1>. QED
  BY <1>1 DEF ShapesAgree, Pop

(* A node is destroyed, and what hangs below it is of its batch. *)
LEMMA DestroyShapes ==
  ASSUME ShapesAgree, DestroyNode, UNCHANGED releases
  PROVE  ShapesAgree'
<1>. DEFINE S == NodeOf(releases)
            x == dying[1]
            below == [x EXCEPT !.height = @ - 1]
<1>. USE BoundsAssumption DEF ShapesAgree
<1>1. /\ x \in S
      /\ x.height \in 1..MaxHeight
      /\ x.height > 1 => below \in S
  <2>1. dying \in Seq(S) /\ 1 \in 1..Len(dying)
    BY EmptySeq DEF DestroyNode
  <2>2. x \in S
    BY <2>1, ElementOfSeq
  <2>3. x.height \in 1..MaxHeight
    BY <2>2 DEF NodeOf
  <2>4. ASSUME x.height > 1 PROVE below \in S
    <3>1. x.height - 1 \in 1..MaxHeight
      BY <2>3, <2>4
    <3>. QED
      BY <2>2, <3>1 DEF NodeOf
  <2>. QED
    BY <2>2, <2>3, <2>4
<1>2. owed' \subseteq 1..releases
  BY DEF DestroyNode
<1>3. CASE x.height = 1
  BY <1>2, <1>3, EmptySeq DEF DestroyNode
<1>4. CASE x.height > 1 /\ state = "Running"
  <2>1. dying' = <<below>> /\ UNCHANGED <<own, released, nodes>>
    BY <1>4 DEF DestroyNode
  <2>2. dying' \in Seq(S)
    BY <1>1, <1>4, <2>1
  <2>. QED
    BY <1>2, <2>1, <2>2
<1>5. CASE x.height > 1 /\ state # "Running"
  <2>1. /\ Append(own, below) \in Seq(S) /\ Append(own, below) # <<>>
        /\ Len(Append(own, below)) = Len(own) + 1
    <3>1. own \in Seq(S) /\ below \in S
      BY <1>1, <1>5
    <3>. HIDE DEF S, below
    <3>. QED
      BY <3>1, AppendGrows
  <2>2. <<Append(own, below)>> \o released \in Seq(Seq(S) \ {<<>>})
    BY <2>1, PutFirst
  <2>3. dying' = <<>>
    BY <1>5, <1>1 DEF DestroyNode
  <2>4. CASE Len(own) + 1 < LocalCapacity
    <3>1. own' = Append(own, below) /\ UNCHANGED released
      BY <1>5, <2>4 DEF DestroyNode
    <3>. QED
      BY <1>2, <2>1, <2>3, <2>4, <3>1, EmptySeq DEF DestroyNode
  <2>5. CASE ~(Len(own) + 1 < LocalCapacity)
    <3>1. x.height # 1
      BY <1>5
    <3>2. own' = <<>> /\ released' = <<Append(own, below)>> \o released
      BY <1>5, <2>5, <3>1, Zenon DEF DestroyNode
    <3>. QED
      BY <1>2, <2>2, <2>3, <3>2, EmptySeq, SMTT(30) DEF DestroyNode
  <2>. QED
    BY <2>4, <2>5
<1>. QED
  BY <1>1, <1>3, <1>4, <1>5

(* The shapes, step by step. *)
LEMMA StepShapes ==
  ASSUME FlagsTyped, ShapesAgree, [GarbageNext]_garbageVars
  PROVE  ShapesAgree'
<1>. USE BoundsAssumption DEF gcVars, searchVars
<1>1. Batches(released, nodes) \subseteq 1..releases
  <2>1. releases \in Nat
    BY DEF ShapesAgree
  <2>. QED
    BY <2>1, BatchesReleased DEF ShapesAgree
<1>2. CASE GCThread
  <2>1. UNCHANGED releases
    BY <1>2 DEF GCThread
  <2>2. CASE Top \/ Acknowledge \/ CheckActive
    BY <2>1, <2>2 DEF ShapesAgree, Top, Acknowledge, CheckActive
  <2>3. CASE WakeUp
    <3>1. own # <<>> => <<own>> \o released \in Seq(Seq(NodeOf(releases)) \ {<<>>})
      BY PutFirst DEF ShapesAgree
    <3>2. released' \in Seq(Seq(NodeOf(releases)) \ {<<>>})
      BY <2>3, <3>1 DEF ShapesAgree, WakeUp
    <3>3. own' = <<>> /\ own' \in Seq(NodeOf(releases)) /\ Len(own') < LocalCapacity
      BY <2>3, EmptySeq DEF WakeUp
    <3>. QED
      BY <2>1, <2>3, <3>2, <3>3 DEF ShapesAgree, WakeUp
  <2>4. CASE TakeBatch
    <3>1. released # <<>> =>
            /\ Head(released) \in Seq(NodeOf(releases)) \ {<<>>}
            /\ Tail(released) \in Seq(Seq(NodeOf(releases)) \ {<<>>})
      BY HeadTailProperties DEF ShapesAgree
    <3>. QED
      BY <2>1, <2>4, <3>1, EmptySeq DEF ShapesAgree, TakeBatch
  <2>5. CASE Free
    <3>1. CASE nodes # <<>> /\ Pop("free")
      BY <2>1, <3>1, PopShapes
    <3>2. CASE UNCHANGED <<state, released, own, nodes, took, dying, owed>>
      BY <2>1, <3>2 DEF ShapesAgree
    <3>. QED
      BY <2>5, <3>1, <3>2 DEF Free
  <2>6. CASE DropRest
    <3>1. CASE nodes # <<>> /\ Pop("drop")
      BY <2>1, <3>1, PopShapes
    <3>2. CASE UNCHANGED <<state, released, own, nodes, took, dying, owed>>
      BY <2>1, <3>2 DEF ShapesAgree
    <3>. QED
      BY <2>6, <3>1, <3>2 DEF DropRest
  <2>7. CASE DestroyNode
    BY <2>1, <2>7, DestroyShapes
  <2>8. CASE Lock
    <3>1. nodes # <<>> =>
            <<nodes>> \o released \in Seq(Seq(NodeOf(releases)) \ {<<>>})
      BY PutFirst DEF ShapesAgree
    <3>. QED
      BY <2>1, <2>8, <3>1, EmptySeq DEF ShapesAgree, Lock
  <2>. QED
    BY <1>2, <2>2, <2>3, <2>4, <2>5, <2>6, <2>7, <2>8 DEF GCThread
<1>3. CASE SetPosition \/ NewGame
  BY <1>3, SubmitShapes DEF SetPosition, NewGame
<1>4. CASE StartCollection \/ CollectDuringSearch
  BY <1>1, <1>4 DEF ShapesAgree, StartCollection, CollectDuringSearch, Start
<1>5. CASE StartSearch \/ WaitSearch \/ WaitForCollector \/ JoinThreads \/ ShouldStop
  BY <1>5 DEF ShapesAgree, StartSearch, WaitSearch, WaitForCollector, JoinThreads,
              ShouldStop
<1>6. CASE StopCollection \/ OutputBestMove
  BY <1>6 DEF ShapesAgree, StopCollection, OutputBestMove, Stop
<1>7. CASE StopSearch \/ AbortSearch
  BY <1>7 DEF ShapesAgree, StopSearch, AbortSearch
<1>8. CASE UNCHANGED garbageVars
  BY <1>8 DEF ShapesAgree, garbageVars
<1>. QED
  BY <1>2, <1>3, <1>4, <1>5, <1>6, <1>7, <1>8 DEF GarbageNext

-----------------------------------------------------------------------------
(* Where the batches of a queue of batches, and of one that was taken, remain *)
(* when nodes move from one to the other.                                     *)
LEMMA InBatches ==
  ASSUME NEW queue, NEW held, NEW b
  PROVE  b \in Batches(queue, held) <=>
           \/ \E q \in Range(queue) : \E x \in Range(q) : x.batch = b
           \/ \E x \in Range(held) : x.batch = b
BY DEF Batches

LEMMA NothingTaken == Range(<<>>) = {}
<1>1. <<>> \in Seq({}) /\ Len(<<>>) = 0
  BY EmptySeq
<1>2. Range(<<>>) = {<<>>[i] : i \in 1..Len(<<>>)}
  BY <1>1, RangeEquality
<1>. QED
  BY <1>1, <1>2

LEMMA RangeOfOne == \A x : Range(<<x>>) = {x}
<1>. TAKE x
<1>1. <<x>> \in Seq({x}) /\ Len(<<x>>) = 1 /\ <<x>>[1] = x
  OBVIOUS
<1>2. Range(<<x>>) = {<<x>>[i] : i \in 1..Len(<<x>>)}
  BY <1>1, RangeEquality
<1>. QED
  BY <1>1, <1>2

LEMMA RangeGrows ==
  ASSUME NEW R, NEW s \in Seq(R), NEW x
  PROVE  /\ Range(Append(s, x)) = Range(s) \cup {x}
         /\ Range(<<x>> \o s) = Range(s) \cup {x}
<1>. DEFINE S == R \cup {x}
<1>a. s \in Seq(S) /\ x \in S
  BY SeqMonotonic, R \subseteq S
<1>. HIDE DEF S
<1>1. /\ Append(s, x) \in Seq(S) /\ Len(Append(s, x)) = Len(s) + 1
      /\ \A i \in 1..Len(s) : Append(s, x)[i] = s[i]
      /\ Append(s, x)[Len(s) + 1] = x
  BY <1>a, AppendProperties
<1>2. /\ <<x>> \in Seq(S) /\ Len(<<x>>) = 1 /\ <<x>>[1] = x
  BY <1>a
<1>3. /\ <<x>> \o s \in Seq(S) /\ Len(<<x>> \o s) = 1 + Len(s)
      /\ \A i \in 1..(1 + Len(s)) : (<<x>> \o s)[i] = IF i <= 1 THEN <<x>>[i] ELSE s[i - 1]
  BY <1>a, <1>2, ConcatProperties
<1>4. Len(s) \in Nat /\ Range(s) = {s[i] : i \in 1..Len(s)}
  BY <1>a, RangeEquality
<1>5. Range(Append(s, x)) = {Append(s, x)[i] : i \in 1..(Len(s) + 1)}
  BY <1>1, RangeEquality
<1>6. Range(<<x>> \o s) = {(<<x>> \o s)[i] : i \in 1..(1 + Len(s))}
  BY <1>3, RangeEquality
<1>7. Range(Append(s, x)) = Range(s) \cup {x}
  BY <1>1, <1>4, <1>5
<1>8. ASSUME NEW y \in Range(s) PROVE y \in Range(<<x>> \o s)
  <2>1. PICK i \in 1..Len(s) : y = s[i]
    BY <1>4
  <2>2. i + 1 \in 1..(1 + Len(s)) /\ (<<x>> \o s)[i + 1] = s[i]
    BY <1>3, <1>4
  <2>. QED
    BY <1>6, <2>1, <2>2
<1>9. x \in Range(<<x>> \o s)
  BY <1>2, <1>3, <1>4, <1>6
<1>10. ASSUME NEW y \in Range(<<x>> \o s), y # x PROVE y \in Range(s)
  <2>1. PICK i \in 1..(1 + Len(s)) : y = (<<x>> \o s)[i]
    BY <1>6
  <2>2. i # 1
    BY <1>2, <1>3, <1>10, <2>1
  <2>3. i - 1 \in 1..Len(s) /\ y = s[i - 1]
    BY <1>3, <1>4, <2>1, <2>2
  <2>. QED
    BY <1>4, <2>3
<1>. QED
  BY <1>7, <1>8, <1>9, <1>10

LEMMA RangeShrinks ==
  ASSUME NEW S, NEW s \in Seq(S), s # <<>>
  PROVE  /\ Range(s) = Range(Tail(s)) \cup {Head(s)}
         /\ Range(s) = Range(Front(s)) \cup {Last(s)}
<1>1. Len(s) \in Nat \ {0} /\ Range(s) = {s[i] : i \in 1..Len(s)}
  BY EmptySeq, RangeEquality
<1>2. /\ Tail(s) \in Seq(S) /\ Len(Tail(s)) = Len(s) - 1 /\ Head(s) = s[1]
      /\ \A i \in 1..Len(Tail(s)) : Tail(s)[i] = s[i + 1]
  BY HeadTailProperties
<1>3. Range(Tail(s)) = {Tail(s)[i] : i \in 1..(Len(s) - 1)}
  BY <1>2, RangeEquality
<1>4. /\ Front(s) \in Seq(S) /\ Len(Front(s)) = Len(s) - 1 /\ Last(s) = s[Len(s)]
      /\ \A i \in 1..(Len(s) - 1) : Front(s)[i] = s[i]
  <2>1. \A i \in 1..(Len(s) - 1) : s[i] \in S
    BY <1>1, ElementOfSeq
  <2>. DEFINE n == Len(s) - 1
  <2>2. n \in Nat /\ 1 \in Int /\ \A i \in 1..n : s[i] \in S
    BY <1>1, <2>1
  <2>. HIDE DEF n
  <2>3. /\ SubSeq(s, 1, n) \in Seq(S)
        /\ Len(SubSeq(s, 1, n)) = IF 1 <= n THEN n - 1 + 1 ELSE 0
        /\ \A i \in 1..(n - 1 + 1) : SubSeq(s, 1, n)[i] = s[1 + i - 1]
    BY <2>2, SubSeqProperties
  <2>4. Len(SubSeq(s, 1, n)) = n /\ \A i \in 1..n : SubSeq(s, 1, n)[i] = s[i]
    BY <2>2, <2>3
  <2>. QED
    BY <2>3, <2>4 DEF Front, Last, n
<1>5. Range(Front(s)) = {Front(s)[i] : i \in 1..(Len(s) - 1)}
  BY <1>4, RangeEquality
<1>6. Range(s) = Range(Front(s)) \cup {Last(s)}
  BY <1>1, <1>4, <1>5
<1>7. ASSUME NEW y \in Range(s), y # s[1] PROVE y \in Range(Tail(s))
  <2>1. PICK i \in 1..Len(s) : y = s[i]
    BY <1>1
  <2>2. i - 1 \in 1..(Len(s) - 1) /\ Tail(s)[i - 1] = s[i]
    BY <1>1, <1>2, <1>7, <2>1
  <2>. QED
    BY <1>3, <2>1, <2>2
<1>8. Range(Tail(s)) \cup {s[1]} \subseteq Range(s)
  BY <1>1, <1>2, <1>3
<1>. QED
  BY <1>2, <1>6, <1>7, <1>8

LEMMA BatchesGrow ==
  ASSUME NEW S, NEW queue \in Seq(S), NEW s, NEW held
  PROVE  /\ Batches(queue, held) \subseteq Batches(Append(queue, s), held)
         /\ Batches(queue, held) \subseteq Batches(<<s>> \o queue, held)
         /\ Batches(queue, s) \subseteq Batches(<<s>> \o queue, held)
<1>1. /\ Range(Append(queue, s)) = Range(queue) \cup {s}
      /\ Range(<<s>> \o queue) = Range(queue) \cup {s}
  BY RangeGrows
<1>. QED
  BY <1>1 DEF Batches

LEMMA BatchesTaken ==
  ASSUME NEW S, NEW queue \in Seq(S), queue # <<>>
  PROVE  Batches(queue, <<>>) \subseteq Batches(Tail(queue), Head(queue))
<1>1. Range(queue) = Range(Tail(queue)) \cup {Head(queue)}
  BY RangeShrinks
<1>. QED
  BY <1>1, NothingTaken DEF Batches

LEMMA BatchesPopped ==
  ASSUME NEW queue, NEW S, NEW held \in Seq(S), held # <<>>
  PROVE  Batches(queue, held) \subseteq
           Batches(queue, Front(held)) \cup {Last(held).batch}
<1>1. Range(held) = Range(Front(held)) \cup {Last(held)}
  BY RangeShrinks
<1>. QED
  BY <1>1 DEF Batches

LEMMA NoBatches == Batches(<<>>, <<>>) = {}
BY NothingTaken DEF Batches

(* One node is destroyed at a time. *)
LEMMA StepDying ==
  ASSUME OneDies, [GarbageNext]_garbageVars
  PROVE  OneDies'
<1>1. \A x : <<x>> # <<>> /\ <<x>>[1] = x
  OBVIOUS
<1>. USE DEF OneDies, gcVars, searchVars
<1>2. CASE GCThread
  <2>1. CASE DestroyNode
    BY <1>1, <2>1 DEF DestroyNode
  <2>2. CASE Free \/ DropRest
    BY <1>1, <2>2 DEF Free, DropRest, Pop
  <2>3. CASE Top \/ Acknowledge \/ WakeUp \/ TakeBatch \/ CheckActive \/ Lock
    BY <2>3 DEF Top, Acknowledge, WakeUp, TakeBatch, CheckActive, Lock
  <2>. QED
    BY <1>2, <2>1, <2>2, <2>3 DEF GCThread
<1>3. CASE SetPosition \/ NewGame \/ StartCollection \/ StartSearch \/ StopCollection
  BY <1>3 DEF SetPosition, NewGame, StartCollection, StartSearch, StopCollection
<1>4. CASE StopSearch \/ AbortSearch \/ WaitSearch \/ WaitForCollector \/ JoinThreads
  BY <1>4 DEF StopSearch, AbortSearch, WaitSearch, WaitForCollector, JoinThreads
<1>5. CASE \/ CollectDuringSearch \/ ShouldStop \/ OutputBestMove
           \/ UNCHANGED garbageVars
  BY <1>5 DEF CollectDuringSearch, ShouldStop, OutputBestMove, garbageVars
<1>. QED
  BY <1>2, <1>3, <1>4, <1>5 DEF GarbageNext

(* What is owed stays in reach, step by step. *)
LEMMA StepOwed ==
  ASSUME FlagsTyped, ShapesAgree, PhasesAgree, OneDies, OwedKeepsAwake,
         [GarbageNext]_garbageVars
  PROVE  OwedKeepsAwake'
<1>. DEFINE Dying == {x.batch : x \in Range(dying)}
<1>. USE DEF gcVars, searchVars
<1>a. released \in Seq(Seq(NodeOf(releases)) \ {<<>>}) /\ nodes \in Seq(NodeOf(releases))
  BY DEF ShapesAgree
<1>b. owed \subseteq Batches(released, nodes) \cup Dying /\ (owed # {} => state = "Running")
  BY DEF OwedKeepsAwake, Reachable
<1>c. SUFFICES /\ owed' \subseteq (Batches(released, nodes) \cup Dying)'
               /\ owed' # {} => state' = "Running"
  BY DEF OwedKeepsAwake, Reachable
<1>1. CASE GCThread
  <2>1. CASE Top \/ Acknowledge \/ CheckActive
    BY <1>b, <2>1 DEF Top, Acknowledge, CheckActive
  <2>2. CASE WakeUp
    <3>1. Batches(released, nodes) \subseteq Batches(<<own>> \o released, nodes)
      BY <1>a, BatchesGrow
    <3>. QED
      BY <1>b, <2>2, <3>1 DEF WakeUp
  <2>3. CASE TakeBatch
    <3>1. nodes = <<>>
      BY <2>3 DEF TakeBatch, PhasesAgree
    <3>2. released # <<>> =>
            Batches(released, nodes) \subseteq Batches(Tail(released), Head(released))
      BY <1>a, <3>1, BatchesTaken
    <3>. QED
      BY <1>b, <2>3, <3>1, <3>2 DEF TakeBatch
  <2>4. CASE Free \/ DropRest
    <3>1. dying = <<>> /\ Dying = {}
      BY <2>4, NothingTaken DEF Free, DropRest
    <3>2. CASE UNCHANGED <<state, released, nodes, dying, owed>>
      BY <1>b, <3>2
    <3>3. ASSUME NEW then, nodes # <<>>, Pop(then) PROVE <1>c!1
      <4>1. Batches(released, nodes) \subseteq
              Batches(released, Front(nodes)) \cup {Last(nodes).batch}
        BY <1>a, <3>3, BatchesPopped
      <4>2. Range(<<Last(nodes)>>) = {Last(nodes)}
        BY RangeOfOne
      <4>. QED
        BY <1>b, <3>1, <3>3, <4>1, <4>2 DEF Pop
    <3>. QED
      BY <2>4, <3>2, <3>3 DEF Free, DropRest
  <2>5. CASE DestroyNode
    <3>1. dying # <<>> /\ Dying = {dying[1].batch}
      BY <2>5, RangeOfOne DEF DestroyNode, OneDies
    <3>2. Batches(released, nodes) \subseteq Batches(released', nodes)
      <4>1. \A s : Batches(released, nodes) \subseteq Batches(<<s>> \o released, nodes)
        BY <1>a, BatchesGrow
      <4>2. released' = released \/ \E s : released' = <<s>> \o released
        BY <2>5 DEF DestroyNode
      <4>. QED
        BY <4>1, <4>2
    <3>3. \/ dying' = <<>>
          \/ Range(dying') = {[dying[1] EXCEPT !.height = @ - 1]}
      <4>1. dying' = <<>> \/ dying' = <<[dying[1] EXCEPT !.height = @ - 1]>>
        BY <2>5 DEF DestroyNode
      <4>. QED
        BY <4>1, RangeOfOne
    <3>4. dying[1] \in NodeOf(releases)
      <4>1. dying \in Seq(NodeOf(releases)) /\ 1 \in 1..Len(dying)
        BY <3>1, EmptySeq DEF ShapesAgree
      <4>. QED
        BY <4>1, ElementOfSeq
    <3>5. dying' # <<>> => Dying' = Dying
      <4>1. [dying[1] EXCEPT !.height = @ - 1].batch = dying[1].batch
        BY <3>4 DEF NodeOf
      <4>. QED
        BY <3>1, <3>3, <4>1
    <3>6. /\ owed' = owed \ {b \in owed : b = dying[1].batch /\ dying' = <<>>
                                         /\ b \notin Batches(released', nodes)}
          /\ state' = state /\ nodes' = nodes
      BY <2>5 DEF DestroyNode
    <3>. HIDE DEF Dying
    <3>7. CASE dying' = <<>>
      <4>1. ASSUME NEW b \in owed' PROVE b \in Batches(released', nodes)
        BY <1>b, <3>1, <3>2, <3>6, <3>7, <4>1
      <4>. QED
        BY <1>b, <3>6, <4>1
    <3>8. CASE dying' # <<>>
      BY <1>b, <3>2, <3>5, <3>6, <3>8
    <3>. QED
      BY <3>7, <3>8
  <2>6. CASE Lock
    <3>1. dying = <<>> /\ Dying = {}
      BY <2>6, NothingTaken DEF Lock, PhasesAgree
    <3>2. /\ Batches(released, nodes) \subseteq Batches(<<nodes>> \o released, <<>>)
          /\ nodes = <<>> => Batches(released, nodes) \subseteq Batches(released, <<>>)
      BY <1>a, BatchesGrow
    <3>3. Batches(released, nodes) \subseteq Batches(released', nodes')
      BY <2>6, <3>2 DEF Lock
    <3>4. released' = <<>> => owed = {}
      BY <1>b, <2>6, <3>1, <3>3, NoBatches DEF Lock
    <3>5. owed' = owed /\ (state' # state => released' = <<>>)
      BY <2>6 DEF Lock
    <3>. QED
      BY <1>b, <3>1, <3>3, <3>4, <3>5
  <2>. QED
    BY <1>1, <2>1, <2>2, <2>3, <2>4, <2>5, <2>6 DEF GCThread
<1>2. CASE SetPosition \/ NewGame
  <2>1. PICK s : released' = Append(released, s)
    BY <1>2 DEF SetPosition, NewGame, Submit
  <2>2. Batches(released, nodes) \subseteq Batches(Append(released, s), nodes)
    BY <1>a, BatchesGrow
  <2>. QED
    BY <1>b, <1>2, <2>1, <2>2 DEF SetPosition, NewGame
<1>3. CASE StartCollection \/ CollectDuringSearch
  BY <1>3 DEF StartCollection, CollectDuringSearch, Start
<1>4. CASE StopCollection \/ OutputBestMove
  BY <1>4 DEF StopCollection, OutputBestMove, Stop
<1>5. CASE StartSearch \/ WaitSearch \/ WaitForCollector \/ JoinThreads \/ ShouldStop
  BY <1>b, <1>5 DEF StartSearch, WaitSearch, WaitForCollector, JoinThreads, ShouldStop
<1>6. CASE StopSearch \/ AbortSearch \/ UNCHANGED garbageVars
  BY <1>b, <1>6 DEF StopSearch, AbortSearch, garbageVars
<1>. QED
  BY <1>1, <1>2, <1>3, <1>4, <1>5, <1>6 DEF GarbageNext

LEMMA GarbageIInvImplies == GarbageIInv => CollectorInv
<1>. SUFFICES ASSUME GarbageIInv PROVE CollectorInv
  OBVIOUS
<1>1. NodeOf(releases) \subseteq Node
  BY BoundsAssumption DEF GarbageIInv, ShapesAgree, NodeOf, Node
<1>2. /\ Seq(NodeOf(releases)) \subseteq Seq(Node)
      /\ Seq(Seq(NodeOf(releases)) \ {<<>>}) \subseteq Seq(Seq(Node) \ {<<>>})
  <2>1. Seq(NodeOf(releases)) \subseteq Seq(Node)
    BY <1>1, SeqMonotonic
  <2>. QED
    BY <2>1, SeqMonotonic
<1>3. GarbageTypeOK
  BY <1>2 DEF GarbageIInv, ShapesAgree, FlagsTyped, GarbageTypeOK
<1>4. QuietWhenAsleep /\ AbortEndsCollection
  BY DEF GarbageIInv, PhasesAgree, QuietWhenAsleep
<1>. QED
  BY <1>3, <1>4 DEF GarbageIInv, CollectorInv

(* The sleep of the collector can be relied on: asleep it holds no batch and is in  *)
(* no destruction, it stays asleep for the owner who waited for an aborted search,  *)
(* and it does not sleep while something is left of what was queued when it was     *)
(* started last, and nobody has stopped it (NodeGarbageCollector::GCThread, Start,  *)
(* Stop and Wait).                                                                  *)
THEOREM SleepIsReliable == GarbageSpec => []CollectorInv
<1>1. GarbageIInv /\ [GarbageNext]_garbageVars => GarbageIInv'
  BY StepPhases, StepShapes, StepDying, StepOwed DEF GarbageIInv
<1>. QED
  BY GarbageInitIInv, <1>1, GarbageIInvImplies, PTL DEF GarbageSpec
=============================================================================
