------------------------------- MODULE TaskPool -------------------------------
(***************************************************************************)
(* The helper threads of one SearchWorker (search/classic): the worker     *)
(* publishes tasks, to gather in a part of the tree or to process a part   *)
(* of the minibatch, in picking_tasks_, and waits until all are completed. *)
(* The tasks are handed out by three atomic counters and a spin bit; the   *)
(* helpers sleep on task_added_ only while the task count is -1.  Every    *)
(* load and store of a counter is a step; a critical section of            *)
(* picking_tasks_mutex_ is one step, as nothing in it waits.               *)
(***************************************************************************)
EXTENDS Integers, FiniteSets

CONSTANTS Helper, NoHelper,
          RunsOnCpu,   \* backend_attributes_.runs_on_cpu
          MaxTasks,    \* MAX_TASKS: the room reserved in picking_tasks_
          MaxRounds    \* bound on the rounds of the gathering loop

ASSUME PoolAssumption ==
  /\ Helper # {} /\ IsFiniteSet(Helper) /\ NoHelper \notin Helper
  /\ RunsOnCpu \in BOOLEAN /\ MaxTasks \in Nat \ {0} /\ MaxRounds \in Nat

VARIABLES
  at,         \* where the SearchWorker is
  rounds,     \* picks so far
  gathering,  \* the tasks published now are kGathering, not kProcessing
  count,      \* task_count_
  taken,      \* tasks_taken_
  completed,  \* completed_tasks_
  size,       \* picking_tasks_.size()
  complete,   \* the tasks whose flag "complete" is set
  seen,       \* the worker's load of completed_tasks_ in WaitForTasks
  exiting,    \* exiting_
  taking,     \* who has set task_taking_started_
  pc,         \* where each helper is
  nta,        \* its load of tasks_taken_
  id          \* the task it took

worker  == <<at, rounds, gathering, seen, exiting>>
counts  == <<count, taken, completed>>
tasks   == <<size, complete>>
helpers == <<taking, pc, nta, id>>
vars    == <<worker, counts, tasks, helpers>>

Goto(h, l) == pc' = [pc EXCEPT ![h] = l]
\* task_added_.notify_all(): those that wait may go on.
NotifyAll  == pc' = [h \in Helper |-> IF pc[h] = "wait" THEN "awake" ELSE pc[h]]

Init ==
  /\ at = "idle" /\ rounds = 0 /\ gathering = TRUE /\ seen = 0
  /\ exiting = FALSE
  /\ count = -1 /\ taken = 0 /\ completed = 0
  /\ size = 0 /\ complete = {}
  /\ taking = NoHelper
  /\ pc = [h \in Helper |-> "look"]
  /\ nta = [h \in Helper |-> 0] /\ id = [h \in Helper |-> 0]

-----------------------------------------------------------------------------
\* The SearchWorker.  ResetTasks: three stores, then the vector is cleared.
ResetStep_TakenFirst(n) ==
  CASE n = 1 -> taken' = 0 /\ UNCHANGED <<count, completed>>
    [] n = 2 -> count' = 0 /\ UNCHANGED <<taken, completed>>
    [] n = 3 -> completed' = 0 /\ UNCHANGED <<count, taken>>
ResetStep(n) ==
  CASE n = 1 -> count' = 0 /\ UNCHANGED <<taken, completed>>
    [] n = 2 -> taken' = 0 /\ UNCHANGED <<count, completed>>
    [] n = 3 -> completed' = 0 /\ UNCHANGED <<count, taken>>

\* A pick begins, in a new iteration or in another round of GatherMinibatch.
BeginPick ==
  /\ at \in {"idle", "round"} /\ rounds < MaxRounds
  /\ rounds' = rounds + 1
  /\ gathering' = TRUE /\ at' = "reset1"
  /\ UNCHANGED <<seen, exiting, counts, tasks, helpers>>

\* Enough visits were gathered to share their processing.
BeginProcessing ==
  /\ at = "picked"
  /\ gathering' = FALSE /\ at' = "reset1"
  /\ UNCHANGED <<rounds, seen, exiting, counts, tasks, helpers>>

ResetCount ==
  /\ at = "reset1" /\ ResetStep(1) /\ at' = "reset2"
  /\ UNCHANGED <<rounds, gathering, seen, exiting, tasks, helpers>>
ResetTaken ==
  /\ at = "reset2" /\ ResetStep(2) /\ at' = "reset3"
  /\ UNCHANGED <<rounds, gathering, seen, exiting, tasks, helpers>>
\* Only a pick wakes the helpers, and only if the backend is not the CPU.
WakeHelpers == gathering /\ ~RunsOnCpu
ResetRest ==
  /\ at = "reset3" /\ ResetStep(3)
  /\ size' = 0 /\ complete' = {}
  /\ at' = IF WakeHelpers THEN "notify" ELSE "publish"
  /\ UNCHANGED <<rounds, gathering, seen, exiting, helpers>>
Notify ==
  /\ at = "notify" /\ NotifyAll /\ at' = "publish"
  /\ UNCHANGED <<rounds, gathering, seen, exiting, counts, tasks, taking, nta, id>>

\* PickNodesToExtendTask splits off a task, here by the SearchWorker or by a
\* helper; a processing task is added without a lock and without a wake-up.
SplitOff ==
  /\ size < MaxTasks
  /\ size' = size + 1 /\ count' = count + 1
  /\ UNCHANGED <<taken, completed, complete>>
Publish ==
  /\ at = "publish" /\ SplitOff
  /\ IF gathering THEN NotifyAll ELSE UNCHANGED pc
  /\ UNCHANGED <<worker, taking, nta, id>>

\* WaitForTasks, after the worker's own part of the work.
LoadCompleted ==
  /\ at \in {"publish", "waiting"}
  /\ seen' = completed /\ at' = "compare"
  /\ UNCHANGED <<rounds, gathering, exiting, counts, tasks, helpers>>
AllDone_TakenSuffices == taken = count
AllDone == seen = count
Compare ==
  /\ at = "compare"
  /\ at' = IF ~AllDone THEN "waiting" ELSE IF gathering THEN "picked" ELSE "round"
  /\ UNCHANGED <<rounds, gathering, seen, exiting, counts, tasks, helpers>>
\* Too few visits for sharing: the worker processes them itself.
ProcessAlone ==
  /\ at = "picked" /\ at' = "round"
  /\ UNCHANGED <<rounds, gathering, seen, exiting, counts, tasks, helpers>>

\* GatherMinibatch has returned.
EndGather ==
  /\ at = "round" /\ at' = "idle"
  /\ count' = -1
  /\ UNCHANGED <<rounds, gathering, seen, exiting, taken, completed, tasks,
                 helpers>>

\* ~SearchWorker.
WakeToExit_Never == UNCHANGED pc
WakeToExit == NotifyAll
Destroy ==
  /\ at = "idle" /\ at' = "destroyed"
  /\ count' = -1 /\ exiting' = TRUE /\ WakeToExit
  /\ UNCHANGED <<rounds, gathering, seen, taken, completed, tasks, taking, nta,
                 id>>

-----------------------------------------------------------------------------
\* RunTasks.  First a look at the counters without any lock ...
Look(h) ==
  /\ pc[h] = "look" /\ Goto(h, "look2")
  /\ nta' = [nta EXCEPT ![h] = taken]
  /\ UNCHANGED <<worker, counts, tasks, taking, id>>
Look2(h) ==
  /\ pc[h] = "look2"
  /\ Goto(h, IF nta[h] < count THEN "grab" ELSE IF count # -1 THEN "look"
             ELSE "doze")
  /\ UNCHANGED <<worker, counts, tasks, taking, nta, id>>

\* ... then task_taking_started_, and under it a second look.
Grab(h) ==
  /\ pc[h] = "grab" /\ taking = NoHelper
  /\ taking' = h /\ Goto(h, "check")
  /\ UNCHANGED <<worker, counts, tasks, nta, id>>
GrabFails(h) ==
  /\ pc[h] = "grab" /\ Goto(h, "look")
  /\ UNCHANGED <<worker, counts, tasks, taking, nta, id>>
Check(h) ==
  /\ pc[h] = "check" /\ Goto(h, "check2")
  /\ nta' = [nta EXCEPT ![h] = taken]
  /\ UNCHANGED <<worker, counts, tasks, taking, id>>
StillThere(h) == nta[h] < count
Check2(h) ==
  /\ pc[h] = "check2"
  /\ IF StillThere(h) THEN Goto(h, "take") /\ UNCHANGED taking
                      ELSE Goto(h, "look") /\ taking' = NoHelper
  /\ UNCHANGED <<worker, counts, tasks, nta, id>>
Take(h) ==
  /\ pc[h] = "take" /\ Goto(h, "run")
  /\ id' = [id EXCEPT ![h] = taken + 1] /\ taken' = taken + 1
  /\ taking' = NoHelper
  /\ UNCHANGED <<worker, count, completed, tasks, nta>>

\* A gathering task may split off further tasks while it runs.
Split(h) ==
  /\ pc[h] = "run" /\ gathering /\ SplitOff /\ NotifyAll
  /\ UNCHANGED <<worker, taking, nta, id>>
Finish(h) ==
  /\ pc[h] = "run" /\ Goto(h, "finish")
  /\ complete' = complete \cup {id[h]}
  /\ UNCHANGED <<worker, counts, size, taking, nta, id>>
Complete(h) ==
  /\ pc[h] = "finish" /\ Goto(h, "look")
  /\ completed' = completed + 1
  /\ UNCHANGED <<worker, count, taken, tasks, taking, nta, id>>

\* "Looks like sleep time": the counters are loaded again under the mutex.
Doze(h) ==
  /\ pc[h] = "doze"
  /\ Goto(h, IF count # -1 THEN "look" ELSE IF exiting THEN "gone" ELSE "wait")
  /\ UNCHANGED <<worker, counts, tasks, taking, nta, id>>
\* condition_variable::wait may also return without a notification.
SpuriousWake(h) ==
  /\ pc[h] = "wait" /\ Goto(h, "awake")
  /\ UNCHANGED <<worker, counts, tasks, taking, nta, id>>
Awake(h) ==
  /\ pc[h] = "awake"
  /\ Goto(h, IF taken >= count /\ exiting THEN "gone" ELSE "look")
  /\ UNCHANGED <<worker, counts, tasks, taking, nta, id>>

\* At "grab" the compare-exchange may fail, even spuriously (it is "weak").
RunTasks(h) == \/ Look(h) \/ Look2(h) \/ Grab(h) \/ Check(h) \/ Check2(h)
               \/ Take(h) \/ Finish(h) \/ Complete(h) \/ Doze(h) \/ Awake(h)
Reset == ResetCount \/ ResetTaken \/ ResetRest \/ Notify
Wait  == LoadCompleted \/ Compare
Work  == \/ BeginPick \/ BeginProcessing \/ Reset \/ Wait \/ ProcessAlone
         \/ EndGather \/ Destroy
Next  == \/ Work \/ Publish
         \/ \E h \in Helper :
              RunTasks(h) \/ GrabFails(h) \/ Split(h) \/ SpuriousWake(h)
Spec == Init /\ [][Next]_vars

\* Threads that can run keep running.  The compare-exchange does not fail for
\* ever while nobody holds the bit; nothing obliges a wait to end unnotified.
Fairness == /\ WF_vars(Work)
            /\ \A h \in Helper : WF_vars(RunTasks(h)) /\ SF_vars(Grab(h))
FairSpec == Spec /\ Fairness

-----------------------------------------------------------------------------
TypeOK ==
  /\ at \in {"idle", "reset1", "reset2", "reset3", "notify", "publish",
             "waiting", "compare", "picked", "round", "destroyed"}
  /\ rounds \in 0..MaxRounds /\ gathering \in BOOLEAN /\ exiting \in BOOLEAN
  /\ count \in -1..MaxTasks
  /\ {taken, completed, size, seen} \subseteq 0..MaxTasks
  /\ complete \subseteq 1..MaxTasks
  /\ taking \in Helper \cup {NoHelper}
  /\ pc \in [Helper -> {"look", "look2", "grab", "check", "check2", "take",
                        "run", "finish", "doze", "wait", "awake", "gone"}]
  /\ nta \in [Helper -> 0..MaxTasks] /\ id \in [Helper -> 0..MaxTasks]

Running == {h \in Helper : pc[h] \in {"run", "finish"}}

\* A helper only ever runs a task that was published and not cleared since, that
\* nobody else runs, and that was not run before: ResetTasks happens under the
\* eyes of helpers that hold counters of the previous round.
EveryTaskRunsOnce ==
  /\ \A h \in Running : id[h] \in 1..size
  /\ \A h \in Running : pc[h] = "run" => id[h] \notin complete
  /\ \A g, h \in Running : id[g] = id[h] => g = h

\* The helpers work on the tree and on the minibatch on behalf of the lock their
\* SearchWorker holds ("the tasks perform work which assumes they have the
\* lock"): outside of its picking and processing none of them runs a task.
NoneOutlivesTheWait == Running # {} => at \in {"publish", "waiting", "compare"}

\* No wake-up is missed.  "Spin lock, other tasks should be done soon" (WaitForTasks):
\* the tasks get done, whatever was published, and the worker goes on; ~SearchWorker,
\* after which nothing is published any more, can join its helpers.
NoWakeUpIsMissed ==
  at \in {"waiting", "destroyed"} ~>
    at \in {"picked", "round"} \/ \A h \in Helper : pc[h] = "gone"

\* No interleaving of the helpers with the counters' resets loses a task, runs one
\* twice, reads beyond the list or leaves one running when the worker goes on.
TasksInv == TypeOK /\ EveryTaskRunsOnce /\ NoneOutlivesTheWait
===============================================================================
