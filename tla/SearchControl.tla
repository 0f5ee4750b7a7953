--------------------------- MODULE SearchControl ---------------------------
(***************************************************************************)
(* The life of one Search object of the classic search: when it stops, who *)
(* reports the bestmove and when its threads end                           *)
(* (src/src/search/classic/search.cc).                                     *)
(*                                                                         *)
(* A watchdog thread and the search workers poll the stoppers and answer;  *)
(* the owner calls Stop and Abort from its own thread at any moment.  The  *)
(* flags stop_, ok_to_respond_bestmove_ and bestmove_is_sent_ are written  *)
(* under counters_mutex_ only, so each critical section is one step.       *)
(***************************************************************************)
EXTENDS Integers, FiniteSets

CONSTANTS
  Workers,        \* the search threads
  Watchdog,       \* the watchdog thread
  MaxConcurrent,  \* the option MaxConcurrentSearchers; 0 means no limit
  NoWorker        \* "nobody" for rootClaim

ASSUME WorkersAssumption == IsFiniteSet(Workers) /\ Workers # {}
ASSUME NamesAssumption == Watchdog \notin Workers /\ NoWorker \notin Workers
ASSUME MaxConcurrentAssumption == MaxConcurrent \in Nat

VARIABLES
  stop,          \* stop_
  okToRespond,   \* ok_to_respond_bestmove_
  bestmoveSent,  \* bestmove_is_sent_
  visited,       \* total_playouts_ + initial_visits_ > 0
  rootClaim,     \* the worker with the first visit of a fresh root in flight
  bestEdge,      \* current_best_edge_ is set
  pending,       \* pending_searchers_
  pc,            \* what each thread does next
  seen,          \* the thread's IterationStats say total_nodes > 0
  mine,          \* the worker's minibatch carries visits, not only collisions
  answers,       \* history: bestmoves reported
  lastOutput,    \* history: what was last reported, "none", "info", "bestmove"
  stopAsked,     \* history: Stop was called
  abortCalled    \* history: Abort was called

flags == <<stop, okToRespond, bestmoveSent>>
tree == <<visited, rootClaim>>
local == <<seen, mine>>
history == <<answers, lastOutput, stopAsked, abortCalled>>
vars == <<flags, tree, bestEdge, pending, pc, local, history>>

Threads == Workers \cup {Watchdog}

WatchdogSteps == {"poll", "maybeStop", "output", "decide", "waiting", "exited"}
WorkerSteps ==
  {"begin", "gather", "compute", "backup", "poll", "maybeStop", "output",
   "loop", "exited"}

TypeOK ==
  /\ stop \in BOOLEAN /\ okToRespond \in BOOLEAN /\ bestmoveSent \in BOOLEAN
  /\ visited \in BOOLEAN /\ bestEdge \in BOOLEAN
  /\ rootClaim \in Workers \cup {NoWorker}
  /\ pending \in 0..MaxConcurrent
  /\ pc \in [Threads -> WatchdogSteps \cup WorkerSteps]
  /\ pc[Watchdog] \in WatchdogSteps
  /\ \A w \in Workers : pc[w] \in WorkerSteps
  /\ seen \in [Threads -> BOOLEAN]
  /\ mine \in [Workers -> BOOLEAN]
  /\ answers \in Nat
  /\ lastOutput \in {"none", "info", "bestmove"}
  /\ stopAsked \in BOOLEAN /\ abortCalled \in BOOLEAN

(* The constructor and StartThreads.  `go infinite` and `go ponder` start  *)
(* with okToRespond false, a reused tree with visits at its root.          *)
Init ==
  /\ stop = FALSE
  /\ okToRespond \in BOOLEAN
  /\ bestmoveSent = FALSE
  /\ visited \in BOOLEAN
  /\ rootClaim = NoWorker
  /\ bestEdge = FALSE
  /\ pending = MaxConcurrent
  /\ pc = [t \in Threads |-> IF t = Watchdog THEN "poll" ELSE "begin"]
  /\ seen = [t \in Threads |-> FALSE]
  /\ mine = [w \in Workers |-> FALSE]
  /\ answers = 0
  /\ lastOutput = "none"
  /\ stopAsked = FALSE
  /\ abortCalled = FALSE

At(t, from, to) ==
  /\ pc[t] = from
  /\ pc' = [pc EXCEPT ![t] = to]

----------------------------------------------------------------------------
(* The owner's calls.                                                      *)

Stop ==
  /\ okToRespond' = TRUE
  /\ stop' = TRUE
  /\ stopAsked' = TRUE
  /\ UNCHANGED <<bestmoveSent, tree, bestEdge, pending, pc, local, answers,
                 lastOutput, abortCalled>>

\* Mutant: Abort also silences a search that was stopped and has to answer.
AbortTakesEffect_AfterStop == ~bestmoveSent

AbortTakesEffect == ~stop \/ (~bestmoveSent /\ ~okToRespond)

Abort ==
  /\ IF AbortTakesEffect
     THEN bestmoveSent' = TRUE /\ stop' = TRUE
     ELSE UNCHANGED <<bestmoveSent, stop>>
  /\ abortCalled' = TRUE
  /\ UNCHANGED <<okToRespond, tree, bestEdge, pending, pc, local, answers,
                 lastOutput, stopAsked>>

----------------------------------------------------------------------------
(* Steps the watchdog and the workers share.                               *)

(* PopulateCommonIterationStats takes its snapshot and releases the locks  *)
(* before the stoppers see it.                                             *)
PopulateStats(t) ==
  /\ At(t, "poll", "maybeStop")
  /\ seen' = [seen EXCEPT ![t] = visited]
  /\ UNCHANGED <<flags, tree, bestEdge, pending, mine, history>>

\* Mutant: a bestmove that was already sent is not noticed.
NothingToDecide_SentIgnored(t) == ~seen[t]

NothingToDecide(t) == bestmoveSent \/ ~seen[t]

(* Whether stopper_->ShouldStop says yes depends on clocks and statistics: *)
(* it may say either.                                                      *)
MaybeTriggerStop(t) ==
  /\ At(t, "maybeStop", "output")
  /\ IF NothingToDecide(t)
     THEN UNCHANGED <<flags, bestEdge, history>>
     ELSE /\ stop' \in {stop, TRUE}
          /\ IF stop' /\ okToRespond
             THEN /\ bestmoveSent' = TRUE
                  /\ bestEdge' = FALSE
                  /\ answers' = answers + 1
                  /\ lastOutput' = "bestmove"
             ELSE UNCHANGED <<bestmoveSent, bestEdge, answers, lastOutput>>
          /\ UNCHANGED <<okToRespond, stopAsked, abortCalled>>
  /\ UNCHANGED <<tree, pending, local>>

\* Mutant: a settled search still shows a best edge found by a late backup.
MayShowInfo_Settled == bestEdge

MayShowInfo == ~bestmoveSent /\ bestEdge

(* Whether enough changed since the last report is left open. *)
MaybeOutputInfo(t) ==
  /\ At(t, "output", IF t = Watchdog THEN "decide" ELSE "loop")
  /\ lastOutput' \in
       {lastOutput} \cup (IF MayShowInfo THEN {"info"} ELSE {})
  /\ UNCHANGED <<flags, tree, bestEdge, pending, local, answers, stopAsked,
                 abortCalled>>

----------------------------------------------------------------------------
(* The watchdog.                                                           *)

\* Mutant: the watchdog leaves as soon as the search stops.
WatchdogGoesTo_ExitsOnStop == IF stop THEN "exited" ELSE "waiting"

WatchdogGoesTo ==
  IF bestmoveSent THEN "exited" ELSE IF stop THEN "poll" ELSE "waiting"

(* wait_for returns at once when its predicate, stop_, already holds. *)
WatchdogDecide ==
  /\ At(Watchdog, "decide", WatchdogGoesTo)
  /\ UNCHANGED <<flags, tree, bestEdge, pending, local, history>>

(* A notification or the timeout of at most 100 ms. *)
WatchdogWake ==
  /\ At(Watchdog, "waiting", "poll")
  /\ UNCHANGED <<flags, tree, bestEdge, pending, local, history>>

----------------------------------------------------------------------------
(* The workers.                                                            *)

(* The check of stop_ and the compare-exchange on pending_searchers_ are   *)
(* two accesses: a slot can be taken after stop_ was set.  With no limit   *)
(* there is nothing to take.                                               *)
TakeSlot(w) ==
  /\ MaxConcurrent # 0 => pending > 0
  /\ At(w, "begin", "gather")
  /\ pending' = IF MaxConcurrent = 0 THEN pending ELSE pending - 1
  /\ UNCHANGED <<flags, tree, bestEdge, local, history>>

SkipIteration(w) ==
  /\ MaxConcurrent # 0
  /\ stop /\ visited
  /\ At(w, "begin", "loop")
  /\ UNCHANGED <<flags, tree, bestEdge, pending, local, history>>

(* Until the root has its first visit only one worker can claim it; the    *)
(* others pick nothing but collisions.  A cache hit or a terminal is       *)
(* backed up before the network runs ("out of order").                     *)
Gather(w) ==
  /\ At(w, "gather", "compute")
  /\ \/ /\ ~visited /\ rootClaim = NoWorker
        /\ rootClaim' = w
        /\ mine' = [mine EXCEPT ![w] = TRUE]
        /\ UNCHANGED <<visited, bestEdge>>
     \/ /\ ~visited /\ rootClaim # NoWorker
        /\ mine' = [mine EXCEPT ![w] = FALSE]
        /\ UNCHANGED <<tree, bestEdge>>
     \/ /\ visited
        /\ \E b \in BOOLEAN : mine' = [mine EXCEPT ![w] = b]
        /\ bestEdge' \in {bestEdge, TRUE}
        /\ UNCHANGED tree
     \/ /\ ~visited /\ rootClaim = NoWorker
        /\ visited' = TRUE
        /\ \E b \in BOOLEAN : mine' = [mine EXCEPT ![w] = b]
        /\ bestEdge' \in {bestEdge, TRUE}
        /\ UNCHANGED rootClaim
  /\ UNCHANGED <<flags, pending, seen, history>>

\* Mutant: the slot is not given back.
SlotsReturned_Leak == pending

\* Mutant: the slot is given back although there is no limit, or twice.
SlotsReturned_Twice == pending + 2

SlotsReturned == IF MaxConcurrent = 0 THEN pending ELSE pending + 1

(* The slot is given back before the blocking network computation. *)
ReleaseSlot(w) ==
  /\ At(w, "compute", "backup")
  /\ pending' = SlotsReturned
  /\ UNCHANGED <<flags, tree, bestEdge, local, history>>

(* A late backup may set current_best_edge_ again after the answer. *)
Backup(w) ==
  /\ At(w, "backup", "poll")
  /\ IF mine[w]
     THEN /\ bestEdge' \in (IF visited THEN {bestEdge, TRUE} ELSE {bestEdge})
          /\ visited' = TRUE
          /\ rootClaim' = IF rootClaim = w THEN NoWorker ELSE rootClaim
     ELSE UNCHANGED <<tree, bestEdge>>
  /\ UNCHANGED <<flags, pending, local, history>>

(* do ... while (IsSearchActive()): at least one iteration runs. *)
LoopCheck(w) ==
  /\ At(w, "loop", IF stop THEN "exited" ELSE "begin")
  /\ UNCHANGED <<flags, tree, bestEdge, pending, local, history>>

----------------------------------------------------------------------------
WatchdogNext ==
  \/ PopulateStats(Watchdog)
  \/ MaybeTriggerStop(Watchdog)
  \/ MaybeOutputInfo(Watchdog)
  \/ WatchdogDecide
  \/ WatchdogWake

WorkerNext(w) ==
  \/ TakeSlot(w)
  \/ SkipIteration(w)
  \/ Gather(w)
  \/ ReleaseSlot(w)
  \/ Backup(w)
  \/ PopulateStats(w)
  \/ MaybeTriggerStop(w)
  \/ MaybeOutputInfo(w)
  \/ LoopCheck(w)

Next ==
  \/ Stop
  \/ Abort
  \/ WatchdogNext
  \/ \E w \in Workers : WorkerNext(w)

Spec == Init /\ [][Next]_vars

(* Every thread keeps being scheduled and the network answers.  Nothing is *)
(* assumed of the owner or of the stoppers.                                *)
FairSpec ==
  /\ Spec
  /\ WF_vars(WatchdogNext)
  /\ \A w \in Workers : WF_vars(WorkerNext(w))

----------------------------------------------------------------------------
(* Correctness.                                                            *)

(* Whichever of the threads see the stop first, and however the owner's    *)
(* calls interleave with them, at most one of them reports a bestmove      *)
(* (bestmove_is_sent_), and none reports one for a search whose root has   *)
(* no visit yet, nor for `go infinite` or `go ponder` before Stop.         *)
AnswerDiscipline ==
  /\ answers <= 1
  /\ answers = 1 => visited
  /\ okToRespond \/ answers = 0

(* After the bestmove, or after an Abort that took effect, the search      *)
(* reports nothing any more, although workers are still backing up and     *)
(* may set a new current_best_edge_.                                       *)
QuietWhenSettled ==
  [][bestmoveSent => UNCHANGED <<answers, lastOutput>>]_vars

(* The slots of pending_searchers_ are neither lost nor forged: those free *)
(* and those held by gathering workers add up to the option's value.       *)
Gathering == {w \in Workers : pc[w] \in {"gather", "compute"}}

SlotsConserved ==
  MaxConcurrent # 0 => pending + Cardinality(Gathering) = MaxConcurrent

(* A search that was told to stop, or reached a limit, and may respond     *)
(* does report its bestmove: no later Abort, no thread that already left   *)
(* and no root still without a visit can swallow it.                       *)
StopIsAnswered ==
  (stop /\ okToRespond /\ ~bestmoveSent) ~> (answers = 1)

(* Once the search is settled all its threads end, so Wait returns. *)
AllExited == \A t \in Threads : pc[t] = "exited"
ThreadsEnd == bestmoveSent ~> AllExited

(* A search that was told to stop comes to its end: it answers, and its     *)
(* threads leave.                                                          *)
SearchEnds == StopIsAnswered /\ ThreadsEnd

(* The promise this component keeps. *)
Outcome ==
  IF ~bestmoveSent THEN "open" ELSE IF answers > 0 THEN "bestmove" ELSE "silent"

Promise ==
  INSTANCE SearchPromise
    WITH limit <- stop, mayAnswer <- okToRespond, outcome <- Outcome,
         live <- ~AllExited

KeepsPromise == Promise!Spec

============================================================================
