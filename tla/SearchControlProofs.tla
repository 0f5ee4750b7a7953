------------------------ MODULE SearchControlProofs ------------------------
(***************************************************************************)
(* What holds of SearchControl for every set of workers and every number   *)
(* of slots: the types, the conservation of slots, the answer discipline,  *)
(* silence after the search is settled, and the safety part of             *)
(* SearchPromise.                                                          *)
(***************************************************************************)
EXTENDS SearchControl, FiniteSetTheorems, TLAPS

(* The flags and the statistics agree: a sent bestmove stopped the search, *)
(* an answer was sent, was allowed and had visits behind it, and a thread  *)
(* has never seen more visits than there are.                              *)
FlagsAgree ==
  /\ bestmoveSent => stop
  /\ answers \in {0, 1}
  /\ answers = 1 => bestmoveSent /\ okToRespond /\ visited
  /\ \A t \in Threads : seen[t] => visited
  /\ pc[Watchdog] = "exited" => bestmoveSent

(* With no limit nobody counts slots. *)
SlotsAgree ==
  /\ SlotsConserved
  /\ MaxConcurrent = 0 => pending = 0

IInv == TypeOK /\ FlagsAgree /\ SlotsAgree

(* A worker that takes a slot was not gathering; one that returns it was. *)
LEMMA GatheringCount ==
  /\ IsFiniteSet(Gathering) /\ Cardinality(Gathering) \in Nat
  /\ \A w \in Workers :
       /\ w \notin Gathering =>
            Cardinality(Gathering \cup {w}) = Cardinality(Gathering) + 1
       /\ w \in Gathering =>
            /\ Cardinality(Gathering \ {w}) = Cardinality(Gathering) - 1
            /\ Cardinality(Gathering) > 0
<1>1. IsFiniteSet(Gathering)
  <2>1. Gathering \in SUBSET Workers
    BY DEF Gathering
  <2>. QED
    BY <2>1, WorkersAssumption, FS_Subset
<1>2. Cardinality(Gathering) \in Nat
  BY <1>1, FS_CardinalityType
<1>3. ASSUME NEW w \in Workers, w \notin Gathering
      PROVE  Cardinality(Gathering \cup {w}) = Cardinality(Gathering) + 1
  BY <1>1, <1>3, FS_AddElement
<1>4. ASSUME NEW w \in Workers, w \in Gathering
      PROVE  /\ Cardinality(Gathering \ {w}) = Cardinality(Gathering) - 1
             /\ Cardinality(Gathering) > 0
  <2>1. Cardinality(Gathering \ {w}) = Cardinality(Gathering) - 1
    BY <1>1, <1>4, FS_RemoveElement
  <2>2. Gathering # {}
    BY <1>4
  <2>3. Cardinality(Gathering) # 0
    BY <2>2, <1>1, FS_EmptySet
  <2>. QED
    BY <2>1, <2>3, <1>2
<1>. QED
  BY <1>1, <1>2, <1>3, <1>4

LEMMA InitIInv == Init => IInv
<1>. SUFFICES ASSUME Init PROVE IInv
  OBVIOUS
<1>. USE WorkersAssumption, NamesAssumption, MaxConcurrentAssumption DEF Init
<1>1. TypeOK
  <2>1. /\ pc \in [Threads -> WatchdogSteps \cup WorkerSteps]
        /\ pc[Watchdog] \in WatchdogSteps
        /\ \A w \in Workers : pc[w] \in WorkerSteps
    BY DEF Threads, WatchdogSteps, WorkerSteps
  <2>2. seen \in [Threads -> BOOLEAN] /\ mine \in [Workers -> BOOLEAN]
    OBVIOUS
  <2>3. pending \in 0..MaxConcurrent
    OBVIOUS
  <2>. QED
    BY <2>1, <2>2, <2>3 DEF TypeOK
<1>2. FlagsAgree
  BY DEF FlagsAgree, Threads
<1>3. SlotsAgree
  <2>1. Gathering = {}
    BY DEF Gathering, Threads
  <2>2. Cardinality(Gathering) = 0
    BY <2>1, FS_EmptySet
  <2>. QED
    BY <2>2 DEF SlotsAgree, SlotsConserved
<1>. QED
  BY <1>1, <1>2, <1>3 DEF IInv

(* The types and the agreement of the flags, step by step. *)
LEMMA StepFlags ==
  ASSUME TypeOK, FlagsAgree, SlotsAgree, [Next]_vars
  PROVE  FlagsAgree'
<1>. USE NamesAssumption DEF TypeOK, FlagsAgree, Threads, flags, tree, local,
       history, At
<1>1. CASE Stop
  BY <1>1 DEF Stop
<1>2. CASE Abort
  BY <1>2 DEF Abort, AbortTakesEffect
<1>3. ASSUME NEW t \in Threads, PopulateStats(t)
      PROVE  FlagsAgree'
  BY <1>3 DEF PopulateStats
<1>4. ASSUME NEW t \in Threads, MaybeTriggerStop(t)
      PROVE  FlagsAgree'
  <2>1. CASE NothingToDecide(t)
    BY <1>4, <2>1 DEF MaybeTriggerStop
  <2>2. CASE ~NothingToDecide(t) /\ stop' /\ okToRespond
    BY <1>4, <2>2 DEF MaybeTriggerStop, NothingToDecide
  <2>3. CASE ~NothingToDecide(t) /\ ~(stop' /\ okToRespond)
    BY <1>4, <2>3 DEF MaybeTriggerStop, NothingToDecide
  <2>. QED
    BY <2>1, <2>2, <2>3
<1>5. ASSUME NEW t \in Threads, MaybeOutputInfo(t)
      PROVE  FlagsAgree'
  BY <1>5 DEF MaybeOutputInfo
<1>6. CASE WatchdogDecide
  BY <1>6 DEF WatchdogDecide, WatchdogGoesTo
<1>7. CASE WatchdogWake
  BY <1>7 DEF WatchdogWake
<1>8. ASSUME NEW w \in Workers,
             \/ TakeSlot(w) \/ SkipIteration(w)
             \/ ReleaseSlot(w) \/ LoopCheck(w)
      PROVE  FlagsAgree'
  BY <1>8 DEF TakeSlot, SkipIteration, ReleaseSlot, LoopCheck
<1>9. ASSUME NEW w \in Workers, Gather(w)
      PROVE  FlagsAgree'
  BY <1>9 DEF Gather
<1>10. ASSUME NEW w \in Workers, Backup(w)
       PROVE  FlagsAgree'
  BY <1>10 DEF Backup
<1>11. CASE UNCHANGED vars
  BY <1>11 DEF vars
<1>. QED
  BY <1>1, <1>2, <1>3, <1>4, <1>5, <1>6, <1>7, <1>8, <1>9, <1>10, <1>11
     DEF Next, WatchdogNext, WorkerNext

(* Steps that move no thread into or out of its gathering phase. *)
LEMMA StepSlots ==
  ASSUME TypeOK, SlotsAgree, [Next]_vars
  PROVE  SlotsAgree' /\ pending' \in 0..MaxConcurrent
<1>. USE NamesAssumption, MaxConcurrentAssumption
<1>1. ASSUME pending' = pending, Gathering' = Gathering
      PROVE  SlotsAgree' /\ pending' \in 0..MaxConcurrent
  BY <1>1 DEF SlotsAgree, SlotsConserved, TypeOK
<1>2. CASE Stop \/ Abort \/ UNCHANGED vars
  BY <1>1, <1>2 DEF Stop, Abort, vars, Gathering
<1>3. ASSUME NEW t \in Threads,
             PopulateStats(t) \/ MaybeTriggerStop(t) \/ MaybeOutputInfo(t)
      PROVE  SlotsAgree' /\ pending' \in 0..MaxConcurrent
  <2>1. pending' = pending
    BY <1>3 DEF PopulateStats, MaybeTriggerStop, MaybeOutputInfo
  <2>2. \E from \in {"poll", "maybeStop", "output"},
           to \in {"maybeStop", "output", "decide", "loop"} : At(t, from, to)
    BY <1>3 DEF PopulateStats, MaybeTriggerStop, MaybeOutputInfo
  <2>3. Gathering' = Gathering
    BY <2>2 DEF At, Gathering, TypeOK
  <2>. QED
    BY <1>1, <2>1, <2>3
<1>4. CASE WatchdogDecide \/ WatchdogWake
  BY <1>1, <1>4
     DEF WatchdogDecide, WatchdogWake, WatchdogGoesTo, At, Gathering, TypeOK,
         Threads
<1>5. ASSUME NEW w \in Workers,
             SkipIteration(w) \/ Gather(w) \/ Backup(w) \/ LoopCheck(w)
      PROVE  SlotsAgree' /\ pending' \in 0..MaxConcurrent
  BY <1>1, <1>5
     DEF SkipIteration, Gather, Backup, LoopCheck, At, Gathering, TypeOK, Threads
<1>6. ASSUME NEW w \in Workers, TakeSlot(w), MaxConcurrent = 0
      PROVE  SlotsAgree' /\ pending' \in 0..MaxConcurrent
  BY <1>6 DEF TakeSlot, At, SlotsAgree, SlotsConserved, TypeOK
<1>7. ASSUME NEW w \in Workers, TakeSlot(w), MaxConcurrent # 0
      PROVE  SlotsAgree' /\ pending' \in 0..MaxConcurrent
  <2>1. w \notin Gathering
    BY <1>7 DEF TakeSlot, At, Gathering
  <2>2. Gathering' = Gathering \cup {w}
    BY <1>7 DEF TakeSlot, At, Gathering, TypeOK, Threads
  <2>3. Cardinality(Gathering') = Cardinality(Gathering) + 1
    BY <2>1, <2>2, GatheringCount
  <2>. QED
    BY <1>7, <2>3, GatheringCount
       DEF TakeSlot, SlotsAgree, SlotsConserved, TypeOK
<1>8. ASSUME NEW w \in Workers, ReleaseSlot(w)
      PROVE  SlotsAgree' /\ pending' \in 0..MaxConcurrent
  <2>1. w \in Gathering
    BY <1>8 DEF ReleaseSlot, At, Gathering
  <2>2. Gathering' = Gathering \ {w}
    BY <1>8 DEF ReleaseSlot, At, Gathering, TypeOK, Threads
  <2>3. /\ Cardinality(Gathering') = Cardinality(Gathering) - 1
        /\ Cardinality(Gathering) > 0
    BY <2>1, <2>2, GatheringCount
  <2>. QED
    BY <1>8, <2>3, GatheringCount
       DEF ReleaseSlot, SlotsReturned, SlotsAgree, SlotsConserved, TypeOK
<1>. QED
  BY <1>2, <1>3, <1>4, <1>5, <1>6, <1>7, <1>8
     DEF Next, WatchdogNext, WorkerNext, Threads

LEMMA StepTypeOK ==
  ASSUME TypeOK, pending' \in 0..MaxConcurrent, [Next]_vars
  PROVE  TypeOK'
<1>. USE NamesAssumption
     DEF TypeOK, Threads, WatchdogSteps, WorkerSteps, flags, tree, local,
         history, At
<1>1. CASE Stop
  BY <1>1 DEF Stop
<1>2. CASE Abort
  BY <1>2, ZenonT(40) DEF Abort
<1>3. ASSUME NEW t \in Threads, PopulateStats(t)
      PROVE  TypeOK'
  BY <1>3 DEF PopulateStats
<1>4. ASSUME NEW t \in Threads, MaybeTriggerStop(t)
      PROVE  TypeOK'
  <2>1. CASE NothingToDecide(t)
    BY <1>4, <2>1 DEF MaybeTriggerStop
  <2>2. CASE ~NothingToDecide(t)
    <3>1. stop' \in BOOLEAN /\ bestmoveSent' \in BOOLEAN /\ bestEdge' \in BOOLEAN
      BY <1>4, <2>2, Zenon DEF MaybeTriggerStop
    <3>2. answers' \in Nat /\ lastOutput' \in {"none", "info", "bestmove"}
      BY <1>4, <2>2 DEF MaybeTriggerStop
    <3>. QED
      BY <1>4, <2>2, <3>1, <3>2 DEF MaybeTriggerStop
  <2>. QED
    BY <2>1, <2>2
<1>5. ASSUME NEW t \in Threads, MaybeOutputInfo(t)
      PROVE  TypeOK'
  BY <1>5 DEF MaybeOutputInfo
<1>6. CASE WatchdogDecide
  BY <1>6 DEF WatchdogDecide, WatchdogGoesTo
<1>7. CASE WatchdogWake
  BY <1>7 DEF WatchdogWake
<1>8. ASSUME NEW w \in Workers,
             \/ TakeSlot(w) \/ SkipIteration(w)
             \/ ReleaseSlot(w) \/ LoopCheck(w)
      PROVE  TypeOK'
  BY <1>8 DEF TakeSlot, SkipIteration, ReleaseSlot, LoopCheck
<1>9. ASSUME NEW w \in Workers, Gather(w)
      PROVE  TypeOK'
  BY <1>9, ZenonT(40) DEF Gather
<1>10. ASSUME NEW w \in Workers, Backup(w)
       PROVE  TypeOK'
  BY <1>10 DEF Backup
<1>11. CASE UNCHANGED vars
  BY <1>11 DEF vars
<1>. QED
  BY <1>1, <1>2, <1>3, <1>4, <1>5, <1>6, <1>7, <1>8, <1>9, <1>10, <1>11
     DEF Next, WatchdogNext, WorkerNext

LEMMA StepIInv == IInv /\ [Next]_vars => IInv'
  BY StepFlags, StepSlots, StepTypeOK DEF IInv

LEMMA Inductive == Spec => []IInv
  BY InitIInv, StepIInv, PTL DEF Spec

----------------------------------------------------------------------------
(* Every variable keeps its type; pending_searchers_ stays within the      *)
(* option's value.                                                         *)
THEOREM TypeCorrect == Spec => []TypeOK
<1>1. IInv => TypeOK
  BY DEF IInv
<1>. QED
  BY <1>1, Inductive, PTL

(* pending_searchers_ is conserved, for any number of workers and slots. *)
THEOREM SlotsNeitherLostNorForged == Spec => []SlotsConserved
<1>1. IInv => SlotsConserved
  BY DEF IInv, SlotsAgree
<1>. QED
  BY <1>1, Inductive, PTL

(* At most one bestmove, never for a root without visits, never before     *)
(* Stop in an infinite or ponder search.                                   *)
THEOREM AtMostOneAnswer == Spec => []AnswerDiscipline
<1>1. IInv => AnswerDiscipline
  BY DEF IInv, FlagsAgree, AnswerDiscipline
<1>. QED
  BY <1>1, Inductive, PTL

(* A settled search reports nothing. *)
THEOREM SettledIsQuiet == Spec => QuietWhenSettled
<1>1. ASSUME [Next]_vars, bestmoveSent
      PROVE  UNCHANGED <<answers, lastOutput>>
  <2>. USE <1>1 DEF At, history, local, tree, flags
  <2>1. CASE Stop \/ Abort \/ UNCHANGED vars
    BY <2>1 DEF Stop, Abort, vars
  <2>2. ASSUME NEW t \in Threads,
               PopulateStats(t) \/ MaybeTriggerStop(t) \/ MaybeOutputInfo(t)
        PROVE  UNCHANGED <<answers, lastOutput>>
    BY <2>2 DEF PopulateStats, MaybeTriggerStop, NothingToDecide,
                MaybeOutputInfo, MayShowInfo
  <2>3. CASE WatchdogDecide \/ WatchdogWake
    BY <2>3 DEF WatchdogDecide, WatchdogWake
  <2>4. ASSUME NEW w \in Workers,
               \/ TakeSlot(w) \/ SkipIteration(w)
               \/ Gather(w) \/ ReleaseSlot(w) \/ Backup(w) \/ LoopCheck(w)
        PROVE  UNCHANGED <<answers, lastOutput>>
    BY <2>4 DEF TakeSlot, SkipIteration, Gather, ReleaseSlot,
                Backup, LoopCheck
  <2>. QED
    BY <2>1, <2>2, <2>3, <2>4 DEF Next, WatchdogNext, WorkerNext, Threads
<1>2. [Next]_vars => [bestmoveSent => UNCHANGED <<answers, lastOutput>>]_vars
  BY <1>1
<1>. QED
  BY <1>2, PTL DEF Spec, QuietWhenSettled

----------------------------------------------------------------------------
(* Refinement of SearchPromise.                                            *)

LEMMA InitPromise == Init => Promise!Init
  BY NamesAssumption
     DEF Init, Promise!Init, Outcome, AllExited, Threads

(* Only the last thread to end changes AllExited, and only in the search's *)
(* last step; every other step is a step of the promise or stutters.       *)
LEMMA StepPromise ==
  ASSUME IInv, IInv', [Next]_vars
  PROVE  [Promise!Next]_(Promise!promiseVars)
<1>. USE NamesAssumption DEF IInv, FlagsAgree, Outcome, Promise!promiseVars,
       flags, tree, local, history
<1>1. CASE Stop
  <2>1. AllExited' = AllExited
    BY <1>1 DEF Stop, AllExited
  <2>. QED
    BY <1>1, <2>1 DEF Stop, Promise!Next, Promise!Stop
<1>2. CASE Abort
  <2>1. AllExited' = AllExited
    BY <1>2 DEF Abort, AllExited
  <2>. QED
    BY <1>2, <2>1 DEF Abort, AbortTakesEffect, Promise!Next, Promise!Abort
<1>3. ASSUME NEW t \in Threads, MaybeTriggerStop(t)
      PROVE  [Promise!Next]_(Promise!promiseVars)
  <2>1. ~AllExited /\ ~AllExited'
    BY <1>3 DEF MaybeTriggerStop, At, AllExited, TypeOK
  <2>2. CASE NothingToDecide(t)
    BY <1>3, <2>1, <2>2 DEF MaybeTriggerStop
  <2>3. CASE ~NothingToDecide(t) /\ stop' /\ okToRespond
    <3>1. /\ ~bestmoveSent /\ bestmoveSent' /\ okToRespond' = okToRespond
          /\ answers = 0 /\ answers' = 1
      BY <1>3, <2>3 DEF MaybeTriggerStop, NothingToDecide, TypeOK
    <3>2. Outcome = "open" /\ Outcome' = "bestmove"
      BY <3>1
    <3>3. stop' = TRUE /\ okToRespond = TRUE
      BY <1>3, <2>3, Zenon DEF MaybeTriggerStop, TypeOK
    <3>4. CASE stop
      BY <2>1, <3>1, <3>2, <3>3, <3>4 DEF Promise!Next, Promise!Answer, TypeOK
    <3>5. CASE ~stop
      BY <2>1, <3>1, <3>2, <3>3, <3>5
         DEF Promise!Next, Promise!ReachLimit, TypeOK
    <3>. QED
      BY <3>4, <3>5
  <2>4. CASE ~NothingToDecide(t) /\ ~(stop' /\ okToRespond)
    BY <1>3, <2>1, <2>4
       DEF MaybeTriggerStop, NothingToDecide, Promise!Next, Promise!ReachLimit,
           TypeOK
  <2>. QED
    BY <2>2, <2>3, <2>4
<1>4. ASSUME UNCHANGED <<stop, okToRespond, bestmoveSent, answers>>,
             AllExited => AllExited'
      PROVE  [Promise!Next]_(Promise!promiseVars)
  <2>1. AllExited' => bestmoveSent'
    BY DEF AllExited, Threads
  <2>. QED
    BY <1>4, <2>1 DEF Promise!Next, Promise!WindDown
<1>5. ASSUME NEW t \in Threads, PopulateStats(t) \/ MaybeOutputInfo(t)
      PROVE  [Promise!Next]_(Promise!promiseVars)
  BY <1>4, <1>5 DEF PopulateStats, MaybeOutputInfo, At, AllExited
<1>6. CASE WatchdogDecide \/ WatchdogWake
  BY <1>4, <1>6 DEF WatchdogDecide, WatchdogWake, At, AllExited, Threads
<1>7. ASSUME NEW w \in Workers,
             \/ TakeSlot(w) \/ SkipIteration(w)
             \/ Gather(w) \/ ReleaseSlot(w) \/ Backup(w) \/ LoopCheck(w)
      PROVE  [Promise!Next]_(Promise!promiseVars)
  BY <1>4, <1>7
     DEF TakeSlot, SkipIteration, Gather, ReleaseSlot, Backup,
         LoopCheck, At, AllExited, Threads
<1>8. CASE UNCHANGED vars
  BY <1>8 DEF vars, AllExited
<1>. QED
  BY <1>1, <1>2, <1>3, <1>5, <1>6, <1>7, <1>8
     DEF Next, WatchdogNext, WorkerNext, Threads

(* The search keeps the safety part of its promise. *)
THEOREM RefinesPromise == Spec => Promise!SafetySpec
<1>1. Init => Promise!Init
  BY InitPromise
<1>2. IInv /\ IInv' /\ [Next]_vars => [Promise!Next]_(Promise!promiseVars)
  BY StepPromise
<1>. QED
  BY <1>1, <1>2, Inductive, PTL DEF Spec, Promise!SafetySpec
============================================================================
