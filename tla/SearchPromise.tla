--------------------------- MODULE SearchPromise ---------------------------
(***************************************************************************)
(* What a Search object promises to the code that owns it: the UCI engine, *)
(* a self-play game, the benchmark.  It says nothing of threads, mutexes   *)
(* or condition variables.  A search is open until it either reports one   *)
(* bestmove or is silenced by Abort; an open search which has reached its  *)
(* limit and may answer does answer; a settled search winds down, so that  *)
(* Wait returns.  SearchControl implements it.                             *)
(***************************************************************************)

VARIABLES
  limit,      \* the search was told, or decided, to stop (stop_)
  mayAnswer,  \* it may report as soon as the limit is reached
  outcome,    \* "open", "bestmove" or "silent"
  live        \* some thread of the search is still running

promiseVars == <<limit, mayAnswer, outcome, live>>

Init ==
  /\ limit = FALSE
  /\ mayAnswer \in BOOLEAN
  /\ outcome = "open"
  /\ live = TRUE

(* The owner asks for an answer. *)
Stop ==
  /\ limit' = TRUE
  /\ mayAnswer' = TRUE
  /\ UNCHANGED <<outcome, live>>

(* The owner wants no answer.  It comes too late for a search that was     *)
(* stopped and may answer: that one still reports.                         *)
Abort ==
  /\ outcome = "open"
  /\ ~(limit /\ mayAnswer)
  /\ limit' = TRUE
  /\ outcome' = "silent"
  /\ UNCHANGED <<mayAnswer, live>>

(* A stopper reports that a limit is reached. *)
ReachLimit ==
  /\ outcome = "open"
  /\ ~limit
  /\ limit' = TRUE
  /\ outcome' = IF mayAnswer THEN "bestmove" ELSE "open"
  /\ UNCHANGED <<mayAnswer, live>>

Answer ==
  /\ outcome = "open"
  /\ limit /\ mayAnswer
  /\ outcome' = "bestmove"
  /\ UNCHANGED <<limit, mayAnswer, live>>

WindDown ==
  /\ outcome # "open"
  /\ live
  /\ live' = FALSE
  /\ UNCHANGED <<limit, mayAnswer, outcome>>

Next == Stop \/ Abort \/ ReachLimit \/ Answer \/ WindDown

SafetySpec == Init /\ [][Next]_promiseVars

Spec == SafetySpec /\ WF_promiseVars(Answer) /\ WF_promiseVars(WindDown)
============================================================================
