------------------------------- MODULE MultiGames -------------------------------
(***************************************************************************)
(* Many games at once without search (selfplay/multigame.cc): in each      *)
(* round the positions of one side are evaluated in one batch, and every   *)
(* game of that side makes the move with the best policy or value.  Games  *)
(* start after openings of different length, so that sides to move differ. *)
(* Any move may be the best one, and any position may end a game.          *)
(***************************************************************************)
EXTENDS Integers, Sequences, FiniteSets

CONSTANTS Games,         \* trees_ has this many
          UseValue,      \* ValueEvaluator: one input a legal move, not a position
          MovesPerGame,  \* legal moves, and how many of them may end the game
          BatchCapacity, \* the places of a computation: maximum_batch_size
          LongestGame

ASSUME MultiGamesAssumption ==
  /\ Games \in Nat \ {0} /\ UseValue \in BOOLEAN /\ MovesPerGame \in Nat \ {0}
  /\ BatchCapacity \in Nat /\ LongestGame \in Nat

VARIABLES
  tree,        \* the ply at each game's head
  outcome,     \* results_: whether each game is decided
  at, cursor,  \* where Play is: "results", "gather", "move" or "over"; the next game
  allDone, blacksMove,
  inputs,      \* how many inputs comp_ has
  gathered,    \* v_: for which game and position each evaluation is
  stopping,    \* abort_
  rounds       \* history: batches so far, at most 2

multiVars == <<tree, outcome, at, cursor, allDone, blacksMove, inputs, gathered,
               stopping, rounds>>

Game == 1..Games
BlackToMove(i) == tree[i] % 2 = 1

MultiInit ==
  /\ tree \in [Game -> 0..1] /\ outcome = [i \in Game |-> "undecided"]
  /\ at = "top" /\ cursor = 1 /\ allDone = TRUE /\ blacksMove = FALSE
  /\ inputs = 0 /\ gathered = << >> /\ stopping = FALSE /\ rounds = 0

NextGame(where) ==
  IF cursor < Games THEN cursor' = cursor + 1 /\ at' = at
                    ELSE cursor' = 1 /\ at' = where

\* The top of the loop: abort_ is looked at once a round.
StartRound ==
  /\ at = "top"
  /\ at' = IF stopping THEN "over" ELSE "results"
  /\ allDone' = TRUE
  /\ UNCHANGED <<tree, outcome, cursor, blacksMove, inputs, gathered, stopping, rounds>>

\* Evaluator::Reset.
InputsAfterReset == 0
\* By the rules or by tablebases a game may be decided; it surely is in the end.
\* The first undecided game says whose move it is.
CheckResult ==
  /\ at = "results"
  /\ \E decided \in BOOLEAN :
       /\ outcome[cursor] # "undecided" => decided
       /\ outcome[cursor] = "undecided" /\ tree[cursor] >= LongestGame => decided
       /\ outcome' = [outcome EXCEPT ![cursor] = IF decided THEN "decided" ELSE @]
       /\ allDone' = (allDone /\ decided)
       /\ blacksMove' = IF ~decided /\ allDone THEN BlackToMove(cursor) ELSE blacksMove
       /\ NextGame(IF allDone /\ decided THEN "over" ELSE "gather")
       /\ inputs' = InputsAfterReset
       /\ UNCHANGED <<tree, gathered, stopping, rounds>>

\* Mutant: whose move it is is not asked.
TakesPart_Everyone(i) == outcome[i] = "undecided"
TakesPart(i) == outcome[i] = "undecided" /\ BlackToMove(i) = blacksMove
\* A policy takes one input; values take one for each move that does not end the
\* game, and the batch is not split.
InputsOf == IF UseValue THEN 0..MovesPerGame ELSE {1}
Gather ==
  /\ at = "gather"
  /\ IF TakesPart(cursor)
       THEN /\ \E n \in InputsOf : inputs' = inputs + n
            /\ gathered' = Append(gathered, <<cursor, tree[cursor]>>)
       ELSE UNCHANGED <<inputs, gathered>>
  /\ NextGame("move")
  /\ UNCHANGED <<tree, outcome, allDone, blacksMove, stopping, rounds>>

Front == Head(gathered)
Popped == Tail(gathered)
\* After Run, in the same order: the queue says which move is best.
MakeBestMove ==
  /\ at = "move"
  /\ IF TakesPart(cursor)
       THEN /\ tree' = [tree EXCEPT ![cursor] = @ + 1]
            /\ gathered' = Popped
       ELSE UNCHANGED <<tree, gathered>>
  /\ NextGame("top")
  /\ rounds' = IF cursor = Games /\ rounds < 2 THEN rounds + 1 ELSE rounds
  /\ UNCHANGED <<outcome, allDone, blacksMove, inputs, stopping>>

AbortGames ==
  /\ ~stopping
  /\ stopping' = TRUE
  /\ UNCHANGED <<tree, outcome, at, cursor, allDone, blacksMove, inputs, gathered, rounds>>

MultiNext == StartRound \/ CheckResult \/ Gather \/ MakeBestMove \/ AbortGames
MultiSpec == MultiInit /\ [][MultiNext]_multiVars

-----------------------------------------------------------------------------
MultiTypeOK ==
  /\ tree \in [Game -> 0..(LongestGame + 1)] /\ cursor \in Game
  /\ outcome \in [Game -> {"undecided", "decided"}]
  /\ at \in {"top", "results", "gather", "move", "over"}
  /\ at \in {"top", "results"} => gathered = << >>

\* Every game that moves has been evaluated in this round, and it is for its own
\* position that the evaluation at the front of the queue was made: games that
\* were decided, or whose turn it is not, leave no gap.
MovesByItsOwnEvaluation ==
  at = "move" /\ TakesPart(cursor) =>
    gathered # << >> /\ Front = <<cursor, tree[cursor]>>

\* From the second batch on all games that are still on have the same side to move,
\* and it is the one whose move it is: each batch takes all of them, and none is left
\* behind for ever.
GamesFallIntoStep ==
  rounds > 0 =>
    /\ at = "top" =>
         \A i, j \in Game : outcome[i] = "undecided" /\ outcome[j] = "undecided" =>
           BlackToMove(i) = BlackToMove(j)
    /\ at = "gather" => \A i \in Game : outcome[i] = "undecided" => TakesPart(i)

\* "assert(i < capacity_)" (atomic_vector.h): a batch has no more inputs than the
\* computation has places.
BatchHasRoom == inputs <= BatchCapacity

\* The order of the evaluations is enough to tell whose they are, in every round.
MultiGamesInv == /\ MultiTypeOK /\ MovesByItsOwnEvaluation /\ GamesFallIntoStep
                 /\ BatchHasRoom
===============================================================================
