----------------------------- MODULE MCSearchTree -----------------------------
\* The games for TLC.  In Game, 0 is the root: 1 is answered by a mate (3) or a
\* draw by rule (4, that 7 would continue); 2 is answered by 5, which repeats
\* the position two plies before and is then mated (6).
EXTENDS SearchTree, TLC

WorkerSymmetry == Permutations(Worker)

Game       == 0..7
GameParent == (1 :> 0) @@ (2 :> 0) @@ (3 :> 1) @@ (4 :> 1) @@ (5 :> 2) @@ (6 :> 5)
              @@ (7 :> 4)
GameEnding == [n \in Game |-> CASE n \in {3, 6, 7} -> "mate"
                                [] n = 4 -> "rule"
                                [] OTHER -> "none"]
GameCycle  == [n \in Game |-> IF n = 5 THEN 2 ELSE 0]

\* A shorter game: 1 is a draw by rule, but goes on if it is the root, with the
\* stalemate 3; 2 is a mate.
Short       == 0..3
ShortParent == (1 :> 0) @@ (2 :> 0) @@ (3 :> 1)
ShortEnding == 0 :> "none" @@ 1 :> "rule" @@ 2 :> "mate" @@ 3 :> "stalemate"
ShortCycle  == [n \in Short |-> 0]
===============================================================================
