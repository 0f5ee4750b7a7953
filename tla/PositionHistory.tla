---------------------------- MODULE PositionHistory ----------------------------
(***************************************************************************)
(* PositionHistory (chess/position.cc) on the boards of ChessBoard: a game *)
(* that moves are appended to and taken from, the count of repetitions and *)
(* the result.  It is compared with ChessRules, which is told the moves of *)
(* the game and no more: what may castle and what was passed is found      *)
(* there by looking back.                                                  *)
(***************************************************************************)
EXTENDS ChessBoard, Sequences

CONSTANT Starts   \* what games begin with, [board, rule50], how many plies they are
                  \* followed, and the squares that men go to in them

ASSUME HistoryAssumption ==
  \A p \in Starts : /\ p.rule50 \in Nat /\ p.plies \in Nat /\ p.goals \subseteq Square
                    /\ IsValid(p.board)

VARIABLES
  start,      \* the member of Starts
  positions,  \* positions_
  made        \* the moves between them

vars == <<start, positions, made>>
Last == positions[Len(positions)]

\* Reset.
Init == /\ start \in Starts /\ made = << >>
        /\ positions = <<[board |-> start.board, rule50 |-> start.rule50, repetitions |-> 0,
                          cycle |-> 0]>>

\* ComputeLastMoveRepetitions of a history whose last position is not counted yet:
\* every second position is compared, back to one that follows a pawn move or a
\* capture.
FarEnough_Early(pos) == pos.rule50 < 4
FarEnough(pos) == pos.rule50 < 2
Earlier(h, last) ==
  LET n        == Len(h)
      Lookback == {i \in 1..(n - 3) : (n + 1 - i) % 2 = 0}
  IN {i \in Lookback : /\ h[i].board = last.board
                       /\ \A j \in Lookback : j > i => ~FarEnough(h[j])}
Counted(h, last) ==
  IF last.rule50 < 4 \/ Earlier(h, last) = {} THEN last
  ELSE LET i == Max(Earlier(h, last))
       IN [last EXCEPT !.repetitions = h[i].repetitions + 1, !.cycle = Len(h) + 1 - i]

\* The position after a move, and its place in the history.
After(pos, m) ==
  LET next == ApplyMove(pos.board, m)
  IN [board |-> Mirror(next.board),
      rule50 |-> IF next.zeroing THEN 0 ELSE pos.rule50 + 1,
      repetitions |-> 0, cycle |-> 0]
AppendMove(m) ==
  /\ Len(made) < start.plies /\ m.to \in start.goals
  /\ positions' = Append(positions, Counted(positions, After(Last, m)))
  /\ made' = Append(made, m)
  /\ UNCHANGED start
Pop ==
  /\ made # << >>
  /\ positions' = SubSeq(positions, 1, Len(positions) - 1)
  /\ made' = SubSeq(made, 1, Len(made) - 1)
  /\ UNCHANGED start

Next == Pop \/ \E m \in GenerateLegalMoves(Last.board) : AppendMove(m)
Spec == Init /\ [][Next]_vars

ComputeGameResult ==
  IF GenerateLegalMoves(Last.board) = {}
  THEN IF IsUnderCheck(Last.board)
       THEN (IF Last.board.flipped THEN "white won" ELSE "black won") ELSE "draw"
  ELSE IF \/ ~HasMatingMaterial(Last.board) \/ Last.rule50 >= 100 \/ Last.repetitions >= 2
       THEN "draw" ELSE "undecided"

DidRepeatSinceLastZeroingMove ==
  \E i \in DOMAIN positions :
    /\ positions[i].repetitions > 0
    /\ \A j \in (i + 1)..Len(positions) : positions[j].rule50 # 0

-----------------------------------------------------------------------------
\* The game as the laws of chess see it: placements, and what they imply when one
\* looks back over the game.
Rules == INSTANCE ChessRules
Now  == Len(positions)
Man(b, s) == [side |-> IF s \in b.ours THEN "our" ELSE "their", kind |-> GetPieceAt(b, s)]
Men(i) == LET b == positions[i].board
          IN [s \in Square |-> IF s \in All(b) THEN Man(b, s) ELSE Rules!Nobody]
\* Position i as seen by who moves in position n.
Seen(i, n) == IF (n - i) % 2 = 0 THEN Men(i) ELSE Rules!TurnAll(Men(i))

\* The rooks that could castle in the beginning and, up to position i, have not
\* moved, nor has the king: those of the side that moves in position n.
Rooks(i, n) ==
  LET first == positions[1].board
      own(r) == IF n % 2 = 1 THEN r ELSE Swap(r)
      king == IF n % 2 = 1 THEN first.ourKing ELSE FlipSquare(first.theirKing)
  IN {s \in {At(first.rook[own(r)], 0) :
               r \in {r \in {"we00", "we000"} : own(r) \in first.rights}} :
        \A j \in 1..i : /\ Seen(j, n)[s] = Rules!Our("rook")
                        /\ Seen(j, n)[king] = Rules!Our("king")}

\* The square that a pawn of theirs has just passed, or had before the first position.
TheirPawn == [side |-> "their", kind |-> "pawn"]
PassedBy(i) ==
  IF i = 1 THEN {At(File(s), 5) : s \in start.board.pawns \ kPawnMask}
  ELSE LET before == Seen(i - 1, i)
           after  == Men(i)
       IN {At(f, 5) : f \in {f \in 0..7 :
             /\ before[At(f, 6)] = TheirPawn /\ after[At(f, 6)] = Rules!Nobody
             /\ before[At(f, 4)] = Rules!Nobody /\ after[At(f, 4)] = TheirPawn}}
\* One of our pawns stands ready to take it, if only the king allows.
Takeable(i) ==
  {t \in PassedBy(i) : \E s \in Square : /\ Men(i)[s] = Rules!Our("pawn")
                                         /\ Rules!Reaches(Men(i), s, t)}

Same(i, j) ==
  /\ (i - j) % 2 = 0 /\ Men(i) = Men(j) /\ Takeable(i) = Takeable(j)
  /\ Rooks(i, i) = Rooks(j, j) /\ Rooks(i, i + 1) = Rooks(j, j + 1)
\* A pawn has moved to position i, or a man was taken.
Zeroing(i) ==
  LET Squares(S) == {s \in Square : S[s] # Rules!Nobody}
      Pawns(S)   == {s \in Square : S[s].kind = "pawn"}
  IN i > 1 /\ \/ Cardinality(Squares(Men(i))) # Cardinality(Squares(Men(i - 1)))
              \/ Pawns(Seen(i - 1, i)) # Pawns(Men(i))

-----------------------------------------------------------------------------
\* GenerateLegalMoves finds the legal moves by the pins and lines of attack that it
\* knows beforehand: they are all the moves the laws allow, after which the king
\* cannot be taken, and no others.
MovesAreTheLegalOnes ==
  GenerateLegalMoves(Last.board) = Rules!LegalMoves(Men(Now), Rooks(Now, Now), PassedBy(Now))

\* Each move has the effect that the laws give it, and the sets that make up a board
\* never contradict each other (IsValid); castling rights and the flags in the
\* pawns' set say what the moves of the whole game imply; at most two men give
\* check; a move or a board that is sent as text is read as the same one, but for
\* where a rook has been that may no longer castle.
BoardTellsTheGame ==
  LET b == Last.board
  IN /\ made # << >> =>
          Men(Now) = Rules!TurnAll(Rules!Played(Men(Now - 1), made[Len(made)]))
     /\ IsValid(b) /\ b.ourKing \in b.ours /\ b.theirKing \in b.theirs
     /\ \A r \in {"we00", "we000"} : r \in b.rights <=> At(b.rook[r], 0) \in Rooks(Now, Now)
     /\ \A r \in {"they00", "they000"} :
          r \in b.rights <=> At(b.rook[r], 0) \in Rooks(Now, Now + 1)
     /\ b.pawns \ kPawnMask = {At(File(t), 7) : t \in Takeable(Now)}
     /\ GenerateKingAttackInfo(b).checks <= 2
     /\ \A m \in GenerateLegalMoves(b), chess960 \in BOOLEAN :
          ParseMove(b, ToText(b, m, chess960)) = m
     /\ [SetFromFen(BoardToFen(b)) EXCEPT !.rook =
           [r \in Right |-> IF r \in b.rights THEN @[r] ELSE b.rook[r]]] = b

\* However few positions are compared, the count of repetitions is how often this
\* position has been there, and the game ends as the laws say: in mate or stalemate,
\* or when nobody can mate, after 50 moves or with the third repetition.
DrawsAreFound ==
  LET before == {i \in 1..(Now - 1) : Same(i, Now)}
      zeroed == {i \in 1..Now : Zeroing(i)}
      quiet  == IF zeroed = {} THEN start.rule50 + Now - 1 ELSE Now - Max(zeroed)
      stuck  == Rules!LegalMoves(Men(Now), Rooks(Now, Now), PassedBy(Now)) = {}
  IN /\ Last.repetitions = Cardinality(before)
     /\ Last.cycle = (IF before = {} THEN 0 ELSE Now - Max(before))
     /\ Last.rule50 = quiet
     /\ DidRepeatSinceLastZeroingMove <=>
          \E j \in Max(zeroed \cup {1})..Now : \E i \in 1..(j - 1) : Same(i, j)
     /\ ComputeGameResult = "draw" <=>
          IF stuck THEN ~Rules!InCheck(Men(Now))
          ELSE \/ quiet >= 100 \/ Cardinality(before) >= 2
               \/ Rules!NobodyCanMate(Men(Now))
     /\ stuck => ComputeGameResult # "undecided"
===============================================================================
