----------------------------- MODULE NetworkInput -----------------------------
(***************************************************************************)
(* The games of PositionHistory as networks see them and as training data  *)
(* tells of them.                                                          *)
(***************************************************************************)
EXTENDS PositionHistory, TrainingData

\* The game until a position, and what self-play writes of that.
Until(i)     == SubSeq(positions, 1, i)
Record(i, f, fill) ==
  Frame(Until(i), f, fill, MoveToNNIndex(made[i], TransformForPosition(f, Until(i))))

\* The rescorer plays the moves once more from the first position.
Replayed(first, moves) ==
  LET h[i \in 0..Len(moves)] ==
        IF i = 0 THEN <<[board |-> first.board, rule50 |-> first.rule50,
                         repetitions |-> 0, cycle |-> 0]>>
        ELSE Append(h[i - 1], Counted(h[i - 1], After(h[i - 1][i], moves[i])))
  IN h[Len(moves)]

-----------------------------------------------------------------------------
\* The symmetries of the board that chess has in a position without castling.
Symmetries(b) ==
  IF b.rights # {} THEN {{}}
  ELSE IF b.pawns \cap kPawnMask # {} THEN SUBSET {"flip"} ELSE SUBSET BoardTransform
Reflect(b, t) ==
  LET One(s) == CHOOSE u \in TransformMask({s}, t) : TRUE
  IN [b EXCEPT !.ours = TransformMask(@, t), !.theirs = TransformMask(@, t),
               !.rooks = TransformMask(@, t), !.bishops = TransformMask(@, t),
               !.pawns = TransformMask(@, t),
               !.ourKing = One(@), !.theirKing = One(@)]
\* Since when neither a pawn was moved, a man taken nor a right lost, and a game that
\* begins there, reflected as who moves now sees it.
SameRights(i) == positions[i].board.rights = {Swap(r) : r \in positions[i - 1].board.rights}
Since == Max({i \in 1..Now : i = 1 \/ positions[i].rule50 = 0 \/ ~SameRights(i)})
Reflected(t) ==
  LET first  == Since
      AsSeen(i) == LET pos == positions[i]
                   IN [pos EXCEPT !.board = IF (Now - i) % 2 = 0 THEN Reflect(@, t)
                                            ELSE Mirror(Reflect(Mirror(@), t))]
      game[i \in first..Now] == IF i = first THEN <<AsSeen(i)>> ELSE Append(game[i - 1], AsSeen(i))
  IN game[Now]

\* Planes of a position as the other side sees them.
Other(e) == [e EXCEPT !.men = [i \in 1..2 |-> [j \in 1..6 |-> FlipAll(e.men[3 - i][j])]]]
Entries(h, f) ==
  LET planes == EncodePositionForNN(h, f, "no")
      t == TransformForPosition(f, h)
  IN [n \in 1..kMoveHistory |->
        [planes.entries[n] EXCEPT !.men = [i \in 1..2 |-> [j \in 1..6 |-> Undo(@[i][j], t)]]]]

\* The canonical formats show games alike that mirror each other, whatever was before
\* the last pawn move, capture or loss of a right: flipped, mirrored or transposed, all
\* have the same planes.
MirroredGamesAreOne ==
  \A f \in {f \in Format : IsCanonicalFormat(f)} :
    LET planes == EncodePositionForNN(positions, f, "no")
    IN \A t \in Symmetries(Last.board) : EncodePositionForNN(Reflected(t), f, "no") = planes

\* What the planes show of a position they show of it one move later too, one place
\* further and turned, or nothing any more; a position that is repeated is among them.
HistoryGoesOn(f, now, before) ==
  /\ made # << >> => \A n \in 2..kMoveHistory :
                       \/ now[n] = Other(before[n - 1])
                       \/ IsCanonicalFormat(f) /\ now[n] = Blank
  /\ Last.repetitions > 0 /\ Last.cycle < kMoveHistory =>
       now[Last.cycle + 1].men = now[1].men
HistoryIsShown ==
  \A f \in {f \in Format : ~SkipsNonRepeats(f)} :
    HistoryGoesOn(f, Entries(positions, f), Entries(Until(Now - 1), f))

\* Whatever is filled in for what is not known of the game, the planes are written,
\* unless non-repeats are skipped.
EncodingEnds ==
  \A f \in Format, fill \in FillEmptyHistory :
    NeverEnds(positions, f, fill) => SkipsNonRepeats(f) /\ fill # "no"

PlanesTellTheGame == MirroredGamesAreOne /\ HistoryIsShown /\ EncodingEnds

-----------------------------------------------------------------------------
\* What a format cannot tell: who moves, if it is canonical; the rooks of Chess960, if
\* it is classical; that nobody can take a pawn that has passed, if it has no plane for
\* that.  Rights that are lost leave no trace of their rooks.
Outermost(b, r) ==
  LET rank == IF r \in {"we00", "we000"} THEN 0 ELSE 7
      side == IF rank = 0 THEN b.ours ELSE b.theirs
      files == {x \in 0..7 : At(x, rank) \in side \cap (b.rooks \ b.bishops)}
  IN b.rook[r] = IF r \in {"we00", "they00"} THEN Max(files) ELSE Min(files)
Told(read, i, f) ==
  LET b == positions[i].board
      flags == IF IsCanonicalFormat(f) \/ i = 1 THEN EnPassantOf(b)
               ELSE {At(File(s), 7) : s \in PassedBy(i)}
  IN (f = "classical" => \A r \in b.rights : Outermost(b, r)) =>
       /\ [read.board EXCEPT !.rook = [r \in Right |-> IF r \in b.rights THEN @[r] ELSE b.rook[r]]]
            = [b EXCEPT !.flipped = @ /\ ~IsCanonicalFormat(f),
                        !.pawns = (@ \cap kPawnMask) \cup flags]
       /\ read.rule50 = IF IsHectopliesFormat(f) /\ positions[i].rule50 \in {53, 59}
                        THEN positions[i].rule50 - 1 ELSE positions[i].rule50

\* Each position that self-play records is read back, and so is each move, from two
\* records, castling in Chess960 included.  ("always" fills in what "fen_only" does,
\* unless the game begins with the usual position.)
IsRead(n, f, fill, record) ==
  /\ Told(FirstRead(record), n, f)
  /\ n > 1 => MoveRead(Record(n - 1, f, fill), record) = made[n - 1]
RecordsAreRead ==
  made # << >> => \A f \in Format, fill \in {"no", "fen_only"} :
    LET n == Len(made)
    IN NeverEnds(Until(n), f, fill)  \* then there is no record
         \/ IsRead(n, f, fill, Record(n, f, fill))

\* The rescorer reaches the position that was recorded, finds the move listed that was
\* played, and in another format writes what self-play would have written.
IsRescored(n, f, record, h) ==
  /\ Validates(record, h, made[n])
  /\ MoveFromNNIndex(record.played, TransformForPosition(f, h)) \in
       {[made[n] EXCEPT !.kind = k, !.piece = IF @ = "knight" THEN "none" ELSE @] :
          k \in {"plain", "promotion"}}
  /\ ~start.board.flipped =>
       \A g \in Format \ {f} : ChangeInputFormat(record, h, g) = Record(n, g, "no")
RescoredAsPlayed ==
  made # << >> /\ (\A r \in start.board.rights : Outermost(start.board, r)) =>
  \A f \in Format :
    LET n == Len(made)
    IN IsRescored(n, f, Record(n, f, "no"),
                  Replayed(FirstRead(Record(1, f, "no")), SubSeq(made, 1, n - 1)))

GameIsReadBack == RecordsAreRead /\ RescoredAsPlayed

-----------------------------------------------------------------------------
\* "Diagonal transpose A1 to H8, TransposeBitsInBytes" (bititer.h): the network's index
\* of a move leaves the square on which the network sees the man that moves.
MovesFollowThePlanes ==
  \A f \in Format, m \in GenerateLegalMoves(Last.board) :
    \A j \in 1..6 :
      m.from \in Kinds(Last.board)[j] =>
        MoveToNNIndex(m, TransformForPosition(f, positions)).from
          \in EncodePositionForNN(positions, f, "no").entries[1].men[1][j]
===============================================================================
