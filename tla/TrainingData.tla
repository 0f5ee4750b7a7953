----------------------------- MODULE TrainingData -----------------------------
(***************************************************************************)
(* A game as training data: what self-play writes of each position         *)
(* (trainingdata/trainingdata.cc), how it is read (reader.cc), and what    *)
(* the rescorer makes of it: it finds the moves, plays them once more and  *)
(* may write the positions in another format (rescorer.cc).                *)
(***************************************************************************)
EXTENDS Decoder

\* V6TrainingDataArray::Add for the position a history ends with and the index of the
\* move that was played there.
Frame(h, f, fill, played) ==
  LET b      == h[Len(h)].board
      planes == EncodePositionForNN(h, f, fill)
      t      == TransformForPosition(f, h)
      Seen(file) == IF "flip" \in t THEN 7 - file ELSE file
  IN [format |-> f, entries |-> planes.entries,
      castling |-> [r \in Right |-> IF r \notin b.rights THEN {}
                                    ELSE {IF Is960CastlingFormat(f) THEN b.rook[r] ELSE 0}],
      passed |-> IF IsCanonicalFormat(f) THEN {Seen(File(s)) : s \in EnPassantOf(b)} ELSE {},
      black |-> b.flipped, transform |-> t,
      rule50 |-> h[Len(h)].rule50, played |-> played]

\* PlanesFromTrainingData undoes the transform.  Mutant: in the order it was applied.
UndoOrder_AsApplied == <<"flip", "mirror", "transpose">>
UndoOrder == <<"transpose", "mirror", "flip">>
Undo(S, t) ==
  LET Step(T, i) == TransformMask(T, t \cap {UndoOrder[i]})
  IN Step(Step(Step(S, 1), 2), 3)
PlanesFromTrainingData(frame) ==
  LET f == frame.format
      Back1(e) == [e EXCEPT !.men = [i \in 1..2 |-> [j \in 1..6 |->
                                       Undo(@[i][j], frame.transform)]]]
      Rooks(ours, theirs) == {At(x, 0) : x \in frame.castling[ours]}
                               \cup {At(x, 7) : x \in frame.castling[theirs]}
  IN [entries |-> [n \in 1..kMoveHistory |-> Back1(frame.entries[n])],
      castling |-> IF Is960CastlingFormat(f)
                   THEN <<Rooks("we000", "they000"), Rooks("we00", "they00")>>
                   ELSE [r \in Right |-> frame.castling[r] # {}],
      passed |-> Undo({At(x, 7) : x \in frame.passed}, frame.transform),
      black |-> frame.black /\ ~IsCanonicalFormat(f),
      rule50 |-> frame.rule50,
      armageddon |-> frame.black /\ IsCanonicalArmageddonFormat(f)]

-----------------------------------------------------------------------------
\* ProcessAndValidateFileData: the first position, and the moves from frame to frame,
\* turned to who has made them.
FirstRead(frame) == PopulateBoard(frame.format, PlanesFromTrainingData(frame))
MoveRead(before, after) ==
  FlipMove(DecodeMoveFromInput(PlanesFromTrainingData(after), PlanesFromTrainingData(before)))

\* Validate: the move that was read, in the position that replaying has reached, is
\* legal and the one that was listed as played.
Validates(frame, h, move) ==
  /\ move \in GenerateLegalMoves(h[Len(h)].board)
  /\ MoveToNNIndex(move, TransformForPosition(frame.format, h)) = frame.played

\* ChangeInputFormat: the position is encoded once more.  If it is transformed otherwise,
\* the index of the move is looked up among those of the legal moves.
ChangeInputFormat(frame, h, f) ==
  LET t    == TransformForPosition(f, h)
      move == CHOOSE m \in GenerateLegalMoves(h[Len(h)].board) :
                MoveToNNIndex(m, frame.transform) = frame.played
      played == IF frame.transform = t THEN frame.played ELSE MoveToNNIndex(move, t)
  IN [Frame(h, f, "no", played) EXCEPT !.rule50 = frame.rule50]
===============================================================================
