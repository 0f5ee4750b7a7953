-------------------------------- MODULE Encoder --------------------------------
(***************************************************************************)
(* What a network sees of a game (neural/encoder.cc): planes for the last  *)
(* eight positions, castling, en passant, the 50 moves and the side.  The  *)
(* canonical formats flip, mirror and transpose the board, and the         *)
(* network's index of a move has to follow.                                *)
(***************************************************************************)
EXTENDS ChessBoard, Sequences

CONSTANT Format  \* the formats of the networks, some of InputFormat

\* The input formats; those that are not canonical are classical and castling.
InputFormat == {"classical", "castling", "canonical", "hectoplies", "hectoplies armageddon",
           "v2", "v2 armageddon"}
ASSUME FormatAssumption == Format \subseteq InputFormat
IsCanonicalFormat(f)           == f \notin {"classical", "castling"}
IsHectopliesFormat(f)          == f \notin {"classical", "castling", "canonical"}
IsCanonicalArmageddonFormat(f) == f \in {"hectoplies armageddon", "v2 armageddon"}
Is960CastlingFormat(f)         == f # "classical"
SkipsNonRepeats(f)             == f \in {"v2", "v2 armageddon"}
FillEmptyHistory               == {"no", "fen_only", "always"}

EnPassantOf(b) == b.pawns \ kPawnMask

-----------------------------------------------------------------------------
\* A transform is a set of these.
BoardTransform == {"flip", "mirror", "transpose"}

\* ReverseBitsInBytes, ReverseBytesInBytes and TransposeBitsInBytes, in this order.
Transformed == [t \in SUBSET BoardTransform |-> [s \in Square |->
  LET flipped  == IF "flip" \in t THEN At(7 - File(s), Rank(s)) ELSE s
      mirrored == IF "mirror" \in t THEN FlipSquare(flipped) ELSE flipped
  IN IF "transpose" \in t THEN At(7 - Rank(mirrored), 7 - File(mirrored)) ELSE mirrored]]
TransformMask(S, t) == IF t = {} THEN S ELSE {Transformed[t][s] : s \in S}

\* A set of squares as a number: the highest square that only one has decides.
IsLess(S, T) == S # T /\ Max((S \ T) \cup (T \ S)) \in T

\* What CompareTransposing is asked about, until one is not symmetric.
ComparedMasks(b) ==
  <<All(b), b.ours, {b.ourKing, b.theirKing}, b.rooks \cap b.bishops, b.rooks \ b.bishops,
    Knights(b), b.bishops \ b.rooks>>

\* Mutant: on the diagonal, all men decide alone.
Ties_AllMen(b) == <<All(b)>>
Ties(b) == ComparedMasks(b)
\* The first of these that is not symmetric decides.
TransposedIsLess(masks) ==
  LET Other(i) == TransformMask(masks[i], {"transpose"})
      uneven   == {i \in DOMAIN masks : masks[i] # Other(i)}
  IN uneven # {} /\ IsLess(Other(Min(uneven)), masks[Min(uneven)])
\* The king goes to the right half; without pawns to the quarter at the bottom, and
\* there below the diagonal, or on it the men decide.
ChooseTransform(b) ==
  LET side    == IF File(b.ourKing) <= 3 THEN {"flip"} ELSE {}
      corner  == side \cup (IF Rank(b.ourKing) >= 4 THEN {"mirror"} ELSE {})
      king    == Transformed[corner][b.ourKing]
      masks   == Ties(b)
      transposes == \/ File(king) + Rank(king) > 7
                    \/ /\ File(king) + Rank(king) = 7
                       /\ TransposedIsLess([i \in DOMAIN masks |-> TransformMask(masks[i], corner)])
  IN IF b.rights # {} THEN {}
     ELSE IF b.pawns \cap kPawnMask # {} THEN side
     ELSE IF transposes THEN corner \cup {"transpose"} ELSE corner

\* The transform of the last position of a history.
TransformForPosition(f, h) ==
  IF IsCanonicalFormat(f) THEN ChooseTransform(h[Len(h)].board) ELSE {}

-----------------------------------------------------------------------------
\* The position k plies before the last one, or the first again; its board as who
\* moves now sees it, which before the first is not turned any more.
Back(h, k) == h[Max({Len(h) - k, 1})]
IsTurned(h, k)  == Min({k, Len(h) - 1}) % 2 = 1
BoardBack(h, k) == IF IsTurned(h, k) THEN Mirror(Back(h, k).board) ELSE Back(h, k).board
RightsBack(h, k) ==
  LET rights == Back(h, k).board.rights
  IN IF IsTurned(h, k) THEN {Swap(r) : r \in rights} ELSE rights

kStartposBoard ==
  LET Kind == <<"rook", "knight", "bishop", "queen", "king", "bishop", "knight", "rook">>
      Men(back, front) == [s \in {At(f, r) : f \in 0..7, r \in {back, front}} |->
                             IF Rank(s) = back THEN Kind[File(s) + 1] ELSE "pawn"]
  IN SetUp(Men(0, 1), Men(7, 6), Right, kCorners)

\* The history ends before ply k: rights have changed or en passant was possible
\* there, or nothing is known of it.
EndsBefore(h, f, fill, k) ==
  LET b == Back(h, k).board
  IN \/ IsCanonicalFormat(f) /\ RightsBack(h, k) # RightsBack(h, 0)
     \/ IsCanonicalFormat(f) /\ k > 0 /\ EnPassantOf(b) # {}
     \/ fill = "no" /\ k >= Len(h) /\ (k = Len(h) => EnPassantOf(b) = {})
     \/ fill = "fen_only" /\ k >= Len(h) /\ b = kStartposBoard
\* Or after it, as a pawn was moved or a man taken.
EndsAfter(h, f, k) == IsCanonicalFormat(f) /\ Back(h, k).rule50 = 0

kMoveHistory == 8
\* The plies that are looked at; beyond the first position all are alike.
LookedAt(h, f, fill) ==
  LET ends == {k \in 0..(Len(h) + kMoveHistory) : EndsBefore(h, f, fill, k)}
                \cup {k + 1 : k \in {k \in 0..(Len(h) + kMoveHistory - 1) : EndsAfter(h, f, k)}}
  IN IF ends = {} THEN 0..(Len(h) + kMoveHistory) ELSE 0..(Min(ends) - 1)
\* Those that are written, from the last back.
Shows(h, f, k) == SkipsNonRepeats(f) => k = 0 \/ Back(h, k).repetitions > 0
Shown(h, f, fill) == {k \in LookedAt(h, f, fill) : Shows(h, f, k)}

\* Nothing ends the search for repeats before the first position.
NeverEnds(h, f, fill) ==
  /\ Cardinality(Shown(h, f, fill)) < kMoveHistory
  /\ Len(h) + kMoveHistory \in LookedAt(h, f, fill)

\* The planes of one position.  Before the first one, the pawn that can be taken en
\* passant is put back.
Kinds(b) == <<b.pawns \cap kPawnMask, Knights(b), b.bishops \ b.rooks, b.rooks \ b.bishops,
              b.rooks \cap b.bishops, {b.ourKing, b.theirKing}>>
PutBack(h, k, b) ==
  LET flag == EnPassantOf(b)
      back == {IF s < 8 THEN <<s + 8, s + 24>> ELSE <<s - 8, s - 24>> : s \in flag}
      men(S) == (S \ {p[2] : p \in back}) \cup {p[1] : p \in back}
  IN IF k < Len(h) \/ flag = {} THEN b
     ELSE IF Min(flag) < 8 THEN [b EXCEPT !.pawns = men(@), !.ours = men(@)]
     ELSE [b EXCEPT !.pawns = men(@), !.theirs = men(@)]
Entry(h, k) ==
  LET b     == PutBack(h, k, BoardBack(h, k))
      kinds == Kinds(b)
      Of(side) == [j \in 1..6 |-> side \cap kinds[j]]
  IN [men |-> <<Of(b.ours), Of(b.theirs)>>,
      repeated |-> Back(h, k).repetitions >= 1]
Blank == [men |-> [i \in 1..2 |-> [j \in 1..6 |-> {}]], repeated |-> FALSE]

\* Castling: where the rooks are, or for the classical format a plane for each right.
CastlingPlanes(b, f) ==
  LET Rooks(ours, theirs) ==
        {At(b.rook[ours], 0) : r \in b.rights \cap {ours}}
          \cup {At(b.rook[theirs], 7) : r \in b.rights \cap {theirs}}
  IN IF Is960CastlingFormat(f) THEN <<Rooks("we000", "they000"), Rooks("we00", "they00")>>
     ELSE [r \in Right |-> r \in b.rights]

\* EncodePositionForNN, if it ends.  Planes that are full or empty, and those of
\* castling, no transform changes.
EncodePositionForNN(h, f, fill) ==
  LET b     == h[Len(h)].board
      t     == TransformForPosition(f, h)
      shown == Shown(h, f, fill)
      Turn(e) == [e EXCEPT !.men = [i \in 1..2 |-> [j \in 1..6 |-> TransformMask(@[i][j], t)]]]
      Nth(n) == CHOOSE k \in shown : Cardinality({j \in shown : j < k}) = n - 1
  IN [entries |-> [n \in 1..kMoveHistory |->
                     IF n <= Cardinality(shown) THEN Turn(Entry(h, Nth(n))) ELSE Blank],
      castling |-> CastlingPlanes(b, f),
      \* Plane 108: en passant, or else the side that moves.
      passed |-> IF IsCanonicalFormat(f) THEN TransformMask(EnPassantOf(b), t) ELSE {},
      black |-> b.flipped /\ ~IsCanonicalFormat(f),
      rule50 |-> h[Len(h)].rule50,
      armageddon |-> b.flipped /\ IsCanonicalArmageddonFormat(f)]

-----------------------------------------------------------------------------
\* How the squares of a move are transformed.
TransformSquare(s, t) ==
  At(IF t \cap {"flip", "transpose"} # {} THEN 7 - File(s) ELSE File(s),
     IF t \cap {"mirror", "transpose"} # {} THEN 7 - Rank(s) ELSE Rank(s))

\* The index of a move stands for its squares and the piece it promotes to, with the
\* knight for none.
MoveToNNIndex(m, t) ==
  [from |-> TransformSquare(m.from, t), to |-> TransformSquare(m.to, t),
   piece |-> IF m.piece = "knight" THEN "none" ELSE m.piece]
MoveFromNNIndex(i, t) ==
  LET swapped == {CASE x = "flip" -> "mirror" [] x = "mirror" -> "flip" [] OTHER -> x : x \in t}
      inverse == IF "transpose" \in t THEN swapped ELSE t
      from == TransformSquare(i.from, inverse)
      to   == TransformSquare(i.to, inverse)
  IN IF i.piece = "none" THEN Plain(from, to) ELSE Promotion(from, to, i.piece)
===============================================================================
