-------------------------------- MODULE Decoder --------------------------------
(***************************************************************************)
(* How a position and a move are read back from planes (neural/decoder.cc) *)
(* that no transform has changed.  Positions that follow each other are    *)
(* seen by different sides.                                                *)
(***************************************************************************)
EXTENDS Encoder

\* The 50 moves, for some formats in hundreds, which the product of floats that is cut
\* off does not always give back (these are all up to 200).
Rule50Read(f, rule50) ==
  IF IsHectopliesFormat(f) /\ rule50 \in {53, 59, 105, 106, 117, 118}
  THEN rule50 - 1 ELSE rule50

\* The rights that the planes tell of, with the rooks that they are for.
CastlingRead(f, planes) ==
  LET Found(r, S) == [right |-> r, files |-> {File(s) : s \in S}]
      On(i, rank) == {s \in planes.castling[i] : Rank(s) = rank}
  IN IF ~Is960CastlingFormat(f)
     THEN {Found(r, {At(kCorners[r], 0)}) : r \in {r \in Right : planes.castling[r]}}
     ELSE {x \in {Found("we000", On(1, 0)), Found("they000", On(1, 7)),
                  Found("we00", On(2, 0)), Found("they00", On(2, 7))} : x.files # {}}

\* The square that was passed; without a plane for it, one that a pawn of theirs has
\* jumped over, as the planes of the position before show.
TheirPawnsIn(planes, n) == planes.entries[n].men[2][1]
PassedRead(f, planes) ==
  LET now    == TheirPawnsIn(planes, 1)
      before == TheirPawnsIn(planes, 2)
      jumped == {s \in before \ now : File(s) \in {File(t) : t \in now \ before}}
      two    == \E s \in before \ now, t \in now \ before : Distance(Rank(s), Rank(t)) = 2
  IN IF IsCanonicalFormat(f) THEN {At(File(s), 5) : s \in planes.passed}
     ELSE IF Cardinality((before \ now) \cup (now \ before)) = 2 /\ before # {} /\ two
          THEN {At(File(s), IF planes.black THEN 2 ELSE 5) : s \in jumped} ELSE {}

\* PopulateBoard writes a FEN, which is read.  Without a plane for the side, White moves.
PopulateBoard(f, planes) ==
  LET Kind == <<"pawn", "knight", "bishop", "rook", "queen", "king">>
      Seen(s) == IF planes.black THEN FlipSquare(s) ELSE s
      Men(i) == [s \in UNION {{Seen(q) : q \in planes.entries[1].men[i][j]} : j \in 1..6} |->
                   Kind[CHOOSE j \in 1..6 : Seen(s) \in planes.entries[1].men[i][j]]]
      found  == CastlingRead(f, planes)
      corners == \A x \in found : Min(x.files) = kCorners[x.right]
      Named(x) == [white |-> (x.right \in {"we00", "we000"}) # planes.black,
                   side |-> IF ~corners THEN "file"
                            ELSE IF x.right \in {"we00", "they00"} THEN "king" ELSE "queen",
                   file |-> Min(x.files)]
      fen == [white |-> Men(IF planes.black THEN 2 ELSE 1),
              black |-> Men(IF planes.black THEN 1 ELSE 2),
              blackMoves |-> planes.black, castling |-> {Named(x) : x \in found},
              passed |-> PassedRead(f, planes)]
  IN [board |-> SetFromFen(fen), rule50 |-> Rule50Read(f, planes.rule50)]

-----------------------------------------------------------------------------
\* Move::Flip.
FlipMove(m) == [m EXCEPT !.from = FlipSquare(@), !.to = FlipSquare(@)]
\* A castling move from the first rank, or turned to the eighth.
CastlingFrom(from, to) ==
  LET m == Castling(File(from), File(to)) IN IF Rank(from) = 7 THEN FlipMove(m) ELSE m

\* DecodeMoveFromInput: from the men of the side that has moved, which are theirs now
\* and were ours.
SingleSquare(S) == Min(S)
DecodeMoveFromInput(planes, prior) ==
  LET Now(j)    == planes.entries[1].men[2][j]
      Old(j)    == FlipAll(prior.entries[1].men[1][j])
      Diff(j)   == (Now(j) \ Old(j)) \cup (Old(j) \ Now(j))
      Moved(j)  == Cardinality(Diff(j)) = 2
      From(j)   == SingleSquare(Old(j) \cap Diff(j))
      To(j)     == SingleSquare(Now(j) \cap Diff(j))
      Piece     == <<"pawn", "knight", "bishop", "rook", "queen", "king">>
      became    == {j \in 2..5 : Cardinality(Diff(j)) = 1}
      targets   == UNION {FlipAll(prior.entries[1].men[2][j]) : j \in 1..5}
      king      == SingleSquare(Now(6))
      \* The king has crossed a rook that stayed, or the rook the king.
      leaps     == Distance(File(From(6)), File(To(6))) > 1
      stayed    == At(File(To(6)) + (IF File(From(6)) > File(To(6)) THEN 1 ELSE -1), Rank(From(6)))
      crossed   == /\ Rank(From(4)) = Rank(king) /\ Rank(To(4)) = Rank(king)
                   /\ \/ File(From(4)) < File(king) /\ File(To(4)) > File(king)
                      \/ File(From(4)) > File(king) /\ File(To(4)) < File(king)
  IN IF Cardinality(Diff(1)) = 1
       THEN Promotion(SingleSquare(Diff(1)), SingleSquare(Diff(Min(became))), Piece[Min(became)])
     ELSE IF Moved(6) /\ Moved(4) THEN CastlingFrom(From(6), From(4))
     ELSE IF Moved(6) THEN IF leaps THEN CastlingFrom(From(6), stayed) ELSE Plain(From(6), To(6))
     ELSE IF Moved(5) THEN Plain(From(5), To(5))
     ELSE IF Moved(4) THEN IF crossed THEN CastlingFrom(king, From(4)) ELSE Plain(From(4), To(4))
     ELSE IF Moved(3) THEN Plain(From(3), To(3))
     ELSE IF Moved(2) THEN Plain(From(2), To(2))
     ELSE IF File(From(1)) # File(To(1)) /\ targets \cap Diff(1) = {}
       THEN EnPassant(From(1), To(1)) ELSE Plain(From(1), To(1))
===============================================================================
