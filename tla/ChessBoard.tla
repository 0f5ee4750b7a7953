------------------------------ MODULE ChessBoard ------------------------------
(***************************************************************************)
(* The board of chess/board.cc, seen by the side to move: sets of squares  *)
(* for bitboards, the generation of moves by pins and lines of attack, and *)
(* ApplyMove.  A queen is a rook and a bishop, a knight is what is nothing *)
(* else, and a "pawn" on the first or the last rank says that the pawn     *)
(* that has just passed there can be taken en passant.                     *)
(***************************************************************************)
EXTENDS Integers, FiniteSets, FiniteSetsExt

\* Squares from a1 = 0 to h8 = 63; files and ranks from 0.
Square    == 0..63
File(s)   == s % 8
Rank(s)   == s \div 8
At(f, r)  == 8 * r + f
kPawnMask == {s \in Square : Rank(s) \in 1..6}
Distance(a, b) == IF a > b THEN a - b ELSE b - a

kRookDirections   == {<<1, 0>>, <<-1, 0>>, <<0, 1>>, <<0, -1>>}
kBishopDirections == {-1, 1} \X {-1, 1}
kKingMoves        == kRookDirections \cup kBishopDirections
KnightJumps       == ({-2, 2} \X {-1, 1}) \cup ({-1, 1} \X {-2, 2})

IsOnBoard(s, d, n) == File(s) + n * d[1] \in 0..7 /\ Rank(s) + n * d[2] \in 0..7
Shift(s, d, n)     == At(File(s) + n * d[1], Rank(s) + n * d[2])
Reach(s, ds)       == {Shift(s, d, 1) : d \in {d \in ds : IsOnBoard(s, d, 1)}}
\* The squares from s in a direction to the end of the board.
Line == [s \in Square |-> [d \in kKingMoves |->
          [n \in {n \in 1..7 : IsOnBoard(s, d, n)} |-> Shift(s, d, n)]]]

kKnightAttacks == [s \in Square |-> Reach(s, KnightJumps)]
\* From where their pawns attack a square; the table has no entries for the seventh
\* rank, so that a flag on the eighth attacks nothing.
kPawnAttacks == [s \in Square |->
                   IF Rank(s) >= 6 THEN {} ELSE Reach(s, {<<-1, 1>>, <<1, 1>>})]

\* What the tables of the magic bitboards hold: lines to the first man.
Slide(s, ds, men) ==
  UNION {LET line == Line[s][d]
         IN {line[n] : n \in {n \in DOMAIN line :
                                \A k \in 1..(n - 1) : line[k] \notin men}} : d \in ds}
GetRookAttacks(s, men)   == Slide(s, kRookDirections, men)
GetBishopAttacks(s, men) == Slide(s, kBishopDirections, men)

-----------------------------------------------------------------------------
\* A board: [ours, theirs, rooks, bishops, pawns, ourKing, theirKing, rights, rook,
\* flipped], where rights and rook are Castlings.
Right == {"we00", "we000", "they00", "they000"}
All(b) == b.ours \cup b.theirs
Knights(b) == All(b) \ ((b.pawns \cap kPawnMask) \cup b.rooks \cup b.bishops
                         \cup {b.ourKing, b.theirKing})
TheirRooks(b)   == b.theirs \cap b.rooks
TheirBishops(b) == b.theirs \cap b.bishops
TheirPawns(b)   == b.theirs \cap b.pawns
TheirKnights(b) == b.theirs \cap Knights(b)

\* A move: [from, to, kind, piece]; castling takes the own rook.
Plain(s, t)      == [from |-> s, to |-> t, kind |-> "plain", piece |-> "none"]
Castling(k, r)   == [from |-> k, to |-> r, kind |-> "castling", piece |-> "none"]
EnPassant(s, t)  == [from |-> s, to |-> t, kind |-> "en passant", piece |-> "none"]
kPromotions      == {"queen", "rook", "bishop", "knight"}
Promotion(s, t, p) == [from |-> s, to |-> t, kind |-> "promotion", piece |-> p]

FlipSquare(s) == At(File(s), 7 - Rank(s))
FlipAll(S)    == {FlipSquare(s) : s \in S}
Swap(r) == CASE r = "we00" -> "they00" [] r = "we000" -> "they000"
             [] r = "they00" -> "we00" [] r = "they000" -> "we000"
Mirror(b) ==
  [ours |-> FlipAll(b.theirs), theirs |-> FlipAll(b.ours), rooks |-> FlipAll(b.rooks),
   bishops |-> FlipAll(b.bishops), pawns |-> FlipAll(b.pawns),
   ourKing |-> FlipSquare(b.theirKing), theirKing |-> FlipSquare(b.ourKing),
   rights |-> {Swap(r) : r \in b.rights}, rook |-> [r \in Right |-> b.rook[Swap(r)]],
   flipped |-> ~b.flipped]

IsUnderAttack(b, s) ==
  \/ Distance(File(s), File(b.theirKing)) <= 1 /\ Distance(Rank(s), Rank(b.theirKing)) <= 1
  \/ GetRookAttacks(s, All(b)) \cap TheirRooks(b) # {}
  \/ GetBishopAttacks(s, All(b)) \cap TheirBishops(b) # {}
  \/ kPawnAttacks[s] \cap TheirPawns(b) # {}
  \/ kKnightAttacks[s] \cap TheirKnights(b) # {}
IsUnderCheck(b) == IsUnderAttack(b, b.ourKing)

-----------------------------------------------------------------------------
\* ApplyMove, which gives the board and whether the 50 moves start again.
KingTo(r) == IF r = "we00" THEN 6 ELSE 2
RookTo(r) == IF r = "we00" THEN 5 ELSE 3
Castle(b, m) ==
  LET r == IF m.to > m.from THEN "we00" ELSE "we000"
  IN [b EXCEPT !.ours = (@ \ {m.from, m.to}) \cup {KingTo(r), RookTo(r)},
               !.rooks = (@ \ {m.to}) \cup {RookTo(r)},
               !.pawns = @ \cap kPawnMask,
               !.ourKing = KingTo(r), !.rights = @ \ {"we00", "we000"}]

\* Mutant: the rights of a rook that is taken stay.
RightsLost_OwnOnly(b, m) ==
  IF m.from = b.ourKing THEN {"we00", "we000"}
  ELSE {r \in {"we00", "we000"} : m.from = At(b.rook[r], 0) /\ m.from \in b.rooks}
\* Rights that go with the king, a rook that leaves or one that is taken.
RightsLost(b, m) ==
  (IF m.from = b.ourKing THEN {"we00", "we000"} ELSE {})
    \cup {r \in {"we00", "we000"} : m.from = At(b.rook[r], 0) /\ m.from \in b.rooks}
    \cup {r \in {"they00", "they000"} : m.to = At(b.rook[r], 7) /\ m.to \in b.theirs}

\* The flag for a pawn that has passed one of theirs.
Passed(m, pawns, theirs) ==
  IF /\ m.to \in pawns /\ Rank(m.to) - Rank(m.from) = 2
     /\ kPawnAttacks[At(File(m.to), 2)] \cap theirs \cap pawns # {}
  THEN {At(File(m.to), 0)} ELSE {}

ApplyMove(b, m) ==
  IF m.kind = "castling" THEN [board |-> Castle(b, m), zeroing |-> FALSE]
  ELSE
    LET taken   == ({m.to} \cap b.theirs)
                     \cup (IF m.kind = "en passant" THEN {At(File(m.to), 4)} ELSE {})
        theirs  == b.theirs \ taken
        Carry(X) == (X \ (taken \cup {m.from})) \cup (IF m.from \in X THEN {m.to} ELSE {})
        Put(kinds) == IF m.piece \in kinds THEN {m.to} ELSE {}
        pawns   == Carry(b.pawns \cap kPawnMask) \ Put(kPromotions)
    IN [board |->
          [b EXCEPT !.ours = Carry(@), !.theirs = theirs,
                    !.rooks = Carry(@) \cup Put({"queen", "rook"}),
                    !.bishops = Carry(@) \cup Put({"queen", "bishop"}),
                    !.pawns = pawns \cup Passed(m, pawns, theirs),
                    !.ourKing = IF m.from = @ THEN m.to ELSE @,
                    !.rights = @ \ RightsLost(b, m)],
        zeroing |-> m.to \in b.theirs \/ m.from \in b.pawns \cap kPawnMask]

-----------------------------------------------------------------------------
\* GeneratePseudolegalMoves.  The king walks to squares that are not attacked.
KingSteps(b) ==
  {Plain(b.ourKing, t) : t \in {t \in Reach(b.ourKing, kKingMoves) \ b.ours :
                                  ~IsUnderAttack(b, t)}}

\* The squares between the four places have to be free but for king and rook, and
\* those from the king to its destination, but that itself, not attacked.
Span(files) == Min(files)..Max(files)
MayCastle(b, r) ==
  LET king == File(b.ourKing)
      path == IF king = KingTo(r) THEN {king} ELSE Span({king, KingTo(r)}) \ {KingTo(r)}
  IN /\ r \in b.rights
     /\ \A f \in Span({king, b.rook[r], KingTo(r), RookTo(r)}) \ {king, b.rook[r]} :
          At(f, 0) \notin All(b)
     /\ \A f \in path : ~IsUnderAttack(b, At(f, 0))
Castlings(b) ==
  {Castling(File(b.ourKing), b.rook[r]) : r \in {r \in {"we00", "we000"} : MayCastle(b, r)}}

PieceMoves(b) ==
  LET To(s, targets) == {Plain(s, t) : t \in targets \ b.ours}
  IN UNION {To(s, GetRookAttacks(s, All(b))) : s \in b.ours \cap b.rooks}
       \cup UNION {To(s, GetBishopAttacks(s, All(b))) : s \in b.ours \cap b.bishops}
       \cup UNION {To(s, kKnightAttacks[s]) : s \in b.ours \cap Knights(b)}

\* Where a pawn may end up: one step, two from the second rank, captures.
Advances(b, s) ==
  LET one == Shift(s, <<0, 1>>, 1)
      two == {t \in {Shift(s, <<0, 1>>, 2)} : Rank(s) = 1}
  IN IF one \in All(b) THEN {} ELSE {one} \cup (two \ All(b))
Captures(s) == Reach(s, {<<-1, 1>>, <<1, 1>>})
PawnMoves(b) ==
  LET Become(s, t) == IF Rank(t) = 7 THEN {Promotion(s, t, p) : p \in kPromotions}
                                     ELSE {Plain(s, t)}
      pawns == b.ours \cap b.pawns \cap kPawnMask
  IN UNION {UNION {Become(s, t) : t \in Advances(b, s) \cup (Captures(s) \cap b.theirs)}
            : s \in pawns}
       \cup UNION {{EnPassant(s, t) : t \in {t \in Captures(s) \ b.theirs :
                      Rank(t) = 5 /\ At(File(t), 7) \in b.pawns}} : s \in pawns}

GeneratePseudolegalMoves(b) ==
  KingSteps(b) \cup Castlings(b) \cup PieceMoves(b) \cup PawnMoves(b)

-----------------------------------------------------------------------------
\* Along a line from the king: their first man and our men before it.
FirstTheirs(b, line) ==
  Min({n \in DOMAIN line : line[n] \in b.theirs} \cup {8})
OursBefore(b, line) == {n \in DOMAIN line : n < FirstTheirs(b, line) /\ line[n] \in b.ours}
Lines(b, ds, sliders) ==
  {line \in {Line[b.ourKing][d] : d \in ds} :
     \E n \in DOMAIN line : n = FirstTheirs(b, line) /\ line[n] \in sliders}
AllLines(b) == Lines(b, kRookDirections, b.rooks) \cup Lines(b, kBishopDirections, b.bishops)

\* GenerateKingAttackInfo: how many give check, the squares where that can be
\* answered, and the pinned men.
GenerateKingAttackInfo(b) ==
  LET open    == {line \in AllLines(b) : OursBefore(b, line) = {}}
      pawns   == kPawnAttacks[b.ourKing] \cap TheirPawns(b)
      knights == kKnightAttacks[b.ourKing] \cap TheirKnights(b)
  IN [checks |-> Cardinality(open) + (IF pawns # {} THEN 1 ELSE 0)
                   + (IF knights # {} THEN 1 ELSE 0),
      attackLines |-> pawns \cup knights \cup
        UNION {{line[n] : n \in 1..FirstTheirs(b, line)} : line \in open},
      pinned |-> {line[Min(OursBefore(b, line))] :
                    line \in {l \in AllLines(b) : Cardinality(OursBefore(b, l)) = 1}}]

\* A pinned man stays on a line with the king.
KeepsLine(b, m) ==
  LET dx(s) == File(s) - File(b.ourKing)
      dy(s) == Rank(s) - Rank(b.ourKing)
  IN IF dx(m.from) = 0 \/ dx(m.to) = 0 THEN dx(m.from) = dx(m.to)
     ELSE dx(m.from) * dy(m.to) = dx(m.to) * dy(m.from)

\* Mutant: en passant is judged by pins, like any capture.
MustTry_NotEnPassant(b, m, info) ==
  m.from = b.ourKing /\ (m.kind = "castling" \/ info.attackLines # {})
\* The moves that are tried out, to see whether the king is attacked then.
MustTry(b, m, info) ==
  \/ m.kind = "en passant"
  \/ m.from = b.ourKing /\ (m.kind = "castling" \/ info.attackLines # {})
IsLegalMove(b, m, info) ==
  IF MustTry(b, m, info) THEN ~IsUnderCheck(ApplyMove(b, m).board)
  ELSE IF m.from = b.ourKing THEN TRUE
  ELSE IF info.attackLines # {}
       THEN m.from \notin info.pinned /\ info.checks # 2 /\ m.to \in info.attackLines
  ELSE m.from \in info.pinned => KeepsLine(b, m)

GenerateLegalMoves(b) ==
  LET info == GenerateKingAttackInfo(b)
  IN {m \in GeneratePseudolegalMoves(b) : IsLegalMove(b, m, info)}

-----------------------------------------------------------------------------
HasMatingMaterial(b) ==
  \/ b.rooks # {} \/ b.pawns # {}
  \/ /\ Cardinality(All(b)) >= 4
     /\ \/ Knights(b) # {}
        \/ {(File(s) + Rank(s)) % 2 : s \in b.bishops} = {0, 1}

\* Which man stands on a square, as GetPieceAt tells it.
GetPieceAt(b, s) ==
  IF s \in b.pawns \cap kPawnMask THEN "pawn"
  ELSE IF s \in {b.ourKing, b.theirKing} THEN "king"
  ELSE IF s \in b.bishops \ b.rooks THEN "bishop"
  ELSE IF s \in b.bishops THEN "queen"
  ELSE IF s \in b.rooks THEN "rook" ELSE "knight"

\* A board with men on it (PutPiece), given as functions from squares to kinds, and
\* the castling rights that are named.
SetUp(our, their, rights, rook) ==
  LET Of(men, kinds) == {s \in DOMAIN men : men[s] \in kinds}
      Both(kinds) == Of(our, kinds) \cup Of(their, kinds)
      King(men) == CHOOSE s \in DOMAIN men : men[s] = "king"
  IN [ours |-> DOMAIN our, theirs |-> DOMAIN their, rooks |-> Both({"rook", "queen"}),
      bishops |-> Both({"bishop", "queen"}), pawns |-> Both({"pawn"}),
      ourKing |-> King(our), theirKing |-> King(their), rights |-> rights, rook |-> rook,
      flipped |-> FALSE]

\* BoardToFen: the men as White sees them, who moves, the rights, by the sides of the
\* king if all rooks come from the corners and else by the rooks' files, and the square
\* that was passed.
kCorners == [r \in Right |-> IF r \in {"we00", "they00"} THEN 7 ELSE 0]
BoardToFen(b) ==
  LET w      == IF b.flipped THEN Mirror(b) ELSE b
      Men(S) == [s \in S |-> GetPieceAt(w, s)]
      side   == [r \in Right |-> IF w.rook # kCorners THEN "file"
                                 ELSE IF r \in {"we00", "they00"} THEN "king" ELSE "queen"]
  IN [white |-> Men(w.ours), black |-> Men(w.theirs), blackMoves |-> b.flipped,
      castling |-> {[white |-> r \in {"we00", "we000"}, side |-> side[r], file |-> w.rook[r]] :
                      r \in w.rights},
      passed |-> {At(File(s), IF b.flipped THEN 2 ELSE 5) : s \in w.pawns \ kPawnMask}]

\* SetFromFen, where a right that is named by a side is that of the outermost rook.
FindRook(b, ours, side) ==
  LET files == {f \in 0..7 : At(f, IF ours THEN 0 ELSE 7) \in
                  (b.rooks \ b.bishops) \cap (IF ours THEN b.ours ELSE b.theirs)}
  IN IF side = "king" THEN Max(files) ELSE Min(files)
\* The rooks that are named for a right.
RooksNamed(b, fen, right) ==
  LET Ours(c)     == c.white # fen.blackMoves
      RookFile(c) == IF c.side = "file" THEN c.file ELSE FindRook(b, Ours(c), c.side)
      Gives(c, file) ==
        IF file > File(IF Ours(c) THEN b.ourKing ELSE b.theirKing)
        THEN IF Ours(c) THEN "we00" ELSE "they00" ELSE IF Ours(c) THEN "we000" ELSE "they000"
  IN {RookFile(c) : c \in {c \in fen.castling : Gives(c, RookFile(c)) = right}}
SetRights(b, named) ==
  [b EXCEPT !.rights = {r \in Right : named[r] # {}},
            !.rook = [r \in Right |-> IF named[r] = {} THEN @[r] ELSE Max(named[r])]]
SetFromFen(fen) ==
  LET white == SetUp(fen.white, fen.black, {}, kCorners)
      b     == IF fen.blackMoves THEN Mirror(white) ELSE white
  IN [SetRights(b, [r \in Right |-> RooksNamed(b, fen, r)])
        EXCEPT !.pawns = @ \cup {At(File(s), 7) : s \in fen.passed}]

\* Two kinds of men never stand on one square (IsValid).
IsValid(b) ==
  LET kinds == <<b.pawns \cap kPawnMask, b.bishops \ b.rooks, b.rooks \ b.bishops,
                 b.rooks \cap b.bishops, {b.ourKing, b.theirKing}>>
  IN /\ UNION {kinds[i] : i \in 1..5} \subseteq All(b)
     /\ \A i, j \in 1..5 : i < j => kinds[i] \cap kinds[j] = {}

\* The move as it is sent (squares as White sees them, castling to the king's
\* destination unless Chess960 is asked for), and how it is read.
ToText(b, m, chess960) ==
  LET to == IF m.kind = "castling" /\ ~chess960 /\ File(m.from) = 4 /\ File(m.to) \in {0, 7}
            THEN (IF File(m.to) = 0 THEN 2 ELSE 6) ELSE m.to
      Seen(s) == IF b.flipped THEN FlipSquare(s) ELSE s
  IN [from |-> Seen(m.from), to |-> Seen(to), piece |-> m.piece]
ParseMove(b, text) ==
  LET Seen(s) == IF b.flipped THEN FlipSquare(s) ELSE s
      from == Seen(text.from)
      to   == Seen(text.to)
  IN IF from \in b.pawns \cap kPawnMask /\ Rank(to) \in {0, 7}
       THEN Promotion(from, to, IF text.piece = "none" THEN "knight" ELSE text.piece)
     ELSE IF from = b.ourKing /\ to \in b.ours THEN Castling(File(from), File(to))
     ELSE IF from = b.ourKing /\ from = 4 /\ to \in {2, 6}
       THEN Castling(4, IF to = 6 THEN 7 ELSE 0)
     ELSE IF from \in b.pawns \cap kPawnMask /\ File(from) # File(to) /\ to \notin b.theirs
       THEN EnPassant(from, to)
     ELSE Plain(from, to)
===============================================================================
