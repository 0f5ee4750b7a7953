-------------------------------- MODULE MCChess --------------------------------
\* Games from positions with few men, in which the special cases of the rules meet.
EXTENDS NetworkInput, TLC

a(n) == At(0, n - 1)
b(n) == At(1, n - 1)
c(n) == At(2, n - 1)
d(n) == At(3, n - 1)
e(n) == At(4, n - 1)
f(n) == At(5, n - 1)
g(n) == At(6, n - 1)
h(n) == At(7, n - 1)

Put(S, kind) == [s \in S |-> kind]
Corners == "we00" :> 7 @@ "we000" :> 0 @@ "they00" :> 7 @@ "they000" :> 0
Game(our, their, rights, rook) ==
  [board |-> SetUp(our, their, rights, rook), rule50 |-> 0, plies |-> 2, goals |-> Square]
\* A game whose men stay where few squares are.
Walk(our, their, rights, rule50, plies, goals) ==
  [Game(our, their, rights, Corners) EXCEPT !.rule50 = rule50, !.plies = plies,
                                            !.goals = goals]

\* A classical format, one that knows Chess960, and canonical ones.
MCFormats == {"classical", "castling", "canonical", "v2 armageddon"}

MCStarts == {
  \* Both sides may castle; a pawn may take a rook that could, and promotes.
  Game(e(1) :> "king" @@ Put({a(1), h(1)}, "rook") @@ b(7) :> "pawn",
       e(8) :> "king" @@ Put({a(8), h(8)}, "rook"), Right, Corners),
  \* Chess960: the king stays where it is and its rook, which shields it, leaves.
  Game(c(1) :> "king" @@ b(1) :> "rook" @@ g(2) :> "pawn",
       h(8) :> "king" @@ Put({a(1), f(8)}, "rook"),
       {"we000"}, [Corners EXCEPT !["we000"] = 1]),
  \* Chess960: the king has a long way to one side and a short one to the other.
  Game(b(1) :> "king" @@ Put({a(1), g(1)}, "rook"),
       h(7) :> "king" @@ d(8) :> "rook" @@ b(4) :> "knight",
       {"we00", "we000"}, [Corners EXCEPT !["we00"] = 6]),
  \* Chess960: the rook that may castle is not the outer one.
  [Game(b(1) :> "king" @@ Put({c(1), h(1)}, "rook"), a(8) :> "king" @@ h(2) :> "rook",
        {"we00"}, [Corners EXCEPT !["we00"] = 2]) EXCEPT !.plies = 1],
  \* En passant would uncover a rook on the rank.
  Game(a(1) :> "king" @@ a(4) :> "rook" @@ e(2) :> "pawn",
       h(4) :> "king" @@ d(4) :> "pawn", {}, Corners),
  \* A pawn gives check and can be taken en passant; or the taker is pinned.
  Game(h(1) :> "king" @@ Put({c(2), e(2)}, "pawn") @@ a(7) :> "bishop",
       f(5) :> "king" @@ d(4) :> "pawn", {}, Corners),
  \* Pins along a file and a diagonal.
  Game(e(1) :> "king" @@ e(2) :> "rook" @@ d(2) :> "bishop",
       h(8) :> "king" @@ e(8) :> "rook" @@ b(4) :> "bishop", {}, Corners),
  \* A knight uncovers a rook, with check or without.
  Game(e(1) :> "king" @@ a(5) :> "rook",
       h(8) :> "king" @@ e(8) :> "rook" @@ e(5) :> "knight", {}, Corners),
  \* Kings in their corners, a pawn that may move, and soon 50 moves.
  Walk(h(1) :> "king" @@ Put({e(4), c(2)}, "pawn"), a(8) :> "king" @@ e(5) :> "pawn",
       {}, 95, 7, {g(1), h(1), h(2), a(1), b(1), c(3)}),
  \* The same men, once with the right to castle and once without.
  Walk(e(1) :> "king" @@ h(1) :> "rook", a(8) :> "king", {"we00"},
       50, 5, {a(1), b(1), f(1), g(1), h(1)}),
  \* The same men, once with a pawn to be taken en passant and once without.
  Walk(h(1) :> "king" @@ e(2) :> "pawn", a(8) :> "king" @@ d(4) :> "pawn", {},
       0, 6, {g(1), h(1), a(1), b(1), e(4)}),
  \* Black begins and may take en passant.
  [Walk(h(1) :> "king" @@ e(5) :> "pawn", a(8) :> "king" @@ d(5) :> "pawn", {},
        0, 3, {h(2), d(6), e(6), b(1)}) EXCEPT !.board.flipped = TRUE,
                                               !.board.pawns = @ \cup {d(8)}],
  \* The men lie alike on both sides of the diagonal of the kings, but whose are they?
  Walk(h(1) :> "king" @@ f(6) :> "rook", a(8) :> "king" @@ c(3) :> "rook", {},
       4, 1, {f(6), g(1), a(6)}),
  \* What is left are bishops of one colour, or of two, or a knight alone.
  Walk(b(1) :> "king" @@ d(2) :> "bishop",
       h(7) :> "king" @@ f(8) :> "bishop" @@ a(5) :> "rook", {}, 0, 1, {a(5), c(1)}),
  Walk(b(1) :> "king" @@ d(2) :> "bishop",
       h(7) :> "king" @@ c(8) :> "bishop" @@ a(5) :> "rook", {}, 0, 1, {a(5), c(1)}),
  Walk(b(1) :> "king" @@ d(3) :> "knight", h(7) :> "king" @@ b(4) :> "knight", {},
       0, 1, {b(4), c(1)}),
  \* Two men between king and rook are not pinned.
  [Game(e(1) :> "king" @@ e(2) :> "knight" @@ e(3) :> "bishop",
        h(8) :> "king" @@ e(8) :> "rook", {}, Corners) EXCEPT !.plies = 1],
  \* A rook stands on the square of the flag, on which no pawn is.
  Walk(h(7) :> "king" @@ e(5) :> "pawn",
       a(8) :> "king" @@ f(8) :> "rook" @@ f(7) :> "pawn", {},
       0, 3, {h(6), f(4), g(7), f(6)}),
  \* The taker's queen stands on that square, and leaves it.
  Walk(h(2) :> "king" @@ f(8) :> "queen" @@ e(5) :> "pawn",
       a(6) :> "king" @@ f(7) :> "pawn", {},
       0, 3, {h(1), f(4), e(8), f(6)}),
  \* The kings walk until a position has been there three times.
  Walk(h(1) :> "king" @@ c(3) :> "pawn", a(8) :> "king" @@ c(4) :> "pawn", {},
       3, 8, {g(1), h(1), h(2), a(1), b(1)}),
  \* They may also come back by a longer way, to where the count of moves began.
  Walk(h(1) :> "king" @@ c(3) :> "pawn", a(8) :> "king" @@ c(4) :> "pawn", {},
       0, 6, {g(1), h(1), h(2), a(1), b(1), a(2)})}
===============================================================================
