------------------------------ MODULE ChessRules ------------------------------
(***************************************************************************)
(* The laws of chess (and of castling in Chess960), to compare the engine  *)
(* with.  A placement says who stands on each square; "our" men move, up   *)
(* the board.  Nothing here knows of pins, flags or lines of attack: a     *)
(* move is legal if the king cannot be taken after it.                     *)
(***************************************************************************)
EXTENDS Integers, FiniteSets

Squares == 0..63
X(s) == s % 8
Y(s) == s \div 8
Abs(n) == IF n < 0 THEN -n ELSE n
Wide(s, t) == Abs(X(s) - X(t))
High(s, t) == Abs(Y(s) - Y(t))
Longer(a, b) == IF a > b THEN a ELSE b

\* The squares between two on a line.
Between == [s \in Squares, t \in Squares |->
  LET n == Longer(Wide(s, t), High(s, t))
  IN IF n > 1 /\ (X(s) = X(t) \/ Y(s) = Y(t) \/ Wide(s, t) = High(s, t))
     THEN {s + k * ((t - s) \div n) : k \in 1..(n - 1)} ELSE {}]

Nobody == [side |-> "none", kind |-> "none"]
Our(kind) == [side |-> "our", kind |-> kind]
Is(men, s, side) == men[s].side = side
Empty(men, S) == \A s \in S : men[s] = Nobody

\* The board seen from the other side.
Turn(s) == X(s) + 8 * (7 - Y(s))
Other == [our |-> "their", their |-> "our", none |-> "none"]
TurnAll(men) == [s \in Squares |-> [men[Turn(s)] EXCEPT !.side = Other[@]]]

\* Whether the man on s could take something on t.
Reaches(men, s, t) ==
  LET straight == Wide(s, t) = 0 \/ High(s, t) = 0
      diagonal == Wide(s, t) = High(s, t)
      free     == Empty(men, Between[s, t])
      kind     == men[s].kind
  IN /\ s # t
     /\ \/ kind = "king" /\ Longer(Wide(s, t), High(s, t)) = 1
        \/ kind = "knight" /\ Wide(s, t) * High(s, t) = 2
        \/ kind \in {"rook", "queen"} /\ straight /\ free
        \/ kind \in {"bishop", "queen"} /\ diagonal /\ free
        \/ kind = "pawn" /\ Wide(s, t) = 1
                         /\ Y(t) - Y(s) = (IF Is(men, s, "our") THEN 1 ELSE -1)
Attacked(men, t) == \E s \in Squares : Is(men, s, "their") /\ Reaches(men, s, t)
InCheck(men) == \E s \in Squares : men[s] = Our("king") /\ Attacked(men, s)

\* The board after a move.
KingGoes(m) == IF m.to > m.from THEN 6 ELSE 2
RookGoes(m) == IF m.to > m.from THEN 5 ELSE 3
Played(men, m) ==
  [s \in Squares |->
     IF m.kind = "castling"
     THEN CASE s = KingGoes(m) -> Our("king") [] s = RookGoes(m) -> Our("rook")
            [] s \in {m.from, m.to} \ {KingGoes(m), RookGoes(m)} -> Nobody
            [] OTHER -> men[s]
     ELSE CASE s = m.to -> IF m.kind = "promotion" THEN Our(m.piece) ELSE men[m.from]
            [] s = m.from -> Nobody
            [] s = m.to - 8 /\ m.kind = "en passant" -> Nobody
            [] OTHER -> men[s]]

\* A pawn of ours may step ahead, twice from its first rank, take, or take the pawn
\* that has just passed the square in passed.
PawnMay(men, s, t, kind, passed) ==
  /\ men[s] = Our("pawn")
  /\ kind = "promotion" <=> Y(t) = 7
  /\ kind = "en passant" <=> t \in passed /\ X(s) # X(t)
  /\ \/ X(s) = X(t) /\ Empty(men, Between[s, t] \cup {t})
        /\ (Y(t) = Y(s) + 1 \/ (Y(s) = 1 /\ Y(t) = 3))
     \/ Reaches(men, s, t) /\ (Is(men, t, "their") \/ t \in passed)
PieceMay(men, s, t, kind) ==
  /\ Is(men, s, "our") /\ ~Is(men, t, "our")
  /\ men[s].kind # "pawn" /\ kind = "plain" /\ Reaches(men, s, t)
\* The king on s castles with a rook that may: nobody stands in the way, and the
\* king is not attacked on any square from the first to the last.
CastlingMay(men, s, r, rooks) ==
  LET m   == [from |-> s, to |-> r, kind |-> "castling"]
      way == {s, r, KingGoes(m), RookGoes(m)}
  IN /\ men[s] = Our("king") /\ r \in rooks
     /\ \A t \in 0..7 : (\E a, b \in way : a <= t /\ t <= b) /\ t \notin {s, r}
                         => men[t] = Nobody
     /\ \A t \in Between[s, KingGoes(m)] \cup {s} : ~Attacked(men, t)

\* All legal moves, with the rooks that may castle and the square that was passed.
LegalMoves(men, rooks, passed) ==
  LET Moves(s) ==
        {[from |-> s, to |-> t, kind |-> k, piece |-> "none"] :
           t \in Squares, k \in {"plain", "castling", "en passant"}}
        \cup {[from |-> s, to |-> t, kind |-> "promotion", piece |-> p] :
                t \in 56..63, p \in {"queen", "rook", "bishop", "knight"}}
      May(m) == IF m.kind = "castling" THEN CastlingMay(men, m.from, m.to, rooks)
                ELSE \/ PawnMay(men, m.from, m.to, m.kind, passed)
                     \/ PieceMay(men, m.from, m.to, m.kind)
  IN {m \in UNION {Moves(s) : s \in {s \in Squares : Is(men, s, "our")}} :
        May(m) /\ ~InCheck(Played(men, m))}

\* No moves at all lead to a mate: there is one man beside the kings at most, or
\* there are bishops on squares of one colour only.
NobodyCanMate(men) ==
  LET Of(kinds) == {s \in Squares : men[s].kind \in kinds}
      Colours   == {(X(s) + Y(s)) % 2 : s \in Of({"bishop"})}
  IN /\ Of({"pawn", "rook", "queen"}) = {}
     /\ \/ Cardinality(Of({"knight", "bishop"})) <= 1
        \/ Of({"knight"}) = {} /\ Cardinality(Colours) = 1
===============================================================================
