----------------------------- MODULE SelfPlayProofs -----------------------------
(***************************************************************************)
(* Proofs about self-play: for any number of workers and games, the books  *)
(* of a Tournament are true and a game that is aborted rests; for any      *)
(* number of games of any length, the evaluation a game of MultiGames      *)
(* moves by is its own, and the games fall into step.                      *)
(*                                                                         *)
(* A tournament is asked about the games that were played; the invariant   *)
(* follows every number from the worker that takes it to the books.        *)
(*                                                                         *)
(* The evaluations of MultiGames are told apart by their order alone, so   *)
(* the inductive invariant says what the queue holds in the middle of a    *)
(* pass over the games: those of the games that were gathered and have not *)
(* moved yet, each once, in the order of the games.                        *)
(***************************************************************************)
EXTENDS Tournament, MultiGames, FiniteSetTheorems, TLAPS

-----------------------------------------------------------------------------
(* Tournament.                                                             *)

\* What a worker may be doing, and what it knows of its game.
Places == {"idle", "gone", "setup", "register", "check", "create", "search", "reset",
           "move", "over", "counted"}
Outcomes == Decided \cup {"undecided"}
GameRecord == [at : Places, id : Nat, opening : Nat, black : BOOLEAN, listed : BOOLEAN,
               side : 0..1, head : [1..2 -> Nat],
               search : {"none", "running", "answered", "silent"}, threads : 1..2,
               abort : BOOLEAN, result : Outcomes]
PlayedRecord == [id : Nat, opening : Nat, black : BOOLEAN, result : Outcomes]
OwnerRecord == [at : {"none", "visiting", "inside"}, left : SUBSET Worker,
                in : SUBSET Worker, sees : BOOLEAN]

TournamentTyped ==
  /\ firstBlack \in BOOLEAN /\ taken \in Nat /\ taken <= TotalGames
  /\ abort \in BOOLEAN /\ saved \in BOOLEAN
  /\ score \in [0..2 -> [0..1 -> Nat]]
  /\ game \in [Worker -> GameRecord]
  /\ owner \in OwnerRecord
  /\ played \in SUBSET PlayedRecord /\ IsFiniteSet(played)

\* A game is listed while it is played, searches at its places, and its trees
\* have seen the same moves.
GameFits(g) ==
  /\ g.listed <=> g.at \notin {"idle", "gone", "setup", "register"}
  /\ g.at = "search" => g.search # "none"
  /\ g.search # "none" => g.at \in {"search", "reset", "over", "counted"}
  /\ ~ShareTree => g.head[1] = g.head[2]
GamesFit == \A w \in Worker : GameFits(game[w])

\* The game a worker has taken and not counted.
OnIt(w) == game[w].at \notin {"idle", "gone", "counted"}
\* Every number that was taken is that of one game, played or being played.
NumbersFit ==
  /\ \A w \in Worker : OnIt(w) => /\ game[w].id < taken
                                  /\ \A p \in played : p.id # game[w].id
  /\ \A v, w \in Worker : OnIt(v) /\ OnIt(w) /\ game[v].id = game[w].id => v = w
  /\ \A p \in played : p.id < taken
  /\ \A p, q \in played : p.id = q.id => p = q
  /\ \A n \in Nat : n < taken => \/ \E p \in played : p.id = n
                                 \/ \E w \in Worker : OnIt(w) /\ game[w].id = n

\* Colours and openings are those of the numbers.
ColoursFit ==
  /\ \A w \in Worker : OnIt(w) /\ game[w].at # "setup" =>
       /\ game[w].opening = OpeningOf(game[w].id)
       /\ game[w].black = PlaysBlack(game[w].id)
  /\ \A p \in played : p.opening = OpeningOf(p.id) /\ p.black = PlaysBlack(p.id)

\* The games that count for a result and a colour.
CountsFor(p, r, c) ==
  /\ c = IF p.black THEN 1 ELSE 0
  /\ CASE r = 1 -> p.result = "draw"
       [] r = 0 -> p.result = IF p.black THEN "black" ELSE "white"
       [] r = 2 -> p.result = IF p.black THEN "white" ELSE "black"
ScoreFits == \A r \in 0..2, c \in 0..1 :
  score[r][c] = Cardinality({p \in played : CountsFor(p, r, c)})

\* Workers leave when every game was taken, unless somebody aborts.
LeavingFits ==
  /\ \A w \in Worker : game[w].at = "gone" => abort \/ taken = TotalGames
  /\ saved => taken = TotalGames /\ \A w \in Worker : game[w].at = "gone"

\* What the Abort in progress visits, and what it has seen of the game it is at.
OwnerFits ==
  /\ owner.in \cup owner.left \subseteq {w \in Worker : game[w].listed}
  /\ owner.at = "none" => owner.in = {} /\ owner.left = {}
  /\ owner.at = "inside" => owner.in # {}
  /\ \A v, w \in owner.in : v = w
  /\ \A w \in owner.in : owner.at = "inside" /\ game[w].search = "running" => owner.sees
  /\ \A w \in Worker : game[w].abort /\ w \notin owner.in => game[w].search # "running"

TournamentIInv == /\ TournamentTyped /\ GamesFit /\ NumbersFit /\ ColoursFit
                  /\ ScoreFits /\ LeavingFits /\ OwnerFits

-----------------------------------------------------------------------------
\* The steps of a game that is being played.
Playing(w) == \/ CheckGame(w) \/ CreateSearch(w) \/ SearchEnds(w) \/ AfterSearch(w)
              \/ ResetSearch(w) \/ MakeMove(w)

\* What becomes of the games when one of them changes.
LEMMA OneGame ==
  ASSUME game \in [Worker -> GameRecord], NEW w \in Worker, NEW g \in GameRecord, Set(w, g)
  PROVE  /\ game' \in [Worker -> GameRecord] /\ game'[w] = g
         /\ \A v \in Worker : v # w => game'[v] = game[v]
  BY DEF Set

\* A move goes to both trees, or to the one they are.
LEMMA HeadsTyped ==
  ASSUME NEW g \in GameRecord
  PROVE  /\ Heads(g) \in [1..2 -> Nat]
         /\ ~ShareTree /\ g.head[1] = g.head[2] => Heads(g)[1] = Heads(g)[2]
<1>1. \A h \in [1..2 -> Nat] : /\ [h EXCEPT ![1] = @ + 1] \in [1..2 -> Nat]
                               /\ [i \in 1..2 |-> h[i] + 1] \in [1..2 -> Nat]
  OBVIOUS
<1>2. g.head \in [1..2 -> Nat]
  BY DEF GameRecord
<1>3. Heads(g) \in [1..2 -> Nat]
  BY <1>1, <1>2 DEF Heads
<1>4. ~ShareTree /\ g.head[1] = g.head[2] => Heads(g)[1] = Heads(g)[2]
  BY <1>2 DEF Heads
<1> QED
  BY <1>3, <1>4

\* A worker without a game.
LEMMA NoGameTyped ==
  /\ NoGame \in GameRecord
  /\ NoGame.at = "idle" /\ NoGame.search = "none" /\ ~NoGame.listed /\ ~NoGame.abort
  /\ NoGame.head[1] = NoGame.head[2]
<1>1. <<0, 0>> \in [1..2 -> Nat] /\ <<0, 0>>[1] = <<0, 0>>[2]
  OBVIOUS
<1> QED
  BY <1>1 DEF NoGame, GameRecord, Places, Outcomes, White

\* What a step of play makes of the record g of its game.
PlayStep(g, h) ==
  /\ h \in GameRecord /\ GameFits(h)
  /\ h.id = g.id /\ h.opening = g.opening /\ h.black = g.black
  /\ h.listed = g.listed /\ h.abort = g.abort
  /\ \A x \in {"idle", "gone", "setup", "register", "counted"} : h.at = x <=> g.at = x
  /\ h.search = "running" => g.search = "running" \/ (g.at = "create" /\ ~g.abort)

\* What a step of play does.
LEMMA PlayingGame ==
  ASSUME game \in [Worker -> GameRecord], NEW w \in Worker, GameFits(game[w]), Playing(w)
  PROVE  \E h \in GameRecord :
           /\ GameStep(w, h) /\ PlayStep(game[w], h)
           /\ h.search = "running" => game[w].search = "running" \/ GameFree(w)
<1> USE DEF GameRecord
<1> DEFINE g == game[w]
<1>0. g \in GameRecord /\ GameFits(g)
  OBVIOUS
<1>1. CASE CheckGame(w)
  <2>1. PICK h : /\ GameStep(w, h) /\ g.at = "check"
                 /\ \/ h = [g EXCEPT !.at = "over"]
                    \/ \E r \in Decided : h = [g EXCEPT !.at = "over", !.result = r]
                    \/ h = [g EXCEPT !.at = "create"]
    BY <1>1, Zenon DEF CheckGame
  <2>2. CASE h = [g EXCEPT !.at = "over"]
    BY <1>0, <2>1, <2>2 DEF PlayStep, GameFits, Places
  <2>3. CASE \E r \in Decided : h = [g EXCEPT !.at = "over", !.result = r]
    <3>1. PICK r \in Outcomes : h = [g EXCEPT !.at = "over", !.result = r]
      BY <2>3 DEF Outcomes
    <3>2. h \in GameRecord
      BY <1>0, <3>1 DEF Places
    <3>3. PlayStep(g, h) /\ h.search = g.search
      BY <1>0, <2>1, <3>1, <3>2 DEF PlayStep, GameFits
    <3> QED
      BY <2>1, <3>2, <3>3
  <2>4. CASE h = [g EXCEPT !.at = "create"]
    BY <1>0, <2>1, <2>4 DEF PlayStep, GameFits, Places
  <2> QED
    BY <2>1, <2>2, <2>3, <2>4
<1>2. CASE CreateSearch(w)
  <2>1. /\ g.at = "create" /\ GameFree(w)
        /\ \/ GameStep(w, [g EXCEPT !.at = "over"])
           \/ /\ ~g.abort
              /\ GameStep(w, [g EXCEPT !.at = "search", !.search = "running",
                                       !.threads = ThreadsFor(g.side)])
    BY <1>2 DEF CreateSearch, MayCreate
  <2>2. CASE GameStep(w, [g EXCEPT !.at = "over"])
    BY <1>0, <2>1, <2>2 DEF PlayStep, GameFits, Places
  <2>3. CASE /\ ~g.abort
             /\ GameStep(w, [g EXCEPT !.at = "search", !.search = "running",
                                      !.threads = ThreadsFor(g.side)])
    <3>1. ThreadsFor(g.side) \in 1..2
      BY DEF ThreadsFor
    <3> QED
      BY <1>0, <2>1, <2>3, <3>1 DEF PlayStep, GameFits, Places
  <2> QED
    BY <2>1, <2>2, <2>3
<1>3. CASE SearchEnds(w)
  BY <1>0, <1>3 DEF SearchEnds, PlayStep, GameFits
<1>4. CASE AfterSearch(w)
  <2>1. PICK h : /\ GameStep(w, h) /\ g.at = "search" /\ g.search # "running"
                 /\ \/ h = [g EXCEPT !.at = "over"]
                    \/ \E r \in Decided : h = [g EXCEPT !.at = "over", !.result = r]
                    \/ h = [g EXCEPT !.at = "reset"]
    BY <1>4, Zenon DEF AfterSearch
  <2>2. CASE h = [g EXCEPT !.at = "over"]
    BY <1>0, <2>1, <2>2 DEF PlayStep, GameFits, Places
  <2>3. CASE \E r \in Decided : h = [g EXCEPT !.at = "over", !.result = r]
    <3>1. PICK r \in Outcomes : h = [g EXCEPT !.at = "over", !.result = r]
      BY <2>3 DEF Outcomes
    <3>2. h \in GameRecord
      BY <1>0, <3>1 DEF Places
    <3>3. PlayStep(g, h) /\ h.search = g.search
      BY <1>0, <2>1, <3>1, <3>2 DEF PlayStep, GameFits
    <3> QED
      BY <2>1, <3>2, <3>3
  <2>4. CASE h = [g EXCEPT !.at = "reset"]
    BY <1>0, <2>1, <2>4 DEF PlayStep, GameFits, Places
  <2> QED
    BY <2>1, <2>2, <2>3, <2>4
<1>5. CASE ResetSearch(w)
  <2>1. g.at = "reset" /\ GameStep(w, [g EXCEPT !.at = "move", !.search = "none"])
    BY <1>5 DEF ResetSearch, AfterReset
  <2> DEFINE h == [g EXCEPT !.at = "move", !.search = "none"]
  <2>2. h \in GameRecord
    BY <1>0 DEF Places
  <2>3. PlayStep(g, h) /\ h.search = "none"
    BY <1>0, <2>1, <2>2 DEF PlayStep, GameFits
  <2> HIDE DEF h
  <2> QED
    BY <2>1, <2>2, <2>3 DEF h
<1>6. CASE MakeMove(w)
  <2>1. /\ g.at = "move"
        /\ GameStep(w, [g EXCEPT !.at = "check", !.head = Heads(g), !.side = Other(g.side)])
    BY <1>6 DEF MakeMove
  <2>2. Heads(g) \in [1..2 -> Nat] /\ (~ShareTree => Heads(g)[1] = Heads(g)[2])
    BY <1>0, HeadsTyped DEF GameFits
  <2>3. Other(g.side) \in 0..1
    BY <1>0 DEF Other
  <2>4. ASSUME NEW hs \in [1..2 -> Nat], NEW o \in 0..1, ~ShareTree => hs[1] = hs[2],
               NEW h, h = [g EXCEPT !.at = "check", !.head = hs, !.side = o]
        PROVE  h \in GameRecord /\ h.search = g.search /\ PlayStep(g, h)
    <3>1. h \in GameRecord
      BY <1>0, <2>4 DEF Places
    <3>2. /\ h.at = "check" /\ h.head = hs /\ h.search = g.search /\ h.id = g.id
          /\ h.opening = g.opening /\ h.black = g.black /\ h.listed = g.listed
          /\ h.abort = g.abort
      BY <1>0, <2>4
    <3> QED
      BY <1>0, <2>1, <2>4, <3>1, <3>2 DEF PlayStep, GameFits
  <2> DEFINE h == [g EXCEPT !.at = "check", !.head = Heads(g), !.side = Other(g.side)]
  <2>5. h \in GameRecord /\ h.search = g.search /\ PlayStep(g, h)
    BY <2>2, <2>3, <2>4
  <2>6. GameStep(w, h)
    BY <2>1, Zenon
  <2> HIDE DEF h
  <2> QED
    BY <2>5, <2>6
<1> QED
  BY <1>1, <1>2, <1>3, <1>4, <1>5, <1>6 DEF Playing

\* What a visit of Abort does to its game.
LEMMA VisitedGame ==
  ASSUME game \in [Worker -> GameRecord], owner \in OwnerRecord, NEW w \in Worker,
         GameFits(game[w]), EnterGame(w) \/ AbortSearch(w)
  PROVE  \E h \in GameRecord :
           /\ Set(w, h) /\ GameFits(h)
           /\ h.id = game[w].id /\ h.opening = game[w].opening /\ h.black = game[w].black
           /\ h.listed = game[w].listed /\ h.at = game[w].at
           /\ h.search = "running" => game[w].search = "running"
           /\ EnterGame(w) => h.search = game[w].search /\ h.abort
           /\ AbortSearch(w) => /\ h.abort = game[w].abort
                                /\ owner.sees => h.search # "running"
<1> USE DEF GameRecord
<1> DEFINE g == game[w]
<1>0. g \in GameRecord /\ GameFits(g)
  OBVIOUS
<1>1. CASE EnterGame(w)
  <2>1. PICK h : h = [g EXCEPT !.abort = TRUE] /\ Set(w, h)
    BY <1>1 DEF EnterGame
  <2>2. h \in GameRecord
    BY <1>0, <2>1
  <2> QED
    BY <1>0, <1>1, <2>1, <2>2 DEF GameFits, EnterGame, AbortSearch
<1>2. CASE AbortSearch(w)
  <2>1. PICK h : /\ h = [g EXCEPT !.search = IF owner.sees /\ g.search = "running"
                                               THEN "silent" ELSE g.search]
                 /\ Set(w, h)
    BY <1>2 DEF AbortSearch
  <2>2. h \in GameRecord
    BY <1>0, <2>1
  <2>3. ~EnterGame(w)
    BY <1>2 DEF AbortSearch, EnterGame
  <2> QED
    BY <1>0, <1>2, <2>1, <2>2, <2>3 DEF GameFits
<1> QED
  BY <1>1, <1>2

\* Colours and openings are numbers and Booleans.
LEMMA ColoursTyped ==
  ASSUME NEW n \in Nat
  PROVE  OpeningOf(n) \in Nat /\ PlaysBlack(n) \in BOOLEAN
<1>1. PlaysBlack(n) \in BOOLEAN
  BY Zenon DEF PlaysBlack
<1>2. n \div 2 \in Nat
  OBVIOUS
<1>3. \A m \in Nat, d \in Nat \ {0} : m % d \in Nat
  OBVIOUS
<1> QED
  BY <1>1, <1>2, <1>3, TournamentAssumption DEF OpeningOf

\* The other steps of a worker: it takes a game, prepares it, counts it, forgets it.
LEMMA WorkersGame ==
  ASSUME game \in [Worker -> GameRecord], taken \in Nat, NEW w \in Worker, GameFits(game[w])
  PROVE  /\ TakeGame(w) => \E h \in GameRecord :
              /\ Set(w, h) /\ GameFits(h) /\ game[w].at = "idle"
              /\ IF MayTake THEN h.at = "setup" /\ h.id = taken ELSE h.at = "gone"
              /\ ~h.listed /\ h.search = "none"
         /\ SetUp(w) => \E h \in GameRecord :
              /\ Set(w, h) /\ GameFits(h) /\ game[w].at = "setup" /\ h.at = "register"
              /\ h.opening = OpeningOf(h.id) /\ h.black = PlaysBlack(h.id)
              /\ h.id = game[w].id /\ ~h.listed /\ h.search = "none"
         /\ Register(w) => \E h \in GameRecord :
              /\ Set(w, h) /\ GameFits(h) /\ game[w].at = "register" /\ h.at = "check"
              /\ h.id = game[w].id /\ h.opening = game[w].opening /\ h.black = game[w].black
              /\ h.listed /\ h.search = "none"
         /\ CountGame(w) => \E h \in GameRecord :
              /\ Set(w, h) /\ GameFits(h) /\ game[w].at = "over" /\ h.at = "counted"
              /\ h.search = game[w].search /\ h.abort = game[w].abort /\ h.listed
         /\ EraseGame(w) =>
              /\ NoGame \in GameRecord /\ Set(w, NoGame) /\ GameFits(NoGame)
              /\ game[w].at = "counted"
<1> USE DEF GameRecord
<1> DEFINE g == game[w]
<1>0. g \in GameRecord /\ GameFits(g)
  OBVIOUS
<1>1. ASSUME TakeGame(w)
      PROVE  \E h \in GameRecord :
               /\ Set(w, h) /\ GameFits(h) /\ game[w].at = "idle"
               /\ IF MayTake THEN h.at = "setup" /\ h.id = taken ELSE h.at = "gone"
               /\ ~h.listed /\ h.search = "none"
  <2>1. CASE MayTake
    <3>1. PICK h : h = [NoGame EXCEPT !.at = "setup", !.id = taken] /\ Set(w, h)
      BY <1>1, <2>1 DEF TakeGame
    <3>2. h \in GameRecord
      BY <3>1, NoGameTyped DEF Places
    <3>3. /\ h.at = "setup" /\ h.id = taken /\ h.search = NoGame.search
          /\ h.listed = NoGame.listed /\ h.head = NoGame.head
      BY <3>1, NoGameTyped
    <3> QED
      BY <1>1, <2>1, <3>1, <3>2, <3>3, NoGameTyped DEF GameFits, TakeGame
  <2>2. CASE ~MayTake
    <3>1. PICK h : h = [g EXCEPT !.at = "gone"] /\ Set(w, h) /\ g.at = "idle"
      BY <1>1, <2>2 DEF TakeGame
    <3>2. h \in GameRecord
      BY <1>0, <3>1 DEF Places
    <3> QED
      BY <1>0, <1>1, <2>2, <3>1, <3>2 DEF GameFits
  <2> QED
    BY <2>1, <2>2
<1>2. ASSUME SetUp(w)
      PROVE  \E h \in GameRecord :
               /\ Set(w, h) /\ GameFits(h) /\ game[w].at = "setup" /\ h.at = "register"
               /\ h.opening = OpeningOf(h.id) /\ h.black = PlaysBlack(h.id)
               /\ h.id = game[w].id /\ ~h.listed /\ h.search = "none"
  <2>1. PICK h : /\ h = [g EXCEPT !.at = "register", !.black = PlaysBlack(g.id),
                                  !.opening = OpeningOf(g.id)]
                 /\ Set(w, h) /\ g.at = "setup"
    BY <1>2 DEF SetUp
  <2>2. OpeningOf(g.id) \in Nat /\ PlaysBlack(g.id) \in BOOLEAN
    BY <1>0, ColoursTyped
  <2>3. h \in GameRecord
    BY <1>0, <2>1, <2>2 DEF Places
  <2> QED
    BY <1>0, <2>1, <2>3 DEF GameFits
<1>3. ASSUME Register(w)
      PROVE  \E h \in GameRecord :
               /\ Set(w, h) /\ GameFits(h) /\ game[w].at = "register" /\ h.at = "check"
               /\ h.id = game[w].id /\ h.opening = game[w].opening /\ h.black = game[w].black
               /\ h.listed /\ h.search = "none"
  <2>1. PICK side \in {White, Black} :
          Set(w, [g EXCEPT !.at = "check", !.listed = TRUE, !.side = side]) /\ g.at = "register"
    BY <1>3 DEF Register
  <2>4. side \in 0..1
    BY DEF White, Black
  <2>2. PICK h : /\ h = [g EXCEPT !.at = "check", !.listed = TRUE, !.side = side]
                 /\ Set(w, h)
    BY <2>1
  <2>3. h \in GameRecord
    BY <1>0, <2>2, <2>4 DEF Places
  <2> QED
    BY <1>0, <2>1, <2>2, <2>3 DEF GameFits
<1>4. ASSUME CountGame(w)
      PROVE  \E h \in GameRecord :
               /\ Set(w, h) /\ GameFits(h) /\ game[w].at = "over" /\ h.at = "counted"
               /\ h.search = game[w].search /\ h.abort = game[w].abort /\ h.listed
  <2>1. PICK h : h = [g EXCEPT !.at = "counted"] /\ Set(w, h) /\ g.at = "over"
    BY <1>4 DEF CountGame
  <2>2. h \in GameRecord
    BY <1>0, <2>1 DEF Places
  <2> QED
    BY <1>0, <2>1, <2>2 DEF GameFits
<1>5. ASSUME EraseGame(w)
      PROVE  /\ NoGame \in GameRecord /\ Set(w, NoGame) /\ GameFits(NoGame)
             /\ game[w].at = "counted"
  BY <1>5, NoGameTyped DEF EraseGame, GameFits
<1> QED
  BY <1>1, <1>2, <1>3, <1>4, <1>5

-----------------------------------------------------------------------------
\* The games stay what they are, and fit.
LEMMA GamesKeep ==
  ASSUME TournamentTyped, GamesFit, TournamentNext
  PROVE  game' \in [Worker -> GameRecord] /\ GamesFit'
<1>0. /\ game \in [Worker -> GameRecord] /\ taken \in Nat /\ owner \in OwnerRecord
      /\ \A w \in Worker : GameFits(game[w])
  BY DEF TournamentTyped, GamesFit
<1>1. ASSUME NEW w \in Worker, NEW h \in GameRecord, Set(w, h), GameFits(h)
      PROVE  game' \in [Worker -> GameRecord] /\ GamesFit'
  <2>1. /\ game' \in [Worker -> GameRecord] /\ game'[w] = h
        /\ \A v \in Worker : v # w => game'[v] = game[v]
    BY <1>0, <1>1, OneGame
  <2> QED
    BY <1>0, <1>1, <2>1 DEF GamesFit, GameFits
<1>2. ASSUME UNCHANGED game
      PROVE  game' \in [Worker -> GameRecord] /\ GamesFit'
  BY <1>0, <1>2 DEF GamesFit, GameFits
<1>3. ASSUME NEW w \in Worker, WorkerStep(w)
      PROVE  game' \in [Worker -> GameRecord] /\ GamesFit'
  <2>1. CASE Playing(w)
    BY <1>0, <1>1, <2>1, PlayingGame DEF PlayStep, GameStep
  <2>2. CASE TakeGame(w) \/ SetUp(w) \/ Register(w) \/ CountGame(w) \/ EraseGame(w)
    BY <1>0, <1>1, <2>2, WorkersGame
  <2> QED
    BY <1>3, <2>1, <2>2 DEF WorkerStep, Playing
<1>4. ASSUME NEW w \in Worker, EnterGame(w) \/ AbortSearch(w)
      PROVE  game' \in [Worker -> GameRecord] /\ GamesFit'
  BY <1>0, <1>1, <1>4, VisitedGame
<1>5. ASSUME NEW w \in Worker, AskForSearch(w)
      PROVE  game' \in [Worker -> GameRecord] /\ GamesFit'
  BY <1>2, <1>5 DEF AskForSearch
<1>6. ASSUME Finish \/ Stop \/ Abort
      PROVE  game' \in [Worker -> GameRecord] /\ GamesFit'
  BY <1>2, <1>6 DEF Finish, Stop, Abort
<1> QED
  BY <1>3, <1>4, <1>5, <1>6 DEF TournamentNext

\* What the books of a tournament record.
LEMMA CountedGame ==
  ASSUME TournamentTyped, NEW w \in Worker, CountGame(w)
  PROVE  LET p == [id |-> game[w].id, opening |-> game[w].opening,
                   black |-> game[w].black, result |-> game[w].result]
         IN /\ p \in PlayedRecord /\ played' = played \cup {p}
            /\ p.id = game[w].id /\ p.opening = game[w].opening
            /\ p.black = game[w].black /\ p.result = game[w].result
<1>1. game[w] \in GameRecord
  BY DEF TournamentTyped
<1> QED
  BY <1>1 DEF CountGame, GameRecord, PlayedRecord

\* Where a result is counted.
LEMMA CountedPlace ==
  ASSUME NEW g \in GameRecord, g.result # "undecided"
  PROVE  /\ ResultIndex(g) \in 0..2 /\ (IF g.black THEN 1 ELSE 0) \in 0..1
         /\ \A r \in 0..2, c \in 0..1 :
              CountsFor(g, r, c) <=> r = ResultIndex(g) /\ c = IF g.black THEN 1 ELSE 0
<1>1. g.result \in {"white", "black", "draw"} /\ g.black \in BOOLEAN
  BY DEF GameRecord, Outcomes, Decided
<1> QED
  BY <1>1 DEF ResultIndex, CountsFor

\* Every step keeps the types.
LEMMA TypedKeeps ==
  ASSUME TournamentTyped, GamesFit, TournamentNext
  PROVE  TournamentTyped'
<1>1. game' \in [Worker -> GameRecord]
  BY GamesKeep
<1>2. owner' \in OwnerRecord
  <2>1. owner \in OwnerRecord /\ NoAbort \in OwnerRecord
    BY DEF TournamentTyped, NoAbort, OwnerRecord
  <2>2. ASSUME NEW w \in Worker, WorkerStep(w)
        PROVE  owner' \in OwnerRecord
    BY <2>1, <2>2
    DEF WorkerStep, TakeGame, SetUp, Register, CheckGame, CreateSearch, SearchEnds,
        AfterSearch, ResetSearch, MakeMove, CountGame, EraseGame, GameStep
  <2>3. ASSUME NEW w \in Worker, EnterGame(w) \/ AskForSearch(w) \/ AbortSearch(w)
        PROVE  owner' \in OwnerRecord
    <3>1. CASE EnterGame(w)
      BY <2>1, <3>1 DEF EnterGame, OwnerRecord
    <3>2. CASE AskForSearch(w)
      BY <2>1, <3>2 DEF AskForSearch, OwnerRecord
    <3>3. CASE AbortSearch(w)
      <4>1. [owner EXCEPT !.at = "visiting", !.in = {}, !.sees = FALSE] \in OwnerRecord
        BY <2>1 DEF OwnerRecord
      <4> QED
        BY <2>1, <3>3, <4>1 DEF AbortSearch
    <3> QED
      BY <2>3, <3>1, <3>2, <3>3
  <2>4. ASSUME Finish \/ Stop
        PROVE  owner' \in OwnerRecord
    BY <2>1, <2>4 DEF Finish, Stop
  <2>5. ASSUME Abort
        PROVE  owner' \in OwnerRecord
    BY <2>1, <2>5 DEF Abort, OwnerRecord
  <2> QED
    BY <2>2, <2>3, <2>4, <2>5 DEF TournamentNext
<1>3. /\ firstBlack' \in BOOLEAN /\ abort' \in BOOLEAN /\ saved' \in BOOLEAN
      /\ taken' \in Nat /\ taken' <= TotalGames
  <2>1. CASE \E w \in Worker : TakeGame(w)
    BY <2>1, TournamentAssumption DEF TournamentTyped, TakeGame, MayTake
  <2>2. CASE ~\E w \in Worker : TakeGame(w)
    <3>1. UNCHANGED <<firstBlack, taken>> /\ (abort' = abort \/ abort' = TRUE)
          /\ (saved' = saved \/ saved' = TRUE)
      BY <2>2
      DEF TournamentNext, WorkerStep, SetUp, Register, CheckGame, CreateSearch, SearchEnds,
          AfterSearch, ResetSearch, MakeMove, CountGame, EraseGame, GameStep, EnterGame,
          AskForSearch, AbortSearch, Finish, Stop, Abort
    <3> QED
      BY <3>1 DEF TournamentTyped
  <2> QED
    BY <2>1, <2>2
<1>4. /\ score' \in [0..2 -> [0..1 -> Nat]]
      /\ played' \in SUBSET PlayedRecord /\ IsFiniteSet(played')
  <2>1. ASSUME NEW w \in Worker, CountGame(w)
        PROVE  /\ score' \in [0..2 -> [0..1 -> Nat]]
               /\ played' \in SUBSET PlayedRecord /\ IsFiniteSet(played')
    <3>1. PICK p \in PlayedRecord : played' = played \cup {p}
      BY <2>1, CountedGame
    <3>2. score' \in [0..2 -> [0..1 -> Nat]]
      <4>1. CASE game[w].result = "undecided"
        BY <2>1, <4>1 DEF CountGame, TournamentTyped
      <4>2. CASE game[w].result # "undecided"
        <5>1. game[w] \in GameRecord /\ score \in [0..2 -> [0..1 -> Nat]]
          BY DEF TournamentTyped
        <5>2. /\ ResultIndex(game[w]) \in 0..2 /\ (IF game[w].black THEN 1 ELSE 0) \in 0..1
          BY <4>2, <5>1, CountedPlace
        <5>3. score' = [score EXCEPT ![ResultIndex(game[w])][IF game[w].black THEN 1 ELSE 0]
                                       = @ + 1]
          BY <2>1, <4>2 DEF CountGame
        <5>4. \A a \in 0..2, b \in 0..1 :
                [score EXCEPT ![a][b] = @ + 1] \in [0..2 -> [0..1 -> Nat]]
          BY <5>1
        <5> QED
          BY <5>2, <5>3, <5>4
      <4> QED
        BY <4>1, <4>2
    <3> QED
      BY <3>1, <3>2, FS_AddElement DEF TournamentTyped
  <2>2. CASE ~\E w \in Worker : CountGame(w)
    <3>1. UNCHANGED <<score, played>>
      BY <2>2
      DEF TournamentNext, WorkerStep, TakeGame, SetUp, Register, CheckGame, CreateSearch,
          SearchEnds, AfterSearch, ResetSearch, MakeMove, EraseGame, GameStep, EnterGame,
          AskForSearch, AbortSearch, Finish, Stop, Abort
    <3> QED
      BY <3>1 DEF TournamentTyped
  <2> QED
    BY <2>1, <2>2
<1> QED
  BY <1>1, <1>2, <1>3, <1>4 DEF TournamentTyped

-----------------------------------------------------------------------------
\* The steps that take no number and count no game leave the books alone.
LEMMA QuietSteps ==
  ASSUME TournamentTyped, GamesFit, TournamentNext,
         ~\E w \in Worker : TakeGame(w) \/ CountGame(w) \/ EraseGame(w)
  PROVE  /\ UNCHANGED <<firstBlack, taken, score, played>>
         /\ \A v \in Worker :
              /\ OnIt(v)' <=> OnIt(v)
              /\ game'[v].id = game[v].id
              /\ game'[v].at = "gone" <=> game[v].at = "gone"
              /\ game'[v].at # "setup" =>
                   \/ /\ game[v].at # "setup"
                      /\ game'[v].opening = game[v].opening
                      /\ game'[v].black = game[v].black
                   \/ /\ game'[v].opening = OpeningOf(game[v].id)
                      /\ game'[v].black = PlaysBlack(game[v].id)
<1> DEFINE Kept(g, h) ==
      /\ h.id = g.id
      /\ \A x \in {"idle", "gone", "counted"} : h.at = x <=> g.at = x
      /\ h.at # "setup" =>
           \/ g.at # "setup" /\ h.opening = g.opening /\ h.black = g.black
           \/ h.opening = OpeningOf(g.id) /\ h.black = PlaysBlack(g.id)
<1>0. /\ game \in [Worker -> GameRecord] /\ taken \in Nat /\ owner \in OwnerRecord
      /\ \A w \in Worker : GameFits(game[w])
  BY DEF TournamentTyped, GamesFit
<1>1. UNCHANGED <<firstBlack, taken, score, played>>
  BY DEF TournamentNext, WorkerStep, SetUp, Register, CheckGame, CreateSearch, SearchEnds,
      AfterSearch, ResetSearch, MakeMove, GameStep, EnterGame, AskForSearch, AbortSearch,
      Finish, Stop, Abort
<1>2. \A v \in Worker : Kept(game[v], game'[v])
  <2>1. ASSUME NEW w \in Worker, NEW h \in GameRecord, Set(w, h), Kept(game[w], h)
        PROVE  \A v \in Worker : Kept(game[v], game'[v])
    <3>1. /\ game'[w] = h
          /\ \A v \in Worker : v # w => game'[v] = game[v]
      BY <1>0, <2>1, OneGame
    <3> QED
      BY <2>1, <3>1
  <2>2. ASSUME UNCHANGED game
        PROVE  \A v \in Worker : Kept(game[v], game'[v])
    BY <2>2
  <2>3. ASSUME NEW w \in Worker, Playing(w)
        PROVE  \A v \in Worker : Kept(game[v], game'[v])
    <3>1. PICK h \in GameRecord : Set(w, h) /\ PlayStep(game[w], h)
      BY <1>0, <2>3, PlayingGame DEF GameStep
    <3>2. Kept(game[w], h)
      BY <3>1 DEF PlayStep
    <3> QED
      BY <2>1, <3>1, <3>2
  <2>4. ASSUME NEW w \in Worker, SetUp(w)
        PROVE  \A v \in Worker : Kept(game[v], game'[v])
    <3>1. PICK h \in GameRecord :
            /\ Set(w, h) /\ game[w].at = "setup" /\ h.at = "register" /\ h.id = game[w].id
            /\ h.opening = OpeningOf(h.id) /\ h.black = PlaysBlack(h.id)
      BY <1>0, <2>4, WorkersGame
    <3>2. Kept(game[w], h)
      BY <3>1
    <3> QED
      BY <2>1, <3>1, <3>2
  <2>5. ASSUME NEW w \in Worker, Register(w)
        PROVE  \A v \in Worker : Kept(game[v], game'[v])
    <3>1. PICK h \in GameRecord :
            /\ Set(w, h) /\ game[w].at = "register" /\ h.at = "check" /\ h.id = game[w].id
            /\ h.opening = game[w].opening /\ h.black = game[w].black
      BY <1>0, <2>5, WorkersGame
    <3>2. Kept(game[w], h)
      BY <3>1
    <3> QED
      BY <2>1, <3>1, <3>2
  <2>6. ASSUME NEW w \in Worker, EnterGame(w) \/ AbortSearch(w)
        PROVE  \A v \in Worker : Kept(game[v], game'[v])
    <3>1. PICK h \in GameRecord :
            /\ Set(w, h) /\ h.at = game[w].at /\ h.id = game[w].id
            /\ h.opening = game[w].opening /\ h.black = game[w].black
      BY <1>0, <2>6, VisitedGame
    <3>2. Kept(game[w], h)
      BY <3>1
    <3> QED
      BY <2>1, <3>1, <3>2
  <2>7. ASSUME NEW w \in Worker, AskForSearch(w)
        PROVE  \A v \in Worker : Kept(game[v], game'[v])
    BY <2>2, <2>7 DEF AskForSearch
  <2>8. ASSUME Finish \/ Stop \/ Abort
        PROVE  \A v \in Worker : Kept(game[v], game'[v])
    BY <2>2, <2>8 DEF Finish, Stop, Abort
  <2> HIDE DEF Kept
  <2> QED
    BY <2>3, <2>4, <2>5, <2>6, <2>7, <2>8 DEF TournamentNext, WorkerStep, Playing
<1> QED
  BY <1>1, <1>2 DEF OnIt

\* Every number that was taken is still that of one game.
LEMMA NumbersKeep ==
  ASSUME TournamentTyped, GamesFit, NumbersFit, TournamentNext
  PROVE  NumbersFit'
<1>0. /\ game \in [Worker -> GameRecord] /\ taken \in Nat
      /\ \A w \in Worker : GameFits(game[w]) /\ game[w].id \in Nat
      /\ \A p \in played : p.id \in Nat
  BY DEF TournamentTyped, GamesFit, GameRecord, PlayedRecord
<1>1. ASSUME NEW w \in Worker, TakeGame(w)
      PROVE  NumbersFit'
  <2>1. PICK h \in GameRecord :
          /\ Set(w, h) /\ game[w].at = "idle"
          /\ IF MayTake THEN h.at = "setup" /\ h.id = taken ELSE h.at = "gone"
    BY <1>0, <1>1, WorkersGame
  <2>2. /\ game'[w] = h
        /\ \A v \in Worker : v # w => game'[v] = game[v]
    BY <1>0, <2>1, OneGame
  <2>3. UNCHANGED played /\ IF MayTake THEN taken' = taken + 1 ELSE taken' = taken
    BY <1>1 DEF TakeGame
  <2>4. CASE MayTake
    <3>1. \A v \in Worker : (OnIt(v)' <=> v = w \/ OnIt(v)) /\ ~OnIt(w)
      BY <2>1, <2>2, <2>4 DEF OnIt
    <3>2. game'[w].id = taken /\ \A v \in Worker : v # w => game'[v].id = game[v].id
      BY <2>1, <2>2, <2>4
    <3>3. \A v \in Worker : OnIt(v)' => /\ game'[v].id < taken'
                                        /\ \A p \in played' : p.id # game'[v].id
      BY <1>0, <2>3, <2>4, <3>1, <3>2 DEF NumbersFit
    <3>4. \A u, v \in Worker : OnIt(u)' /\ OnIt(v)' /\ game'[u].id = game'[v].id => u = v
      BY <1>0, <3>1, <3>2 DEF NumbersFit
    <3>5. \A p \in played' : p.id < taken'
      BY <1>0, <2>3, <2>4 DEF NumbersFit
    <3>6. \A n \in Nat : n < taken' => \/ \E p \in played' : p.id = n
                                       \/ \E v \in Worker : OnIt(v)' /\ game'[v].id = n
      <4> SUFFICES ASSUME NEW n \in Nat, n < taken'
                   PROVE  \/ \E p \in played' : p.id = n
                          \/ \E v \in Worker : OnIt(v)' /\ game'[v].id = n
        OBVIOUS
      <4>1. CASE n = taken
        BY <3>1, <3>2, <4>1
      <4>2. CASE n # taken
        <5>1. n < taken
          BY <1>0, <2>3, <2>4, <4>2
        <5> QED
          BY <2>3, <3>1, <3>2, <5>1 DEF NumbersFit
      <4> QED
        BY <4>1, <4>2
    <3> QED
      BY <2>3, <3>3, <3>4, <3>5, <3>6 DEF NumbersFit
  <2>5. CASE ~MayTake
    <3>1. \A v \in Worker : (OnIt(v)' <=> OnIt(v)) /\ ~OnIt(w)
      BY <2>1, <2>2, <2>5 DEF OnIt
    <3>2. \A v \in Worker : OnIt(v) => game'[v] = game[v]
      BY <2>2, <3>1
    <3> QED
      BY <2>3, <2>5, <3>1, <3>2 DEF NumbersFit
  <2> QED
    BY <2>4, <2>5
<1>2. ASSUME NEW w \in Worker, CountGame(w)
      PROVE  NumbersFit'
  <2>1. PICK h \in GameRecord : Set(w, h) /\ game[w].at = "over" /\ h.at = "counted"
    BY <1>0, <1>2, WorkersGame
  <2>2. /\ game'[w] = h
        /\ \A v \in Worker : v # w => game'[v] = game[v]
    BY <1>0, <2>1, OneGame
  <2>3. PICK p \in PlayedRecord : played' = played \cup {p} /\ p.id = game[w].id
    BY <1>2, CountedGame
  <2>4. \A v \in Worker : (OnIt(v)' <=> v # w /\ OnIt(v)) /\ OnIt(w)
    BY <2>1, <2>2 DEF OnIt
  <2>5. UNCHANGED taken
    BY <1>2 DEF CountGame
  <2> HIDE DEF OnIt
  <2>6. \A v \in Worker : OnIt(v)' => /\ game'[v].id < taken'
                                      /\ \A q \in played' : q.id # game'[v].id
    BY <2>2, <2>3, <2>4, <2>5 DEF NumbersFit
  <2>7. \A u, v \in Worker : OnIt(u)' /\ OnIt(v)' /\ game'[u].id = game'[v].id => u = v
    BY <2>2, <2>4 DEF NumbersFit
  <2>8. \A q \in played' : q.id < taken'
    BY <2>3, <2>4, <2>5 DEF NumbersFit
  <2>9. \A q, r \in played' : q.id = r.id => q = r
    BY <2>3, <2>4 DEF NumbersFit
  <2>10. \A n \in Nat : n < taken' => \/ \E q \in played' : q.id = n
                                      \/ \E v \in Worker : OnIt(v)' /\ game'[v].id = n
    BY <2>2, <2>3, <2>4, <2>5 DEF NumbersFit
  <2> QED
    BY <2>6, <2>7, <2>8, <2>9, <2>10 DEF NumbersFit
<1>3. ASSUME NEW w \in Worker, EraseGame(w)
      PROVE  NumbersFit'
  <2>1. Set(w, NoGame) /\ NoGame \in GameRecord /\ game[w].at = "counted"
    BY <1>0, <1>3, WorkersGame
  <2>2. /\ game'[w] = NoGame
        /\ \A v \in Worker : v # w => game'[v] = game[v]
    BY <1>0, <2>1, OneGame
  <2>3. \A v \in Worker : (OnIt(v)' <=> OnIt(v)) /\ ~OnIt(w)
    BY <2>1, <2>2, NoGameTyped DEF OnIt
  <2>4. \A v \in Worker : OnIt(v) => game'[v] = game[v]
    BY <2>2, <2>3
  <2>5. UNCHANGED <<taken, played>>
    BY <1>3 DEF EraseGame
  <2> QED
    BY <2>3, <2>4, <2>5 DEF NumbersFit
<1>4. CASE ~\E w \in Worker : TakeGame(w) \/ CountGame(w) \/ EraseGame(w)
  <2>1. /\ UNCHANGED <<taken, played>>
        /\ \A v \in Worker : (OnIt(v)' <=> OnIt(v)) /\ game'[v].id = game[v].id
    BY <1>4, QuietSteps
  <2> QED
    BY <2>1 DEF NumbersFit
<1> QED
  BY <1>1, <1>2, <1>3, <1>4

\* Games are played with the opening and the colours of their numbers.
LEMMA ColoursKeep ==
  ASSUME TournamentTyped, GamesFit, ColoursFit, TournamentNext
  PROVE  ColoursFit'
<1>0. /\ game \in [Worker -> GameRecord] /\ taken \in Nat
      /\ \A w \in Worker : GameFits(game[w])
  BY DEF TournamentTyped, GamesFit
<1>1. UNCHANGED firstBlack /\ (\A n \in Nat : OpeningOf(n)' = OpeningOf(n)
                                              /\ (PlaysBlack(n)' <=> PlaysBlack(n)))
  BY DEF TournamentNext, WorkerStep, TakeGame, SetUp, Register, CheckGame, CreateSearch,
      SearchEnds, AfterSearch, ResetSearch, MakeMove, CountGame, EraseGame, GameStep,
      EnterGame, AskForSearch, AbortSearch, Finish, Stop, Abort, OpeningOf, PlaysBlack
<1>2. ASSUME NEW w \in Worker, CountGame(w)
      PROVE  ColoursFit'
  <2>1. PICK h \in GameRecord : Set(w, h) /\ game[w].at = "over" /\ h.at = "counted"
    BY <1>0, <1>2, WorkersGame
  <2>2. /\ game'[w] = h
        /\ \A v \in Worker : v # w => game'[v] = game[v]
    BY <1>0, <2>1, OneGame
  <2>3. PICK p \in PlayedRecord : /\ played' = played \cup {p} /\ p.id = game[w].id
                                  /\ p.opening = game[w].opening /\ p.black = game[w].black
    BY <1>2, CountedGame
  <2>4. p.opening = OpeningOf(p.id) /\ p.black = PlaysBlack(p.id)
    BY <2>1, <2>3 DEF ColoursFit, OnIt
  <2>5. ~OnIt(w)' /\ \A v \in Worker : v # w => (OnIt(v)' <=> OnIt(v))
    BY <2>1, <2>2 DEF OnIt
  <2> HIDE DEF OnIt
  <2>6. \A v \in Worker : OnIt(v)' /\ game'[v].at # "setup" =>
          /\ game'[v].opening = OpeningOf(game'[v].id)
          /\ game'[v].black = PlaysBlack(game'[v].id)
    BY <2>2, <2>5 DEF ColoursFit
  <2>7. \A q \in played' : q.opening = OpeningOf(q.id) /\ q.black = PlaysBlack(q.id)
    BY <2>3, <2>4 DEF ColoursFit
  <2> QED
    BY <1>1, <2>6, <2>7 DEF ColoursFit, OpeningOf, PlaysBlack
<1>3. ASSUME NEW w \in Worker, TakeGame(w) \/ EraseGame(w)
      PROVE  ColoursFit'
  <2>1. PICK h \in GameRecord : Set(w, h) /\ h.at \in {"setup", "gone", "idle"}
    BY <1>0, <1>3, WorkersGame, NoGameTyped
  <2>2. /\ game'[w] = h
        /\ \A v \in Worker : v # w => game'[v] = game[v]
    BY <1>0, <2>1, OneGame
  <2>3. UNCHANGED played
    BY <1>3 DEF TakeGame, EraseGame
  <2>4. \A v \in Worker : OnIt(v)' /\ game'[v].at # "setup" => v # w /\ OnIt(v)
    BY <2>1, <2>2 DEF OnIt
  <2> QED
    BY <1>1, <2>2, <2>3, <2>4 DEF ColoursFit, OpeningOf, PlaysBlack
<1>4. CASE ~\E w \in Worker : TakeGame(w) \/ CountGame(w) \/ EraseGame(w)
  <2>1. /\ UNCHANGED played
        /\ \A v \in Worker :
             /\ OnIt(v)' <=> OnIt(v)
             /\ game'[v].id = game[v].id
             /\ game'[v].at # "setup" =>
                  \/ /\ game[v].at # "setup"
                     /\ game'[v].opening = game[v].opening
                     /\ game'[v].black = game[v].black
                  \/ /\ game'[v].opening = OpeningOf(game[v].id)
                     /\ game'[v].black = PlaysBlack(game[v].id)
    BY <1>4, QuietSteps
  <2>2. \A v \in Worker : OnIt(v)' /\ game'[v].at # "setup" =>
          /\ game'[v].opening = OpeningOf(game'[v].id)
          /\ game'[v].black = PlaysBlack(game'[v].id)
    BY <2>1 DEF ColoursFit
  <2> QED
    BY <1>1, <2>1, <2>2 DEF ColoursFit, OpeningOf, PlaysBlack
<1> QED
  BY <1>2, <1>3, <1>4

\* The score is that of the games counted.
LEMMA ScoreKeeps ==
  ASSUME TournamentTyped, GamesFit, NumbersFit, ScoreFits, TournamentNext
  PROVE  ScoreFits'
<1>1. ASSUME NEW w \in Worker, CountGame(w)
      PROVE  ScoreFits'
  <2>0. /\ game[w] \in GameRecord /\ score \in [0..2 -> [0..1 -> Nat]]
        /\ IsFiniteSet(played) /\ game[w].at = "over"
    BY <1>1 DEF TournamentTyped, CountGame
  <2>1. PICK p \in PlayedRecord :
          /\ played' = played \cup {p} /\ p.id = game[w].id
          /\ p.black = game[w].black /\ p.result = game[w].result
    BY <1>1, CountedGame
  <2>2. p \notin played
    BY <2>0, <2>1 DEF NumbersFit, OnIt
  <2>3. \A r \in 0..2, c \in 0..1 : CountsFor(p, r, c) <=> CountsFor(game[w], r, c)
    BY <2>1 DEF CountsFor
  <2>4. ASSUME NEW r \in 0..2, NEW c \in 0..1
        PROVE  score'[r][c] = Cardinality({q \in played' : CountsFor(q, r, c)})
    <3> DEFINE S == {q \in played : CountsFor(q, r, c)}
               T == {q \in played \cup {p} : CountsFor(q, r, c)}
    <3>1. IsFiniteSet(S) /\ p \notin S
      BY <2>0, <2>2, FS_Subset
    <3>2. score[r][c] = Cardinality(S)
      BY DEF ScoreFits
    <3>3. CASE CountsFor(p, r, c)
      <4>1. T = S \cup {p}
        BY <3>3
      <4>2. Cardinality(T) = Cardinality(S) + 1
        BY <3>1, <4>1, FS_AddElement
      <4>3. game[w].result # "undecided"
        <5>1. r = 0 \/ r = 1 \/ r = 2
          OBVIOUS
        <5>2. p.result = "draw" \/ p.result = "white" \/ p.result = "black"
          BY <3>3, <5>1 DEF CountsFor
        <5> QED
          BY <2>1, <5>2
      <4>4. r = ResultIndex(game[w]) /\ c = IF game[w].black THEN 1 ELSE 0
        BY <2>0, <2>3, <3>3, <4>3, CountedPlace
      <4>5. score' = [score EXCEPT ![r][c] = @ + 1]
        BY <1>1, <4>3, <4>4 DEF CountGame
      <4>6. score'[r][c] = score[r][c] + 1
        BY <2>0, <4>5
      <4> QED
        BY <2>1, <3>2, <4>2, <4>6
    <3>4. CASE ~CountsFor(p, r, c)
      <4>1. T = S
        BY <3>4
      <4>2. score'[r][c] = score[r][c]
        <5>1. CASE game[w].result = "undecided"
          BY <1>1, <5>1 DEF CountGame
        <5>2. CASE game[w].result # "undecided"
          <6> DEFINE a == ResultIndex(game[w])
                     b == IF game[w].black THEN 1 ELSE 0
          <6>1. a \in 0..2 /\ b \in 0..1 /\ ~(r = a /\ c = b)
            BY <2>0, <2>3, <3>4, <5>2, CountedPlace
          <6>2. score' = [score EXCEPT ![a][b] = @ + 1]
            BY <1>1, <5>2 DEF CountGame
          <6> HIDE DEF a, b
          <6> QED
            BY <2>0, <6>1, <6>2
        <5> QED
          BY <5>1, <5>2
      <4> QED
        BY <2>1, <3>2, <4>1, <4>2
    <3> QED
      BY <3>3, <3>4
  <2> QED
    BY <2>4 DEF ScoreFits, CountsFor
<1>2. CASE ~\E w \in Worker : CountGame(w)
  <2>1. UNCHANGED <<score, played>>
    BY <1>2
    DEF TournamentNext, WorkerStep, TakeGame, SetUp, Register, CheckGame, CreateSearch,
        SearchEnds, AfterSearch, ResetSearch, MakeMove, EraseGame, GameStep, EnterGame,
        AskForSearch, AbortSearch, Finish, Stop, Abort
  <2> QED
    BY <2>1 DEF ScoreFits, CountsFor
<1> QED
  BY <1>1, <1>2

\* Who has left had nothing more to take.
LEMMA LeavingKeeps ==
  ASSUME TournamentTyped, GamesFit, LeavingFits, TournamentNext
  PROVE  LeavingFits'
<1>0. /\ game \in [Worker -> GameRecord] /\ taken \in Nat /\ taken <= TotalGames
      /\ \A w \in Worker : GameFits(game[w])
      /\ TotalGames \in Nat /\ Worker # {}
  BY TournamentAssumption DEF TournamentTyped, GamesFit
<1>1. abort => abort'
  BY DEF TournamentNext, WorkerStep, TakeGame, SetUp, Register, CheckGame, CreateSearch,
      SearchEnds, AfterSearch, ResetSearch, MakeMove, CountGame, EraseGame, GameStep,
      EnterGame, AskForSearch, AbortSearch, Finish, Stop, Abort
<1>2. CASE Finish
  <2>1. \A w \in Worker : game[w].at = "gone"
    BY <1>2 DEF Finish, AllJoined
  <2>2. ~abort /\ UNCHANGED <<game, taken, abort>>
    BY <1>2 DEF Finish
  <2>3. taken = TotalGames
    BY <1>0, <2>1, <2>2 DEF LeavingFits
  <2> QED
    BY <2>1, <2>2, <2>3 DEF LeavingFits
<1>3. CASE ~Finish
  <2>1. UNCHANGED saved
    BY <1>3
    DEF TournamentNext, WorkerStep, TakeGame, SetUp, Register, CheckGame, CreateSearch,
        SearchEnds, AfterSearch, ResetSearch, MakeMove, CountGame, EraseGame, GameStep,
        EnterGame, AskForSearch, AbortSearch, Finish, Stop, Abort
  <2>2. CASE \E w \in Worker : TakeGame(w)
    <3>1. PICK w \in Worker : TakeGame(w)
      BY <2>2
    <3>2. PICK h \in GameRecord :
            /\ Set(w, h) /\ game[w].at = "idle"
            /\ IF MayTake THEN h.at = "setup" ELSE h.at = "gone"
      BY <1>0, <3>1, WorkersGame
    <3>3. /\ game'[w] = h
          /\ \A v \in Worker : v # w => game'[v] = game[v]
      BY <1>0, <3>2, OneGame
    <3>4. ~saved
      BY <3>2 DEF LeavingFits
    <3>5. IF MayTake THEN taken' = taken + 1 ELSE taken' = taken
      BY <3>1 DEF TakeGame
    <3>6. ASSUME NEW v \in Worker, game'[v].at = "gone"
          PROVE  abort' \/ taken' = TotalGames
      <4>1. CASE v = w
        BY <1>0, <1>1, <3>2, <3>3, <3>5, <3>6, <4>1 DEF MayTake
      <4>2. CASE v # w
        BY <1>0, <1>1, <3>3, <3>5, <3>6, <4>2 DEF MayTake, LeavingFits
      <4> QED
        BY <4>1, <4>2
    <3> QED
      BY <2>1, <3>4, <3>6 DEF LeavingFits
  <2>3. CASE ~\E w \in Worker : TakeGame(w)
    <3>1. UNCHANGED taken
      BY <2>3
      DEF TournamentNext, WorkerStep, SetUp, Register, CheckGame, CreateSearch, SearchEnds,
          AfterSearch, ResetSearch, MakeMove, CountGame, EraseGame, GameStep, EnterGame,
          AskForSearch, AbortSearch, Finish, Stop, Abort
    <3>2. \A v \in Worker : game'[v].at = "gone" <=> game[v].at = "gone"
      <4>1. ASSUME NEW w \in Worker, NEW h \in GameRecord, Set(w, h),
                   h.at # "gone", game[w].at # "gone"
            PROVE  \A v \in Worker : game'[v].at = "gone" <=> game[v].at = "gone"
        BY <1>0, <4>1, OneGame
      <4>2. ASSUME NEW w \in Worker, CountGame(w) \/ EraseGame(w)
            PROVE  \A v \in Worker : game'[v].at = "gone" <=> game[v].at = "gone"
        BY <1>0, <4>1, <4>2, WorkersGame, NoGameTyped
      <4>3. CASE ~\E w \in Worker : CountGame(w) \/ EraseGame(w)
        BY <2>3, <4>3, QuietSteps
      <4> QED
        BY <4>2, <4>3
    <3> QED
      BY <1>1, <2>1, <3>1, <3>2 DEF LeavingFits
  <2> QED
    BY <2>2, <2>3
<1> QED
  BY <1>2, <1>3

\* What Abort has visited rests.
LEMMA OwnerKeeps ==
  ASSUME TournamentTyped, GamesFit, OwnerFits, TournamentNext
  PROVE  OwnerFits'
<1>0. /\ game \in [Worker -> GameRecord] /\ taken \in Nat /\ owner \in OwnerRecord
      /\ owner.in \subseteq Worker /\ owner.left \subseteq Worker
      /\ \A w \in Worker : GameFits(game[w])
  BY DEF TournamentTyped, GamesFit, OwnerRecord
<1>1. ASSUME NEW w \in Worker, NEW h \in GameRecord, Set(w, h), UNCHANGED owner,
             game[w].listed => h.listed \/ owner.at = "none",
             h.search = "running" =>
               /\ game[w].search = "running" \/ GameFree(w)
               /\ h.abort => game[w].search = "running" /\ game[w].abort
      PROVE  OwnerFits'
  <2>1. /\ game'[w] = h
        /\ \A v \in Worker : v # w => game'[v] = game[v]
    BY <1>0, <1>1, OneGame
  <2>2. owner.in \cup owner.left \subseteq {v \in Worker : game'[v].listed}
    BY <1>0, <1>1, <2>1 DEF OwnerFits
  <2>3. \A v \in owner.in : owner.at = "inside" /\ game'[v].search = "running" => owner.sees
    BY <1>0, <1>1, <2>1 DEF OwnerFits, GameFree
  <2>4. \A v \in Worker : game'[v].abort /\ v \notin owner.in => game'[v].search # "running"
    BY <1>0, <1>1, <2>1 DEF OwnerFits
  <2> QED
    BY <1>1, <2>2, <2>3, <2>4 DEF OwnerFits
<1>2. ASSUME NEW w \in Worker, Playing(w)
      PROVE  OwnerFits'
  <2>1. PICK h \in GameRecord :
          /\ GameStep(w, h) /\ PlayStep(game[w], h)
          /\ h.search = "running" => game[w].search = "running" \/ GameFree(w)
    BY <1>0, <1>2, PlayingGame
  <2>2. Set(w, h) /\ UNCHANGED owner
    BY <2>1 DEF GameStep
  <2>3. h.search = "running" /\ h.abort => game[w].search = "running" /\ game[w].abort
    BY <2>1 DEF PlayStep
  <2>4. h.listed = game[w].listed
    BY <2>1 DEF PlayStep
  <2> QED
    BY <1>1, <2>1, <2>2, <2>3, <2>4
<1>3. ASSUME NEW w \in Worker, TakeGame(w) \/ SetUp(w) \/ Register(w) \/ EraseGame(w)
      PROVE  OwnerFits'
  <2>1. PICK h \in GameRecord : Set(w, h) /\ h.search = "none"
    BY <1>0, <1>3, WorkersGame, NoGameTyped
  <2>2. UNCHANGED owner /\ owner.at = "none"
    BY <1>3 DEF TakeGame, SetUp, Register, EraseGame, TournamentFree
  <2> QED
    BY <1>1, <2>1, <2>2
<1>4. ASSUME NEW w \in Worker, CountGame(w)
      PROVE  OwnerFits'
  <2>1. PICK h \in GameRecord : /\ Set(w, h) /\ h.search = game[w].search
                                /\ h.abort = game[w].abort /\ h.listed
    BY <1>0, <1>4, WorkersGame
  <2>2. UNCHANGED owner
    BY <1>4 DEF CountGame
  <2> QED
    BY <1>1, <2>1, <2>2
<1>5. ASSUME NEW w \in Worker, EnterGame(w)
      PROVE  OwnerFits'
  <2>1. PICK h \in GameRecord : /\ Set(w, h) /\ h.search = game[w].search
                                /\ h.listed = game[w].listed
    BY <1>0, <1>5, VisitedGame
  <2>2. /\ game'[w] = h
        /\ \A v \in Worker : v # w => game'[v] = game[v]
    BY <1>0, <2>1, OneGame
  <2>3. /\ w \in owner.left /\ owner.in = {} /\ owner'.in = {w}
        /\ owner'.left = owner.left \ {w} /\ owner'.at = owner.at
        /\ owner'.sees = owner.sees
    BY <1>0, <1>5 DEF EnterGame, OwnerRecord
  <2>4. owner.at # "none"
    BY <2>3 DEF OwnerFits
  <2>5. owner'.in \cup owner'.left \subseteq {v \in Worker : game'[v].listed}
    BY <1>0, <2>1, <2>2, <2>3 DEF OwnerFits
  <2>6. \A v \in Worker : game'[v].abort /\ v \notin owner'.in => game'[v].search # "running"
    BY <2>2, <2>3 DEF OwnerFits
  <2>7. owner.at # "inside"
    BY <2>3 DEF OwnerFits
  <2> QED
    BY <2>3, <2>4, <2>5, <2>6, <2>7 DEF OwnerFits
<1>6. ASSUME NEW w \in Worker, AskForSearch(w)
      PROVE  OwnerFits'
  <2>1. /\ owner'.in = owner.in /\ owner'.left = owner.left /\ owner'.at = "inside"
        /\ owner'.sees = (game[w].search # "none") /\ w \in owner.in /\ UNCHANGED game
    BY <1>0, <1>6 DEF AskForSearch, OwnerRecord
  <2>2. \A v \in owner.in : v = w
    BY <2>1 DEF OwnerFits
  <2> QED
    BY <2>1, <2>2 DEF OwnerFits
<1>7. ASSUME NEW w \in Worker, AbortSearch(w)
      PROVE  OwnerFits'
  <2>1. PICK h \in GameRecord : /\ Set(w, h) /\ h.listed = game[w].listed
                                /\ h.search = "running" => game[w].search = "running"
                                /\ h.abort = game[w].abort
                                /\ owner.sees => h.search # "running"
    BY <1>0, <1>7, VisitedGame
  <2>2. /\ game'[w] = h
        /\ \A v \in Worker : v # w => game'[v] = game[v]
    BY <1>0, <2>1, OneGame
  <2>3. /\ owner'.in = {} /\ owner'.left = owner.left /\ owner'.at # "inside"
        /\ owner'.at = "none" => owner.left = {}
    BY <1>0, <1>7 DEF AbortSearch, OwnerRecord, NoAbort
  <2>4. w \in owner.in /\ owner.at = "inside" /\ \A v \in owner.in : v = w
    BY <1>7 DEF AbortSearch, OwnerFits
  <2>5. h.search # "running"
    BY <2>1, <2>4 DEF OwnerFits
  <2>6. owner'.in \cup owner'.left \subseteq {v \in Worker : game'[v].listed}
    BY <1>0, <2>1, <2>2, <2>3 DEF OwnerFits
  <2>7. \A v \in Worker : game'[v].abort /\ v \notin owner'.in => game'[v].search # "running"
    BY <2>2, <2>4, <2>5 DEF OwnerFits
  <2> QED
    BY <2>3, <2>6, <2>7 DEF OwnerFits
<1>8. ASSUME Finish \/ Stop
      PROVE  OwnerFits'
  BY <1>8 DEF Finish, Stop, OwnerFits
<1>9. ASSUME Abort
      PROVE  OwnerFits'
  <2>1. /\ owner'.at = "visiting" /\ owner'.in = {}
        /\ owner'.left = {w \in Worker : game[w].listed} /\ UNCHANGED game
    BY <1>9 DEF Abort, NoAbort
  <2>2. owner.in = {}
    BY <1>9 DEF Abort, TournamentFree, OwnerFits
  <2> QED
    BY <2>1, <2>2 DEF OwnerFits
<1> QED
  BY <1>2, <1>3, <1>4, <1>5, <1>6, <1>7, <1>8, <1>9
  DEF TournamentNext, WorkerStep, Playing

-----------------------------------------------------------------------------
\* The invariant holds at the start, and every step keeps it.
LEMMA TournamentAtStart == TournamentInit => TournamentIInv
<1> SUFFICES ASSUME TournamentInit
             PROVE  TournamentIInv
  OBVIOUS
<1>0. /\ game \in [Worker -> GameRecord]
      /\ \A w \in Worker : game[w] = NoGame
  BY NoGameTyped DEF TournamentInit
<1>1. TournamentTyped
  <2>1. owner \in OwnerRecord
    BY DEF TournamentInit, NoAbort, OwnerRecord
  <2>2. played \in SUBSET PlayedRecord /\ IsFiniteSet(played)
    BY FS_EmptySet DEF TournamentInit
  <2>3. score \in [0..2 -> [0..1 -> Nat]]
    BY DEF TournamentInit
  <2>4. taken \in Nat /\ taken <= TotalGames
    BY TournamentAssumption DEF TournamentInit
  <2>5. firstBlack \in BOOLEAN /\ abort \in BOOLEAN /\ saved \in BOOLEAN
    BY DEF TournamentInit
  <2> QED
    BY <1>0, <2>1, <2>2, <2>3, <2>4, <2>5 DEF TournamentTyped
<1>2. GamesFit
  BY <1>0, NoGameTyped DEF GamesFit, GameFits
<1>3. \A w \in Worker : ~OnIt(w)
  BY <1>0, NoGameTyped DEF OnIt
<1>4. NumbersFit
  BY <1>3 DEF NumbersFit, TournamentInit
<1>5. ColoursFit
  BY <1>3 DEF ColoursFit, TournamentInit
<1>6. ScoreFits
  <2>1. ASSUME NEW r \in 0..2, NEW c \in 0..1
        PROVE  score[r][c] = Cardinality({p \in played : CountsFor(p, r, c)})
    <3>1. {p \in played : CountsFor(p, r, c)} = {}
      BY DEF TournamentInit
    <3>2. score[r][c] = 0
      BY DEF TournamentInit
    <3> QED
      BY <3>1, <3>2, FS_EmptySet
  <2> QED
    BY <2>1 DEF ScoreFits
<1>7. LeavingFits
  BY <1>0, NoGameTyped DEF LeavingFits, TournamentInit
<1>8. OwnerFits
  BY <1>0, NoGameTyped DEF OwnerFits, TournamentInit, NoAbort
<1> QED
  BY <1>1, <1>2, <1>4, <1>5, <1>6, <1>7, <1>8 DEF TournamentIInv

LEMMA TournamentKeeps ==
  ASSUME TournamentIInv, [TournamentNext]_tournamentVars
  PROVE  TournamentIInv'
<1>1. CASE TournamentNext
  BY <1>1, TypedKeeps, GamesKeep, NumbersKeep, ColoursKeep, ScoreKeeps, LeavingKeeps,
     OwnerKeeps
  DEF TournamentIInv
<1>2. CASE UNCHANGED tournamentVars
  <2> USE <1>2 DEF tournamentVars, TournamentIInv
  <2>1. TournamentTyped' /\ GamesFit'
    BY DEF TournamentTyped, GamesFit, GameFits
  <2>2. NumbersFit' /\ ColoursFit'
    BY DEF NumbersFit, ColoursFit, OnIt, OpeningOf, PlaysBlack
  <2>3. ScoreFits' /\ LeavingFits' /\ OwnerFits'
    BY DEF ScoreFits, CountsFor, LeavingFits, OwnerFits
  <2> QED
    BY <2>1, <2>2, <2>3
<1> QED
  BY <1>1, <1>2

LEMMA TournamentInvariant == TournamentSpec => []TournamentIInv
<1>1. TournamentInit => TournamentIInv
  BY TournamentAtStart
<1>2. TournamentIInv /\ [TournamentNext]_tournamentVars => TournamentIInv'
  BY TournamentKeeps
<1> QED
  BY <1>1, <1>2, PTL DEF TournamentSpec

\* Two numbers below twice the openings that share opening and parity are one.
LEMMA MirroredPairs ==
  ASSUME NEW o \in Nat \ {0}, NEW m \in Nat, NEW n \in Nat, m < 2 * o, n < 2 * o,
         (m \div 2) % o = (n \div 2) % o, m % 2 = n % 2
  PROVE  m = n
<1>1. \A k \in Nat : k < 2 * o => k \div 2 \in Nat /\ k \div 2 < o
  OBVIOUS
<1>2. \A k \in Nat : k < o => k % o = k
  OBVIOUS
<1>3. m \div 2 = n \div 2
  BY <1>1, <1>2
<1>4. \A k \in Nat : k = 2 * (k \div 2) + (k % 2)
  OBVIOUS
<1> QED
  BY <1>3, <1>4

\* What the inductive invariant says of the books.
LEMMA TournamentBooks == TournamentIInv => TournamentInv
<1> SUFFICES ASSUME TournamentIInv
             PROVE  TournamentInv
  OBVIOUS
<1> USE DEF TournamentIInv
<1>1. TournamentTypeOK
  <2>1. taken \in 0..TotalGames /\ abort \in BOOLEAN /\ saved \in BOOLEAN
    BY TournamentAssumption DEF TournamentTyped
  <2>2. \A w \in Worker : game[w] \in GameRecord
    BY DEF TournamentTyped
  <2> QED
    BY <2>1, <2>2
    DEF TournamentTypeOK, GameRecord, Outcomes, GamesFit, GameFits, OwnerFits
<1>2. ScoreIsTrue
  <2>1. \A p, q \in played : p.id = q.id => p = q
    BY DEF NumbersFit
  <2> QED
    BY <2>1 DEF ScoreIsTrue, ScoreFits, CountsFor
<1>3. saved => /\ {p.id : p \in played} = 0..(TotalGames - 1)
               /\ \A w \in Worker : ~game[w].listed
  <2> SUFFICES ASSUME saved
               PROVE  /\ {p.id : p \in played} = 0..(TotalGames - 1)
                      /\ \A w \in Worker : ~game[w].listed
    OBVIOUS
  <2>1. taken = TotalGames /\ \A w \in Worker : game[w].at = "gone" /\ ~OnIt(w)
    BY DEF LeavingFits, OnIt
  <2>2. \A p \in played : p.id \in Nat /\ p.id < taken
    BY DEF NumbersFit, TournamentTyped, PlayedRecord
  <2>3. \A n \in Nat : n < taken => \E p \in played : p.id = n
    BY <2>1 DEF NumbersFit
  <2>4. \A n : n \in 0..(TotalGames - 1) <=> n \in Nat /\ n < taken
    BY <2>1, TournamentAssumption
  <2> QED
    BY <2>1, <2>2, <2>3, <2>4 DEF GamesFit, GameFits
<1>4. ASSUME Mirrored, TotalGames <= 2 * Openings, NEW p \in played, NEW q \in played,
             p.opening = q.opening, p.black = q.black
      PROVE  p.id = q.id
  <2>1. p.id \in Nat /\ q.id \in Nat /\ p.id < taken /\ q.id < taken
    BY DEF NumbersFit, TournamentTyped, PlayedRecord
  <2>2. p.id < 2 * Openings /\ q.id < 2 * Openings
    BY <1>4, <2>1, TournamentAssumption DEF TournamentTyped
  <2>3. (p.id \div 2) % Openings = (q.id \div 2) % Openings
    BY <1>4 DEF ColoursFit, OpeningOf
  <2>4. PlaysBlack(p.id) <=> PlaysBlack(q.id)
    BY <1>4 DEF ColoursFit
  <2>5. p.id % 2 = 1 <=> q.id % 2 = 1
    BY <2>4 DEF PlaysBlack, TournamentTyped
  <2>6. p.id % 2 = q.id % 2
    BY <2>1, <2>5
  <2> QED
    BY <2>1, <2>2, <2>3, <2>6, MirroredPairs, TournamentAssumption
<1>5. AbortedGamesRest
  BY DEF AbortedGamesRest, OwnerFits, GameFree
<1> QED
  BY <1>1, <1>2, <1>3, <1>4, <1>5 DEF TournamentInv, FinishedIsFair

\* The books of a tournament are true, for any number of workers and games: every
\* number that is taken becomes one game, which is counted once, with the opening
\* and the colours of its number; a finished tournament has played them all, in fair
\* pairs; and a game that Abort has visited does not search on.
THEOREM BooksAreTrue == TournamentSpec => []TournamentInv
<1>1. TournamentIInv => TournamentInv
  BY TournamentBooks
<1> QED
  BY <1>1, TournamentInvariant, PTL

\* The trees of a game move on while it has no search, and stay level.
THEOREM NoSearchWhileMoving == TournamentSpec => NoSearchInAMovingTree
<1> DEFINE Moved(w) ==
      game'[w].head # game[w].head /\ game'[w].listed =>
        /\ game[w].search = "none"
        /\ ~ShareTree => game'[w].head[1] = game'[w].head[2]
<1>1. ASSUME TournamentIInv, TournamentIInv', TournamentNext
      PROVE  \A w \in Worker : Moved(w)
  <2>0. /\ game \in [Worker -> GameRecord] /\ taken \in Nat /\ owner \in OwnerRecord
        /\ \A w \in Worker : GameFits(game[w]) /\ GameFits(game[w])'
    BY <1>1 DEF TournamentIInv, TournamentTyped, GamesFit
  <2>1. \A w \in Worker : ~ShareTree => game'[w].head[1] = game'[w].head[2]
    BY <2>0 DEF GameFits
  <2>2. ASSUME NEW w \in Worker, NEW h, Set(w, h),
               h.head = game[w].head \/ ~h.listed \/ game[w].search = "none"
        PROVE  \A v \in Worker : Moved(v)
    BY <2>0, <2>1, <2>2 DEF Set
  <2>3. ASSUME UNCHANGED game
        PROVE  \A v \in Worker : Moved(v)
    BY <2>3
  <2> HIDE DEF Moved
  <2>4. ASSUME NEW w \in Worker, WorkerStep(w)
        PROVE  \A v \in Worker : Moved(v)
    <3>0. game[w] \in GameRecord /\ GameFits(game[w])
      BY <2>0
    <3>1. CASE game[w].search = "none"
      <4>1. \E h : Set(w, h)
        BY <2>4
        DEF WorkerStep, TakeGame, SetUp, Register, CheckGame, CreateSearch, SearchEnds,
            AfterSearch, ResetSearch, MakeMove, CountGame, EraseGame, GameStep
      <4> QED
        BY <2>2, <3>1, <4>1
    <3>2. CASE game[w].search # "none"
      <4>1. game[w].at \in {"search", "reset", "over", "counted"}
        BY <3>0, <3>2 DEF GameFits
      <4>2. CASE SearchEnds(w)
        BY <2>2, <3>0, <4>2 DEF SearchEnds, GameStep, GameRecord
      <4>3. CASE AfterSearch(w)
        BY <2>2, <3>0, <4>3 DEF AfterSearch, GameStep, GameRecord
      <4>4. CASE ResetSearch(w)
        BY <2>2, <3>0, <4>4 DEF ResetSearch, GameStep, GameRecord
      <4>5. CASE CountGame(w)
        BY <2>2, <3>0, <4>5 DEF CountGame, GameRecord
      <4>6. CASE EraseGame(w)
        BY <2>2, <4>6, NoGameTyped DEF EraseGame
      <4> QED
        BY <2>4, <4>1, <4>2, <4>3, <4>4, <4>5, <4>6
        DEF WorkerStep, TakeGame, SetUp, Register, CheckGame, CreateSearch, MakeMove
    <3> QED
      BY <3>1, <3>2
  <2>5. ASSUME NEW w \in Worker, EnterGame(w)
        PROVE  \A v \in Worker : Moved(v)
    <3>1. game[w] \in GameRecord
      BY <2>0
    <3> QED
      BY <2>2, <2>5, <3>1 DEF EnterGame, GameRecord
  <2>6. ASSUME NEW w \in Worker, AbortSearch(w)
        PROVE  \A v \in Worker : Moved(v)
    <3>1. game[w] \in GameRecord
      BY <2>0
    <3> QED
      BY <2>2, <2>6, <3>1 DEF AbortSearch, GameRecord
  <2>7. ASSUME (\E w \in Worker : AskForSearch(w)) \/ Finish \/ Stop \/ Abort
        PROVE  \A v \in Worker : Moved(v)
    BY <2>3, <2>7 DEF AskForSearch, Finish, Stop, Abort
  <2> QED
    BY <1>1, <2>4, <2>5, <2>6, <2>7 DEF TournamentNext
<1>2. TournamentIInv /\ TournamentIInv' /\ [TournamentNext]_tournamentVars =>
        [\A w \in Worker : Moved(w)]_tournamentVars
  BY <1>1
<1> QED
  BY <1>2, TournamentInvariant, PTL DEF TournamentSpec, NoSearchInAMovingTree

-----------------------------------------------------------------------------
(* MultiGames.                                                             *)

\* The most inputs one game adds to a batch.
MostInputs == IF UseValue THEN MovesPerGame ELSE 1

Typed ==
  /\ tree \in [Game -> 0..(LongestGame + 1)]
  /\ outcome \in [Game -> {"undecided", "decided"}]
  /\ at \in {"top", "results", "gather", "move", "over"} /\ cursor \in Game
  /\ allDone \in BOOLEAN /\ blacksMove \in BOOLEAN
  /\ inputs \in Nat /\ gathered \in Seq(Game \X Nat) /\ rounds \in 0..2
  /\ at = "top" => cursor = 1

\* A game that its round has looked at, and found undecided, may still move.
Checked(i) == \/ at = "results" /\ i < cursor
              \/ at = "gather"
              \/ at = "move" /\ i >= cursor
MayMove == \A i \in Game :
  outcome[i] = "undecided" /\ Checked(i) => tree[i] < LongestGame

\* The games whose evaluations the queue holds.
Waiting(i) == /\ TakesPart(i)
              /\ \/ at = "gather" /\ i < cursor
                 \/ at = "move" /\ i >= cursor
QueueIsWaiting ==
  /\ \A a \in 1..Len(gathered) :
       Waiting(gathered[a][1]) /\ gathered[a] = <<gathered[a][1], tree[gathered[a][1]]>>
  /\ \A i \in Game : Waiting(i) => \E a \in 1..Len(gathered) : gathered[a] = <<i, tree[i]>>
  /\ \A a, b \in 1..Len(gathered) : a < b => gathered[a][1] < gathered[b][1]

\* The first game that was found undecided says whose move it is.
FirstSays(c) == \E i \in Game : i < c /\ outcome[i] = "undecided"
                                     /\ (BlackToMove(i) <=> blacksMove)

\* In a round the games that have moved have the other side to move; after it all
\* have the same side, and the next round takes all of them.
Steps ==
  /\ at = "results" /\ ~allDone => FirstSays(cursor)
  /\ at = "gather" /\ rounds # 0 =>
       \A i \in Game : outcome[i] = "undecided" => (BlackToMove(i) <=> blacksMove)
  /\ at = "move" =>
       \A i \in Game : outcome[i] = "undecided" /\ i < cursor =>
         BlackToMove(i) # blacksMove
  /\ at \in {"top", "results"} /\ rounds # 0 =>
       \A i, j \in Game : outcome[i] = "undecided" /\ outcome[j] = "undecided" =>
         BlackToMove(i) = BlackToMove(j)

\* The inputs so far, of the games that were gathered.
Filling ==
  /\ at = "results" /\ cursor > 1 => inputs = 0
  /\ at = "gather" => inputs <= (cursor - 1) * MostInputs
  /\ inputs <= Games * MostInputs

IInv == Typed /\ MayMove /\ QueueIsWaiting /\ Steps /\ Filling

-----------------------------------------------------------------------------
\* A move gives the move to the other side.
LEMMA OtherSide == \A n \in Nat : (n + 1) % 2 = 1 <=> ~(n % 2 = 1)
  OBVIOUS

\* What a queue with one more evaluation at its end holds.
LEMMA AppendIsLast ==
  ASSUME NEW S, NEW s \in Seq(S), NEW x \in S
  PROVE  /\ Append(s, x) \in Seq(S) /\ Len(Append(s, x)) = Len(s) + 1
         /\ \A a \in 1..Len(s) : Append(s, x)[a] = s[a]
         /\ Append(s, x)[Len(s) + 1] = x
  OBVIOUS

\* What a queue holds when its front is taken away.
LEMMA TailIsRest ==
  ASSUME NEW S, NEW s \in Seq(S), s # << >>
  PROVE  /\ Tail(s) \in Seq(S) /\ Len(s) \in Nat \ {0} /\ Len(Tail(s)) = Len(s) - 1
         /\ \A a \in 1..Len(Tail(s)) : a + 1 \in 1..Len(s) /\ Tail(s)[a] = s[a + 1]
         /\ Head(s) = s[1]
  OBVIOUS

\* One more game adds at most its inputs.
LEMMA OneMoreGame ==
  /\ MostInputs \in Nat
  /\ \A c \in Nat : c * MostInputs \in Nat
  /\ \A c \in Nat \ {0} : (c - 1) * MostInputs + MostInputs = c * MostInputs
  /\ \A c \in Nat : c <= Games => c * MostInputs <= Games * MostInputs
  /\ \A n \in InputsOf : n \in Nat /\ n <= MostInputs
<1>1. MostInputs \in Nat
  BY MultiGamesAssumption DEF MostInputs
<1>2. \A n \in InputsOf : n \in Nat /\ n <= MostInputs
  BY MultiGamesAssumption DEF MostInputs, InputsOf
<1>3. \A m, c \in Nat : c * m \in Nat
  OBVIOUS
<1>4. \A m \in Nat : \A c \in Nat \ {0} : (c - 1) * m + m = c * m
  OBVIOUS
<1>5. \A m, c, g \in Nat : c <= g => c * m <= g * m
  OBVIOUS
<1> QED
  BY <1>1, <1>2, <1>3, <1>4, <1>5, MultiGamesAssumption

-----------------------------------------------------------------------------
LEMMA InvariantAtStart == MultiInit => IInv
<1> SUFFICES ASSUME MultiInit
             PROVE  IInv
  OBVIOUS
<1> USE MultiGamesAssumption DEF MultiInit
<1>1. Typed
  <2>1. tree \in [Game -> 0..(LongestGame + 1)]
    <3>1. \A n \in 0..1 : n \in 0..(LongestGame + 1)
      OBVIOUS
    <3>2. tree \in [Game -> 0..1]
      OBVIOUS
    <3> QED
      BY <3>1, <3>2
  <2>2. cursor \in Game /\ outcome \in [Game -> {"undecided", "decided"}]
    BY DEF Game
  <2>3. gathered \in Seq(Game \X Nat) /\ inputs \in Nat /\ rounds \in 0..2
    OBVIOUS
  <2>4. at \in {"top", "results", "gather", "move", "over"} /\ cursor = 1
    OBVIOUS
  <2>5. allDone \in BOOLEAN /\ blacksMove \in BOOLEAN
    BY Zenon
  <2> QED
    BY <2>1, <2>2, <2>3, <2>4, <2>5 DEF Typed
<1>2. MayMove /\ QueueIsWaiting /\ Steps
  BY DEF MayMove, QueueIsWaiting, Steps, Waiting, Checked
<1>3. Filling
  BY OneMoreGame DEF Filling
<1> QED
  BY <1>1, <1>2, <1>3 DEF IInv

\* Nothing but the flag changes at the top of a round.
LEMMA StartRoundKeeps == IInv /\ StartRound => IInv'
<1> SUFFICES ASSUME IInv, StartRound
             PROVE  IInv'
  OBVIOUS
<1> USE MultiGamesAssumption DEF IInv, StartRound
<1>1. Typed'
  BY DEF Typed
<1>2. MayMove'
  BY DEF MayMove, Checked, Typed, Game
<1>3. QueueIsWaiting'
  BY DEF QueueIsWaiting, Waiting, TakesPart, BlackToMove, Typed
<1>4. Steps'
  BY DEF Steps, BlackToMove
<1>5. Filling'
  BY DEF Filling, Typed
<1> QED
  BY <1>1, <1>2, <1>3, <1>4, <1>5

\* The games that are looked at can only drop out.
LEMMA CheckResultKeeps == IInv /\ CheckResult => IInv'
<1> SUFFICES ASSUME IInv, CheckResult
             PROVE  IInv'
  OBVIOUS
<1> USE MultiGamesAssumption DEF IInv
<1>1. PICK decided \in BOOLEAN :
        /\ outcome[cursor] # "undecided" => decided
        /\ outcome[cursor] = "undecided" /\ tree[cursor] >= LongestGame => decided
        /\ outcome' = [outcome EXCEPT ![cursor] = IF decided THEN "decided" ELSE @]
        /\ allDone' = (allDone /\ decided)
        /\ blacksMove' = IF ~decided /\ allDone THEN BlackToMove(cursor) ELSE blacksMove
        /\ NextGame(IF allDone /\ decided THEN "over" ELSE "gather")
        /\ inputs' = InputsAfterReset
  BY DEF CheckResult
<1>2. /\ at = "results" /\ cursor \in Game /\ tree \in [Game -> 0..(LongestGame + 1)]
      /\ tree' = tree /\ gathered' = gathered /\ rounds' = rounds
      /\ inputs' = 0
  BY <1>1 DEF CheckResult, Typed, InputsAfterReset
<1>3. \/ cursor < Games /\ cursor' = cursor + 1 /\ at' = "results"
      \/ cursor = Games /\ cursor' = 1 /\ at' \in {"over", "gather"}
  BY <1>1, <1>2 DEF NextGame, Game
<1>4. \A i \in Game : /\ outcome'[i] \in {"undecided", "decided"}
                      /\ outcome'[i] = "undecided" => outcome[i] = "undecided"
                      /\ outcome'[i] = "undecided" /\ i = cursor => tree[i] < LongestGame
  BY <1>1, <1>2 DEF Typed, Game
<1>5. Typed'
  <2>1. outcome' \in [Game -> {"undecided", "decided"}]
    BY <1>1, <1>2 DEF Typed
  <2>2. cursor' \in Game /\ at' \in {"results", "over", "gather"}
    BY <1>2, <1>3 DEF Game
  <2>3. allDone' \in BOOLEAN /\ blacksMove' \in BOOLEAN
    BY <1>1 DEF Typed, BlackToMove
  <2> QED
    BY <1>2, <2>1, <2>2, <2>3 DEF Typed
<1>6. MayMove'
  BY <1>2, <1>3, <1>4 DEF MayMove, Checked, Game
<1>7. QueueIsWaiting'
  <2>1. Len(gathered) = 0
    <3>1. ~\E a \in 1..Len(gathered) : TRUE
      BY <1>2 DEF QueueIsWaiting, Waiting
    <3>2. Len(gathered) \in Nat
      BY DEF Typed
    <3> QED
      BY <3>1, <3>2
  <2>2. \A i \in Game : ~Waiting(i)'
    BY <1>2, <1>3 DEF Waiting, Game
  <2> QED
    BY <1>2, <2>1, <2>2 DEF QueueIsWaiting
<1>8. Steps'
  <2>1. \A i \in Game : BlackToMove(i)' <=> BlackToMove(i)
    BY <1>2 DEF BlackToMove
  <2>2. ASSUME ~allDone'
        PROVE  \E i \in Game : i <= cursor /\ outcome'[i] = "undecided"
                               /\ (BlackToMove(i)' <=> blacksMove')
    <3>1. CASE allDone
      <4>1. ~decided
        BY <1>1, <2>2, <3>1
      <4>2. outcome'[cursor] = "undecided" /\ (blacksMove' <=> BlackToMove(cursor))
        BY <1>1, <1>2, <3>1, <4>1 DEF Typed
      <4>. QED
        BY <1>2, <2>1, <4>2 DEF Game
    <3>2. CASE ~allDone
      <4>1. PICK i \in Game : i < cursor /\ outcome[i] = "undecided"
                              /\ (BlackToMove(i) <=> blacksMove)
        BY <1>2, <3>2 DEF Steps, FirstSays
      <4>2. outcome'[i] = "undecided" /\ blacksMove' = blacksMove
        BY <1>1, <1>2, <3>2, <4>1 DEF Typed, Game
      <4>. QED
        BY <1>2, <2>1, <4>1, <4>2 DEF Game
    <3>. QED
      BY <3>1, <3>2
  <2>3. rounds # 0 =>
          \A i, j \in Game : outcome'[i] = "undecided" /\ outcome'[j] = "undecided" =>
            (BlackToMove(i)' <=> BlackToMove(j)')
    BY <1>2, <1>4, <2>1 DEF Steps
  <2>4. CASE at' = "results"
    <3>1. \A i \in Game : i <= cursor => i < cursor'
      BY <1>2, <1>3, <2>4 DEF Game
    <3>2. ~allDone' => FirstSays(cursor)'
      BY <2>2, <3>1 DEF FirstSays
    <3>3. rounds' # 0 =>
            \A i, j \in Game : outcome'[i] = "undecided" /\ outcome'[j] = "undecided" =>
              (BlackToMove(i)' = BlackToMove(j)')
      BY <1>2, <2>3 DEF BlackToMove
    <3>. QED
      BY <2>4, <3>2, <3>3 DEF Steps
  <2>5. CASE at' = "gather"
    <3>1. ~allDone'
      BY <1>1, <1>2, <2>5 DEF NextGame
    <3>2. rounds' # 0 =>
            \A i \in Game : outcome'[i] = "undecided" => (BlackToMove(i)' <=> blacksMove')
      BY <1>2, <2>2, <2>3, <3>1
    <3>. QED
      BY <2>5, <3>2 DEF Steps
  <2>6. CASE at' = "over"
    BY <2>6 DEF Steps
  <2>. QED
    BY <1>3, <2>4, <2>5, <2>6
<1>9. Filling'
  BY <1>2, <1>3, OneMoreGame DEF Filling, Game
<1> QED
  BY <1>5, <1>6, <1>7, <1>8, <1>9
\* A game that takes part queues up behind those before it.
LEMMA GatherKeeps == IInv /\ Gather => IInv'
<1> SUFFICES ASSUME IInv, Gather
             PROVE  IInv'
  OBVIOUS
<1> USE MultiGamesAssumption DEF IInv
<1>1. /\ at = "gather" /\ cursor \in Game /\ tree' = tree /\ outcome' = outcome
      /\ tree \in [Game -> 0..(LongestGame + 1)]
      /\ blacksMove' = blacksMove /\ rounds' = rounds /\ allDone' = allDone
      /\ gathered \in Seq(Game \X Nat) /\ inputs \in Nat
  BY DEF Gather, Typed
<1>2. \/ cursor < Games /\ cursor' = cursor + 1 /\ at' = "gather"
      \/ cursor = Games /\ cursor' = 1 /\ at' = "move"
  BY <1>1 DEF Gather, NextGame, Game
<1>3. <<cursor, tree[cursor]>> \in Game \X Nat
  BY <1>1 DEF Game
<1>4. \A i \in Game : TakesPart(i)' <=> TakesPart(i)
  BY <1>1 DEF TakesPart, BlackToMove
<1>5. \A i \in Game : Waiting(i)' <=> Waiting(i) \/ (i = cursor /\ TakesPart(i))
  BY <1>1, <1>2, <1>4 DEF Waiting, Game
<1>6. inputs' \in Nat /\ inputs' <= inputs + MostInputs
  BY <1>1, OneMoreGame DEF Gather
<1>7. gathered' \in Seq(Game \X Nat)
  <2>1. Append(gathered, <<cursor, tree[cursor]>>) \in Seq(Game \X Nat)
    BY <1>1, <1>3, AppendIsLast
  <2> QED
    BY <1>1, <2>1 DEF Gather
<1>8. Typed'
  BY <1>1, <1>2, <1>6, <1>7 DEF Typed, Game
<1>9. MayMove'
  BY <1>1, <1>2 DEF MayMove, Checked, Game
<1>10. QueueIsWaiting'
  <2>1. CASE ~TakesPart(cursor)
    <3>1. gathered' = gathered
      BY <2>1 DEF Gather
    <3>2. \A i \in Game : Waiting(i)' <=> Waiting(i)
      BY <1>5, <2>1
    <3>3. \A a \in 1..Len(gathered) : gathered[a][1] \in Game
      BY <1>1
    <3> QED
      BY <1>1, <3>1, <3>2, <3>3 DEF QueueIsWaiting
  <2>2. CASE TakesPart(cursor)
    <3> DEFINE n == Len(gathered)
    <3>1. gathered' = Append(gathered, <<cursor, tree[cursor]>>)
      BY <2>2 DEF Gather
    <3>2. /\ n \in Nat /\ Len(gathered') = n + 1
          /\ \A a \in 1..n : gathered'[a] = gathered[a] /\ gathered[a][1] \in Game
          /\ gathered'[n + 1] = <<cursor, tree[cursor]>>
      BY <1>1, <1>3, <3>1, AppendIsLast
    <3> HIDE DEF n
    <3>3. \A a \in 1..n : gathered[a][1] < cursor
      BY <1>1, <3>2 DEF QueueIsWaiting, Waiting, n
    <3>4. \A a \in 1..(n + 1) : a \in 1..n \/ a = n + 1
      BY <3>2
    <3>5. \A a \in 1..(n + 1) : /\ Waiting(gathered[a][1])'
                                /\ gathered'[a] = <<gathered'[a][1], tree'[gathered'[a][1]]>>
      BY <1>1, <1>5, <2>2, <3>2, <3>4, SMTT(30) DEF QueueIsWaiting, n
    <3>6. \A i \in Game : Waiting(i)' =>
            \E a \in 1..(n + 1) : gathered'[a] = <<i, tree'[i]>>
      <4> TAKE i \in Game
      <4> HAVE Waiting(i)'
      <4>1. CASE i = cursor
        <5>1. n + 1 \in 1..(n + 1) /\ gathered'[n + 1] = <<i, tree'[i]>>
          BY <1>1, <3>2, <4>1
        <5> QED
          BY <5>1
      <4>2. CASE i # cursor
        <5>1. PICK a \in 1..n : gathered[a] = <<i, tree[i]>>
          BY <1>5, <4>2 DEF QueueIsWaiting, n
        <5>2. a \in 1..(n + 1) /\ gathered'[a] = <<i, tree'[i]>>
          BY <1>1, <3>2, <5>1
        <5> QED
          BY <5>2
      <4> QED
        BY <4>1, <4>2
    <3>7. \A a, b \in 1..(n + 1) : a < b => gathered'[a][1] < gathered'[b][1]
      <4> TAKE a, b \in 1..(n + 1)
      <4> HAVE a < b
      <4>1. a \in 1..n
        BY <3>2
      <4>2. CASE b \in 1..n
        BY <3>2, <4>1, <4>2 DEF QueueIsWaiting, n
      <4>3. CASE b = n + 1
        BY <3>2, <3>3, <4>1, <4>3
      <4> QED
        BY <3>4, <4>2, <4>3
    <3> QED
      BY <3>2, <3>5, <3>6, <3>7 DEF QueueIsWaiting
  <2> QED
    BY <2>1, <2>2
<1>11. Steps'
  <2>1. \A i \in Game : BlackToMove(i)' <=> BlackToMove(i)
    BY <1>1 DEF BlackToMove
  <2> HIDE DEF Gather
  <2>2. CASE at' = "gather"
    <3>1. rounds' # 0 => \A i \in Game : outcome'[i] = "undecided"
                                            => (BlackToMove(i)' <=> blacksMove')
      BY <1>1, <2>1 DEF Steps
    <3> QED
      BY <2>2, <3>1 DEF Steps
  <2>3. CASE at' = "move"
    <3>1. \A i \in Game : ~(i < cursor')
      BY <1>2, <2>3 DEF Game
    <3> QED
      BY <2>3, <3>1 DEF Steps
  <2> QED
    BY <1>2, <2>2, <2>3
<1>12. Filling'
  <2>1. inputs' <= cursor * MostInputs
    <3>1. (cursor - 1) * MostInputs + MostInputs = cursor * MostInputs
      BY <1>1, OneMoreGame DEF Game
    <3>2. cursor - 1 \in Nat /\ (cursor - 1) * MostInputs \in Nat /\ MostInputs \in Nat
      BY <1>1, OneMoreGame DEF Game
    <3> HIDE DEF Gather
    <3>3. inputs <= (cursor - 1) * MostInputs
      BY <1>1 DEF Filling
    <3> QED
      BY <1>1, <1>6, <3>1, <3>2, <3>3
  <2>2. cursor * MostInputs <= Games * MostInputs /\ cursor * MostInputs \in Nat
    BY <1>1, OneMoreGame DEF Game
  <2>3. inputs' <= Games * MostInputs
    <3>1. Games * MostInputs \in Nat
      BY OneMoreGame
    <3> HIDE DEF Gather
    <3> QED
      BY <1>6, <2>1, <2>2, <3>1
  <2>4. CASE cursor < Games
    <3>1. cursor' - 1 = cursor
      BY <1>1, <1>2, <2>4 DEF Game
    <3> QED
      BY <1>1, <1>2, <2>1, <2>3, <2>4, <3>1 DEF Filling
  <2>5. CASE cursor = Games
    BY <1>1, <1>2, <2>3, <2>5 DEF Filling
  <2> QED
    BY <1>2, <2>4, <2>5
<1> QED
  BY <1>8, <1>9, <1>10, <1>11, <1>12

\* The front of the queue is for the next game that takes part.
LEMMA FrontIsForCursor ==
  ASSUME IInv, at = "move", TakesPart(cursor)
  PROVE  gathered # << >> /\ Front = <<cursor, tree[cursor]>>
<1> USE DEF IInv
<1>1. cursor \in Game /\ gathered \in Seq(Game \X Nat) /\ Len(gathered) \in Nat
  BY DEF Typed
<1>2. PICK a \in 1..Len(gathered) : gathered[a] = <<cursor, tree[cursor]>>
  BY <1>1, SMTT(30) DEF QueueIsWaiting, Waiting, Game
<1>3. 1 \in 1..Len(gathered)
  BY <1>1, <1>2
<1>4. gathered[1][1] >= cursor /\ gathered[1] = <<gathered[1][1], tree[gathered[1][1]]>>
  BY <1>3 DEF QueueIsWaiting, Waiting
<1>5. a = 1
  <2>1. a > 1 => gathered[1][1] < cursor
    BY <1>1, <1>2, <1>3 DEF QueueIsWaiting
  <2>2. gathered[1][1] \in Nat /\ cursor \in Nat
    BY <1>1, <1>3 DEF Game
  <2> QED
    BY <1>1, <1>2, <1>4, <2>1, <2>2
<1> QED
  BY <1>1, <1>2, <1>3, <1>5 DEF Front

\* The game at the front moves by it, and is not waiting any more.
LEMMA MakeBestMoveKeeps == IInv /\ MakeBestMove => IInv'
<1> SUFFICES ASSUME IInv, MakeBestMove
             PROVE  IInv'
  OBVIOUS
<1> USE MultiGamesAssumption DEF IInv
<1>1. /\ at = "move" /\ cursor \in Game /\ outcome' = outcome
      /\ tree \in [Game -> 0..(LongestGame + 1)]
      /\ blacksMove' = blacksMove /\ allDone' = allDone /\ inputs' = inputs
      /\ gathered \in Seq(Game \X Nat) /\ rounds \in 0..2
  BY DEF MakeBestMove, Typed
<1>2. \/ cursor < Games /\ cursor' = cursor + 1 /\ at' = "move"
      \/ cursor = Games /\ cursor' = 1 /\ at' = "top"
  BY <1>1 DEF MakeBestMove, NextGame, Game
<1>3. rounds' \in 0..2 /\ (cursor < Games => rounds' = rounds)
  BY <1>1 DEF MakeBestMove
<1>4. TakesPart(cursor) => tree[cursor] < LongestGame
  BY <1>1 DEF MayMove, Checked, TakesPart, Game
<1>5. /\ tree' \in [Game -> 0..(LongestGame + 1)]
      /\ \A i \in Game : i # cursor => tree'[i] = tree[i]
      /\ TakesPart(cursor) => tree'[cursor] = tree[cursor] + 1
      /\ ~TakesPart(cursor) => tree'[cursor] = tree[cursor]
  BY <1>1, <1>4, SMTT(30) DEF MakeBestMove
<1>6. /\ \A i \in Game : i # cursor => BlackToMove(i)' <=> BlackToMove(i)
      /\ \A i \in Game : i = cursor =>
           (BlackToMove(i)' <=> IF TakesPart(i) THEN ~BlackToMove(i) ELSE BlackToMove(i))
  <2>1. tree[cursor] \in Nat
    BY <1>1
  <2>2. TakesPart(cursor) => ((tree[cursor] + 1) % 2 = 1 <=> ~(tree[cursor] % 2 = 1))
    BY <2>1, OtherSide
  <2> QED
    BY <1>1, <1>5, <2>2 DEF BlackToMove
<1>7. \A i \in Game : Waiting(i)' <=> Waiting(i) /\ i # cursor
  <2>1. \A i \in Game : i # cursor => TakesPart(i)' <=> TakesPart(i)
    BY <1>1, <1>5 DEF TakesPart, BlackToMove
  <2>2. \A i \in Game : i # cursor => Waiting(i)' <=> Waiting(i)
    BY <1>1, <1>2, <2>1 DEF Waiting, Game
  <2>3. \A i \in Game : i = cursor => ~Waiting(i)'
    BY <1>1, <1>2 DEF Waiting, Game
  <2> QED
    BY <2>2, <2>3
<1>8. ASSUME TakesPart(cursor)
      PROVE  gathered' \in Seq(Game \X Nat) /\ QueueIsWaiting'
  <2>1. gathered # << >> /\ gathered[1] = <<cursor, tree[cursor]>>
    BY <1>1, <1>8, FrontIsForCursor DEF Front
  <2>2. gathered' = Tail(gathered)
    BY <1>8 DEF MakeBestMove, Popped
  <2> DEFINE n == Len(gathered')
  <2>3. /\ gathered' \in Seq(Game \X Nat) /\ n \in Nat
        /\ Len(gathered) = n + 1
        /\ \A a \in 1..n : /\ gathered'[a] = gathered[a + 1] /\ a + 1 \in 1..(n + 1)
                           /\ gathered[a + 1][1] \in Game
    BY <1>1, <2>1, <2>2, TailIsRest, SMTT(30)
  <2> HIDE DEF n
  <2>4. \A a \in 1..n : gathered[a + 1][1] > cursor
    <3> TAKE a \in 1..n
    <3>1. 1 \in 1..Len(gathered) /\ a + 1 \in 1..Len(gathered) /\ 1 < a + 1
      BY <2>3
    <3>2. gathered[1][1] < gathered[a + 1][1]
      BY <3>1 DEF QueueIsWaiting
    <3> QED
      BY <1>1, <2>1, <2>3, <3>2 DEF Game
  <2>5. QueueIsWaiting'
    <3>1. \A a \in 1..n : /\ Waiting(gathered[a][1])'
                          /\ gathered'[a] = <<gathered'[a][1], tree'[gathered'[a][1]]>>
      <4> TAKE a \in 1..n
      <4>1. a + 1 \in 1..Len(gathered) /\ gathered[a + 1][1] \in Game
        BY <2>3
      <4>2. gathered[a + 1][1] # cursor
        BY <1>1, <2>3, <2>4, SMTT(30) DEF Game
      <4>3. /\ Waiting(gathered[a + 1][1])
            /\ gathered[a + 1] = <<gathered[a + 1][1], tree[gathered[a + 1][1]]>>
        BY <4>1 DEF QueueIsWaiting
      <4> QED
        BY <1>5, <1>7, <2>3, <4>1, <4>2, <4>3
    <3>2. \A i \in Game : Waiting(i)' => \E a \in 1..n : gathered'[a] = <<i, tree'[i]>>
      <4> TAKE i \in Game
      <4> HAVE Waiting(i)'
      <4>1. Waiting(i) /\ i # cursor
        BY <1>7
      <4>2. PICK a \in 1..(n + 1) : gathered[a] = <<i, tree[i]>>
        BY <2>3, <4>1 DEF QueueIsWaiting
      <4>3. a # 1
        BY <2>1, <4>1, <4>2
      <4>4. a - 1 \in 1..n /\ (a - 1) + 1 = a
        BY <2>3, <4>2, <4>3
      <4>5. gathered'[a - 1] = <<i, tree'[i]>>
        BY <1>5, <2>3, <4>1, <4>2, <4>4
      <4> QED
        BY <4>4, <4>5
    <3>3. \A a, b \in 1..n : a < b => gathered'[a][1] < gathered'[b][1]
      <4> TAKE a, b \in 1..n
      <4>1. a < b => a + 1 < b + 1
        BY <2>3
      <4>2. a + 1 \in 1..Len(gathered) /\ b + 1 \in 1..Len(gathered)
        BY <2>3
      <4>3. a < b => gathered[a + 1][1] < gathered[b + 1][1]
        BY <4>1, <4>2 DEF QueueIsWaiting
      <4> QED
        BY <2>3, <4>3
    <3> QED
      BY <3>1, <3>2, <3>3 DEF QueueIsWaiting, n
  <2> QED
    BY <2>3, <2>5
<1>9. ASSUME ~TakesPart(cursor)
      PROVE  gathered' \in Seq(Game \X Nat) /\ QueueIsWaiting'
  <2>1. gathered' = gathered /\ \A i \in Game : tree'[i] = tree[i]
    BY <1>5, <1>9 DEF MakeBestMove
  <2>2. \A i \in Game : Waiting(i)' <=> Waiting(i)
    BY <1>7, <1>9 DEF Waiting
  <2>3. \A a \in 1..Len(gathered) : gathered[a][1] \in Game
    BY <1>1
  <2> QED
    BY <1>1, <2>1, <2>2, <2>3 DEF QueueIsWaiting
<1>10. gathered' \in Seq(Game \X Nat) /\ QueueIsWaiting'
  BY <1>8, <1>9
<1>11. Typed'
  BY <1>1, <1>2, <1>3, <1>5, <1>10 DEF Typed, Game
<1>12. MayMove'
  BY <1>1, <1>2, <1>5, SMTT(30) DEF MayMove, Checked, Game
<1>13. Steps'
  <2>1. \A i \in Game : outcome[i] = "undecided" /\ i <= cursor =>
          (BlackToMove(i)' <=> ~blacksMove)
    <3> TAKE i \in Game
    <3> HAVE outcome[i] = "undecided" /\ i <= cursor
    <3>1. blacksMove \in BOOLEAN /\ BlackToMove(i) \in BOOLEAN
      BY DEF Typed, BlackToMove
    <3>2. CASE i < cursor
      <4>1. BlackToMove(i) # blacksMove
        BY <1>1, <3>2 DEF Steps
      <4>2. BlackToMove(i)' <=> BlackToMove(i)
        BY <1>1, <1>6, <3>2 DEF Game
      <4> QED
        BY <3>1, <4>1, <4>2
    <3>3. CASE i = cursor
      <4>1. BlackToMove(i)' <=> IF TakesPart(i) THEN ~BlackToMove(i) ELSE BlackToMove(i)
        BY <1>6, <3>3
      <4>2. TakesPart(i) <=> BlackToMove(i) = blacksMove
        BY DEF TakesPart
      <4> QED
        BY <3>1, <4>1, <4>2
    <3> QED
      BY <1>1, <3>2, <3>3 DEF Game
  <2>2. CASE at' = "move"
    BY <1>1, <1>2, <2>1, <2>2 DEF Steps, Game, BlackToMove, Typed
  <2>3. CASE at' = "top"
    <3>1. \A i \in Game : i <= cursor
      BY <1>1, <1>2, <2>3 DEF Game
    <3>2. \A i \in Game : outcome'[i] = "undecided" => (BlackToMove(i)' <=> ~blacksMove)
      BY <1>1, <2>1, <3>1
    <3> QED
      BY <2>3, <3>2 DEF Steps, BlackToMove
  <2> QED
    BY <1>2, <2>2, <2>3
<1>14. Filling'
  BY <1>1, <1>2 DEF Filling
<1> QED
  BY <1>10, <1>11, <1>12, <1>13, <1>14

-----------------------------------------------------------------------------
LEMMA InvariantSteps == IInv /\ [MultiNext]_multiVars => IInv'
<1> SUFFICES ASSUME IInv, [MultiNext]_multiVars
             PROVE  IInv'
  OBVIOUS
<1>1. CASE StartRound
  BY <1>1, StartRoundKeeps
<1>2. CASE CheckResult
  BY <1>2, CheckResultKeeps
<1>3. CASE Gather
  BY <1>3, GatherKeeps
<1>4. CASE MakeBestMove
  BY <1>4, MakeBestMoveKeeps
<1>5. CASE AbortGames \/ UNCHANGED multiVars
  <2>1. UNCHANGED <<tree, outcome, at, cursor, allDone, blacksMove, inputs, gathered, rounds>>
    BY <1>5 DEF AbortGames, multiVars
  <2>2. Typed' /\ Filling'
    BY <2>1 DEF IInv, Typed, Filling
  <2>3. MayMove'
    BY <2>1 DEF IInv, MayMove, Checked
  <2>4. QueueIsWaiting'
    BY <2>1 DEF IInv, QueueIsWaiting, Waiting, TakesPart, BlackToMove
  <2>5. Steps'
    BY <2>1 DEF IInv, Steps, FirstSays, BlackToMove
  <2> QED
    BY <2>2, <2>3, <2>4, <2>5 DEF IInv
<1> QED
  BY <1>1, <1>2, <1>3, <1>4, <1>5 DEF MultiNext

LEMMA Invariant == MultiSpec => []IInv
  BY InvariantAtStart, InvariantSteps, PTL DEF MultiSpec

LEMMA InvariantImplies ==
  IInv => MultiTypeOK /\ MovesByItsOwnEvaluation /\ GamesFallIntoStep
<1> SUFFICES ASSUME IInv
             PROVE  MultiTypeOK /\ MovesByItsOwnEvaluation /\ GamesFallIntoStep
  OBVIOUS
<1>1. MultiTypeOK
  <2>1. at \in {"top", "results"} => ~\E a \in 1..Len(gathered) : TRUE
    BY DEF IInv, QueueIsWaiting, Waiting
  <2>2. gathered \in Seq(Game \X Nat)
    BY DEF IInv, Typed
  <2>3. at \in {"top", "results"} => gathered = << >>
    BY <2>1, <2>2
  <2> QED
    BY <2>3 DEF IInv, Typed, MultiTypeOK
<1>2. MovesByItsOwnEvaluation
  BY FrontIsForCursor DEF MovesByItsOwnEvaluation
<1>3. GamesFallIntoStep
  <2>1. rounds > 0 => rounds # 0
    BY DEF IInv, Typed
  <2>2. at = "gather" /\ rounds # 0 =>
          \A i \in Game : outcome[i] = "undecided" => BlackToMove(i) = blacksMove
    BY DEF IInv, Steps, BlackToMove, Typed
  <2>. QED
    BY <2>1, <2>2 DEF IInv, Steps, GamesFallIntoStep, TakesPart
<1> QED
  BY <1>1, <1>2, <1>3

\* For any number of games: the evaluation at the front of the queue is always for
\* the game that moves next, at the position it stands at, and from the second batch
\* on the games that are still on have the same side to move and all take part
\* (Play in selfplay/multigame.cc).
THEOREM EvaluationsFindTheirGame ==
  MultiSpec => [](MovesByItsOwnEvaluation /\ GamesFallIntoStep)
  BY Invariant, InvariantImplies, PTL

\* Every invariant of the games, when the computation has a place for each input
\* that the games can have in one round: the code does not split a batch, so this is
\* what the backend has to offer.
THEOREM RoundsFitIntoBatches ==
  ASSUME BatchCapacity >= Games * MostInputs
  PROVE  MultiSpec => []MultiGamesInv
<1>1. IInv => MultiGamesInv
  <2>1. IInv => BatchHasRoom
    BY OneMoreGame, MultiGamesAssumption DEF IInv, Filling, Typed, BatchHasRoom
  <2> QED
    BY <2>1, InvariantImplies DEF MultiGamesInv
<1> QED
  BY <1>1, Invariant, PTL
=================================================================================
