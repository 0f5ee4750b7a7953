------------------------------- MODULE Tournament -------------------------------
(***************************************************************************)
(* A self-play tournament (selfplay/tournament.cc) and its games           *)
(* (selfplay/game.cc): worker threads take game numbers, play the games    *)
(* one move a search, and add up the results, while other threads may Stop *)
(* or Abort the tournament.                                                *)
(*                                                                         *)
(* A search is what SearchPromise says of it: it runs until it has an      *)
(* answer or is aborted, and RunBlocking returns after that.  Moves and    *)
(* results of games are whatever they may be; a game is its length.        *)
(***************************************************************************)
EXTENDS Integers, FiniteSets

CONSTANTS Worker,
          TotalGames,   \* kTotalGames, or the number the opening book gives
          Openings,     \* openings_.size()
          Mirrored,     \* every opening is played with both colours
          ShareTree,    \* both players search one tree
          PlyLimit      \* where a game is adjudicated: 450 plies

ASSUME TournamentAssumption ==
  /\ Worker # {}   \* "parallelism" is at least 1
  /\ TotalGames \in Nat /\ Openings \in Nat \ {0} /\ PlyLimit \in Nat
  /\ Mirrored \in BOOLEAN /\ ShareTree \in BOOLEAN

VARIABLES
  firstBlack,   \* first_game_black_
  taken,        \* games_count_
  abort,        \* abort_ of the tournament
  score,        \* tournament_info_.results, by result and player 1's colour
  saved,        \* SaveResults was called, "final" was reported
  game,         \* what each worker does, and its game
  owner,        \* the Abort in progress: the games it has not visited
  played        \* history: the games that ended

tournamentVars == <<firstBlack, taken, abort, score, saved, game, owner, played>>

White == 0   Black == 1
Decided == {"white", "black", "draw"}
Other(side) == 1 - side
NoAbort == [at |-> "none", left |-> {}, in |-> {}, sees |-> FALSE]
NoGame == [at |-> "idle", id |-> 0, opening |-> 0, black |-> FALSE, listed |-> FALSE,
           side |-> White, head |-> <<0, 0>>, search |-> "none", threads |-> 1,
           abort |-> FALSE, result |-> "undecided"]

TournamentInit ==
  /\ firstBlack \in BOOLEAN /\ taken = 0 /\ abort = FALSE
  /\ score = [r \in 0..2 |-> [c \in 0..1 |-> 0]]
  /\ saved = FALSE /\ owner = NoAbort /\ played = {}
  /\ game = [w \in Worker |-> NoGame]

Set(w, g) == game' = [game EXCEPT ![w] = g]
\* mutex_ is held during the whole of Abort.
TournamentFree == owner.at = "none"
\* The game's mutex_ is held by the game's Abort.
GameFree(w) == w \notin owner.in

-----------------------------------------------------------------------------
MayTake == ~abort /\ taken < TotalGames
\* Worker: take the next game, or leave.
TakeGame(w) ==
  /\ game[w].at = "idle" /\ TournamentFree
  /\ IF MayTake
       THEN /\ taken' = taken + 1
            /\ Set(w, [NoGame EXCEPT !.at = "setup", !.id = taken])
       ELSE Set(w, [game[w] EXCEPT !.at = "gone"]) /\ UNCHANGED taken
  /\ UNCHANGED <<firstBlack, abort, score, saved, owner, played>>

\* Whether player 1 has the black pieces.
PlaysBlack(id) == (id % 2 = 1) # firstBlack
OpeningOf(id) == (IF Mirrored THEN id \div 2 ELSE id) % Openings
\* PlayOneGame chooses colours and opening.
SetUp(w) ==
  /\ game[w].at = "setup" /\ TournamentFree
  /\ Set(w, [game[w] EXCEPT !.at = "register", !.black = PlaysBlack(game[w].id),
                            !.opening = OpeningOf(game[w].id)])
  /\ UNCHANGED <<firstBlack, taken, abort, score, saved, owner, played>>
\* The game is listed from here on, after its opening.  Nobody asks for abort_.
Register(w) ==
  /\ game[w].at = "register" /\ TournamentFree
  /\ \E side \in {White, Black} :
       Set(w, [game[w] EXCEPT !.at = "check", !.listed = TRUE, !.side = side])
  /\ UNCHANGED <<firstBlack, taken, abort, score, saved, owner, played>>

-----------------------------------------------------------------------------
GameStep(w, g) ==
  /\ Set(w, g)
  /\ UNCHANGED <<firstBlack, taken, abort, score, saved, owner, played>>

\* The top of Play's loop: the game may be aborted, over or adjudicated.  It may
\* have no result: then it is undecided when it is left.
CheckGame(w) ==
  /\ game[w].at = "check"
  /\ \/ game[w].abort /\ GameStep(w, [game[w] EXCEPT !.at = "over"])
     \/ /\ ~game[w].abort
        /\ \/ \E r \in Decided : GameStep(w, [game[w] EXCEPT !.at = "over", !.result = r])
           \/ /\ game[w].head[1] >= PlyLimit
              /\ GameStep(w, [game[w] EXCEPT !.at = "over"])
           \/ /\ game[w].head[1] < PlyLimit
              /\ GameStep(w, [game[w] EXCEPT !.at = "create"])

\* Mutant: abort_ is not asked for again.
MayCreate_Always(g) == TRUE
MayCreate(g) == ~g.abort
\* PlayOneGame passes player 1's number of threads where Play expects White's.
ThreadsFor(side) == IF side = White THEN 1 ELSE 2
\* The search is made under the mutex.
CreateSearch(w) ==
  /\ game[w].at = "create" /\ GameFree(w)
  /\ GameStep(w, IF MayCreate(game[w])
                   THEN [game[w] EXCEPT !.at = "search", !.search = "running",
                                        !.threads = ThreadsFor(game[w].side)]
                   ELSE [game[w] EXCEPT !.at = "over"])
SearchEnds(w) ==
  /\ game[w].search = "running"
  /\ GameStep(w, [game[w] EXCEPT !.search = "answered"])

\* RunBlocking has returned: nothing is played after an abort, a player may
\* resign, or the search chooses a move.
AfterSearch(w) ==
  /\ game[w].at = "search" /\ game[w].search # "running"
  /\ IF game[w].abort THEN GameStep(w, [game[w] EXCEPT !.at = "over"])
     ELSE \/ \E r \in Decided : GameStep(w, [game[w] EXCEPT !.at = "over", !.result = r])
          \/ GameStep(w, [game[w] EXCEPT !.at = "reset"])

\* Mutant: the search is kept until the next one replaces it.
AfterReset_Kept(s) == s
AfterReset(s) == "none"
\* search_.reset(), which takes no mutex.
ResetSearch(w) ==
  /\ game[w].at = "reset"
  /\ GameStep(w, [game[w] EXCEPT !.at = "move", !.search = AfterReset(@)])

\* Mutant: only the tree that was searched gets the move.
Heads_One(g) == [g.head EXCEPT ![IF ShareTree THEN 1 ELSE g.side + 1] = @ + 1]
\* Both trees get the move, unless they are one.
Heads(g) == IF ShareTree THEN [g.head EXCEPT ![1] = @ + 1]
                         ELSE [i \in 1..2 |-> g.head[i] + 1]
MakeMove(w) ==
  /\ game[w].at = "move"
  /\ GameStep(w, [game[w] EXCEPT !.at = "check", !.head = Heads(game[w]),
                                 !.side = Other(@)])

-----------------------------------------------------------------------------
\* 0, 1, 2: player 1 won, drew, lost.
ResultIndex(g) ==
  LET white == CASE g.result = "draw" -> 1 [] g.result = "white" -> 0 [] OTHER -> 2
  IN IF g.black THEN 2 - white ELSE white
\* A game that is undecided counts for nothing, be it aborted or adjudicated.
CountGame(w) ==
  /\ game[w].at = "over"
  /\ IF game[w].result = "undecided" THEN UNCHANGED score
     ELSE /\ TournamentFree
          /\ score' = [score EXCEPT ![ResultIndex(game[w])][IF game[w].black THEN 1 ELSE 0]
                                     = @ + 1]
  /\ played' = played \cup {[id |-> game[w].id, opening |-> game[w].opening,
                             black |-> game[w].black, result |-> game[w].result]}
  /\ Set(w, [game[w] EXCEPT !.at = "counted"])
  /\ UNCHANGED <<firstBlack, taken, abort, saved, owner>>
EraseGame(w) ==
  /\ game[w].at = "counted" /\ TournamentFree
  /\ Set(w, NoGame)
  /\ UNCHANGED <<firstBlack, taken, abort, score, saved, owner, played>>

\* Mutant: the results are saved as soon as every game has been taken.
AllJoined_Taken == taken = TotalGames
AllJoined == \A w \in Worker : game[w].at = "gone"
\* Wait: join every thread, then save the results of a complete tournament.
Finish ==
  /\ AllJoined /\ TournamentFree /\ ~abort /\ ~saved
  /\ saved' = TRUE
  /\ UNCHANGED <<firstBlack, taken, abort, score, game, owner, played>>

-----------------------------------------------------------------------------
Stop ==
  /\ TournamentFree /\ ~abort
  /\ abort' = TRUE
  /\ UNCHANGED <<firstBlack, taken, score, saved, game, owner, played>>

\* Abort visits the listed games one by one.
Abort ==
  /\ TournamentFree
  /\ abort' = TRUE
  /\ \E w \in Worker : game[w].listed
  /\ owner' = [NoAbort EXCEPT !.at = "visiting",
                              !.left = {w \in Worker : game[w].listed}]
  /\ UNCHANGED <<firstBlack, taken, score, saved, game, played>>
\* The game's Abort: with its mutex, abort_ first, then the search if there is one.
EnterGame(w) ==
  /\ w \in owner.left /\ owner.in = {}
  /\ owner' = [owner EXCEPT !.left = @ \ {w}, !.in = {w}]
  /\ Set(w, [game[w] EXCEPT !.abort = TRUE])
  /\ UNCHANGED <<firstBlack, taken, abort, score, saved, played>>
AskForSearch(w) ==
  /\ w \in owner.in /\ owner.at = "visiting"
  /\ owner' = [owner EXCEPT !.at = "inside", !.sees = game[w].search # "none"]
  /\ UNCHANGED <<firstBlack, taken, abort, score, saved, game, played>>
\* search_ may have been reset in between: a build then crashes or does nothing.
AbortSearch(w) ==
  /\ w \in owner.in /\ owner.at = "inside"
  /\ owner' = IF owner.left = {} THEN NoAbort
              ELSE [owner EXCEPT !.at = "visiting", !.in = {}, !.sees = FALSE]
  /\ Set(w, [game[w] EXCEPT !.search =
                IF owner.sees /\ @ = "running" THEN "silent" ELSE @])
  /\ UNCHANGED <<firstBlack, taken, abort, score, saved, played>>

WorkerStep(w) ==
  \/ TakeGame(w) \/ SetUp(w) \/ Register(w) \/ CheckGame(w) \/ CreateSearch(w)
  \/ SearchEnds(w) \/ AfterSearch(w) \/ ResetSearch(w) \/ MakeMove(w)
  \/ CountGame(w) \/ EraseGame(w)
TournamentNext ==
  \/ \E w \in Worker : WorkerStep(w) \/ EnterGame(w) \/ AskForSearch(w) \/ AbortSearch(w)
  \/ Finish \/ Stop \/ Abort

TournamentSpec == TournamentInit /\ [][TournamentNext]_tournamentVars

-----------------------------------------------------------------------------
TournamentTypeOK ==
  /\ taken \in 0..TotalGames /\ abort \in BOOLEAN /\ saved \in BOOLEAN
  /\ \A w \in Worker :
       /\ game[w].result \in Decided \cup {"undecided"}
       /\ game[w].search \in {"none", "running", "answered", "silent"}
       /\ game[w].at = "search" => game[w].search # "none"
       /\ game[w].listed <=> game[w].at \notin {"idle", "gone", "setup", "register"}
  /\ owner.in \cup owner.left \subseteq {w \in Worker : game[w].listed}

\* The score is that of the games played, each counted once, for the right player
\* and colour, whichever thread counted it and however many were aborted.
ScoreIsTrue ==
  /\ \A p, q \in played : p.id = q.id => p = q
  /\ \A r \in 0..2, c \in 0..1 :
       score[r][c] = Cardinality({p \in played :
         /\ c = IF p.black THEN 1 ELSE 0
         /\ CASE r = 1 -> p.result = "draw"
              [] r = 0 -> p.result = IF p.black THEN "black" ELSE "white"
              [] r = 2 -> p.result = IF p.black THEN "white" ELSE "black"})

\* A tournament that reports itself finished has played every game to its end, none
\* is still on; with mirrored openings no opening gives a player the same colour
\* twice, so that each pair of games is fair.
FinishedIsFair ==
  /\ saved => {p.id : p \in played} = 0..(TotalGames - 1)
              /\ \A w \in Worker : ~game[w].listed
  /\ Mirrored /\ TotalGames <= 2 * Openings =>
       \A p, q \in played : p.opening = q.opening /\ p.black = q.black => p.id = q.id

\* A game that Abort has visited searches no more: the flag and the search are
\* looked at under the mutex under which the game makes its search.
AbortedGamesRest ==
  \A w \in Worker : game[w].abort /\ GameFree(w) => game[w].search # "running"

\* "Must reset the search before mutating the tree": moves are made, and the head
\* of a tree moves on, while no search of the game exists; both players' trees
\* stand at the same position then, with the right side to move.
NoSearchInAMovingTree ==
  [][\A w \in Worker : game'[w].head # game[w].head /\ game'[w].listed =>
       /\ game[w].search = "none"
       /\ ~ShareTree => game'[w].head[1] = game'[w].head[2]]_tournamentVars

\* The tournament's books: the score is that of the games played, which are fair
\* when it is finished, and a game that was aborted does not search on.
TournamentInv == /\ TournamentTypeOK /\ ScoreIsTrue /\ FinishedIsFair
                 /\ AbortedGamesRest
===============================================================================
