----------------------------- MODULE EngineControl -----------------------------
(***************************************************************************)
(* The engine between the UCI thread and the search (engine.cc and         *)
(* search/classic/wrapper.cc).  The UCI thread executes one command after  *)
(* the other.  A command is the script of the calls it makes, and between  *)
(* any two of them the search goes on in its own threads.  The search is   *)
(* what SearchPromise says of it, which SearchControl implements.          *)
(***************************************************************************)
EXTENDS Sequences

CONSTANTS
  Position,   \* positions the GUI sends
  Startpos,   \* the one without moves, of which no ply can be trimmed
  NoPosition, \* last_position_ before the first of them
  Backend,    \* values of the option "Backend"
  NoBackend,  \* backend_ before the first of them is created
  Policy      \* values of the options that a backend takes over as it is

ASSUME EngineAssumption ==
  /\ Startpos \in Position /\ NoPosition \notin Position
  /\ Backend # {} /\ NoBackend \notin Backend /\ Policy # {}

VARIABLES
  command,   \* the command that is being executed, or "none"
  arg,       \* its argument
  script,    \* the calls it has still to make
  lastPos,   \* Engine::last_position_
  lastGo,    \* Engine::last_go_params_: "none", "normal", "ponder", "infinite"
  tree,      \* where NodeTree's head is; fresh flips with every rebuilding
  chosen,    \* the options: "Backend", and softmax temperature or history fill
  backendName,  \* Engine::backend_name_
  backend,   \* Engine::backend_; fresh flips when it is replaced
  cached,    \* the settings with which entries of its MemCache were evaluated
  limit, mayAnswer, outcome, live,  \* ClassicSearch::search_, as it promises
  gui,       \* history: what the GUI expects: "quiet", "thinking", an answer
             \* that is "due" after "stop", or "closed"
  begun      \* history: a position was sent after the last "go"

S == INSTANCE SearchPromise

uci     == <<command, arg, script>>
network == <<chosen, backendName, backend, cached>>
engine  == <<lastPos, lastGo, tree, network>>
search  == <<limit, mayAnswer, outcome, live>>
history == <<gui, begun>>
vars    == <<uci, engine, search, history>>

Modes   == {"normal", "ponder", "infinite"}
Options == [name : Backend, policy : Policy]
Nowhere == [pos |-> NoPosition, trimmed |-> FALSE, fresh |-> FALSE]

Init ==
  /\ command = "none" /\ arg = "none" /\ script = << >>
  /\ lastPos = NoPosition /\ lastGo = "none"
  /\ tree = Nowhere /\ chosen \in Options
  /\ backendName = NoBackend /\ cached = {}
  /\ \E p \in Policy : backend = [name |-> NoBackend, policy |-> p, fresh |-> FALSE]
  /\ limit = FALSE /\ mayAnswer = FALSE /\ outcome = "silent" /\ live = FALSE
  /\ gui = "quiet" /\ begun = FALSE

-----------------------------------------------------------------------------
\* The calls of the commands, in their order.
StopAndWait_NoWait == <<"abort">>
StopAndWait == <<"abort", "wait">>
SetPositionCalls == StopAndWait \o <<"update", "position">>
\* ~Search also aborts and waits.
DestroySearch == <<"abort", "wait">>
NewGameCalls == <<"clear">> \o DestroySearch \o <<"drop">> \o SetPositionCalls
StartCalls == <<"construct">> \o DestroySearch \o <<"start">>
GoCalls == (IF lastPos = NoPosition THEN NewGameCalls ELSE << >>)
             \o <<"reset", "record">> \o StartCalls
PonderHitCalls_NoReset == StopAndWait \o <<"hit">> \o StartCalls
PonderHitCalls == StopAndWait \o <<"hit", "reset">> \o StartCalls

\* The UCI thread begins a command; its calls follow.
Begin(name, value, calls) ==
  /\ command = "none" /\ gui # "closed"
  /\ command' = name /\ arg' = value /\ script' = calls
  /\ UNCHANGED <<engine, search>>

SetOption ==
  /\ command = "none" /\ gui # "closed"
  /\ chosen' \in Options
  /\ UNCHANGED <<uci, lastPos, lastGo, tree, backendName, backend, cached, search,
                 history>>
SetPosition ==
  /\ \E p \in Position : Begin("position", p, SetPositionCalls)
  /\ begun' = TRUE /\ UNCHANGED gui
NewGame ==
  /\ Begin("ucinewgame", Startpos, NewGameCalls)
  /\ begun' = TRUE /\ UNCHANGED gui
\* The GUI sends a position before every "go" but the first.
Go ==
  /\ gui = "quiet"
  /\ begun \/ lastPos = NoPosition
  /\ \E mode \in Modes : Begin("go", mode, GoCalls)
  /\ gui' = "thinking" /\ begun' = FALSE
PonderHit ==
  /\ gui = "thinking" /\ lastGo = "ponder"
  /\ Begin("ponderhit", "none", PonderHitCalls)
  /\ UNCHANGED history
Wait ==
  /\ Begin("wait", "none", <<"wait">>)
  /\ UNCHANGED history
Stop ==
  /\ Begin("stop", "none", <<"stop">>)
  /\ gui' = IF gui = "thinking" THEN "due" ELSE gui
  /\ UNCHANGED begun
\* "quit": the responder is unregistered, then the engine destroyed.
Quit ==
  /\ Begin("quit", "none", StopAndWait)
  /\ gui' = "closed" /\ UNCHANGED begun

-----------------------------------------------------------------------------
\* The calls, each by the UCI thread.
Call(name) == script # << >> /\ Head(script) = name
Called(name) == Call(name) /\ script' = Tail(script) /\ UNCHANGED <<command, arg>>
\* An exception ends the command; the UCI loop reports it and goes on.
GiveUp ==
  /\ script' = << >> /\ UNCHANGED <<command, arg>>
  /\ gui' = IF command \in {"go", "ponderhit"} THEN "quiet" ELSE gui

CallAbort ==
  /\ Called("abort")
  /\ \/ S!Abort
     \/ outcome # "open" /\ UNCHANGED search
     \/ limit /\ mayAnswer /\ UNCHANGED search
  /\ UNCHANGED <<engine, history>>
CallWait ==
  /\ Called("wait") /\ ~live
  /\ UNCHANGED <<engine, search, history>>
AskToStop_Aborts == S!Abort
AskToStop == S!Stop
CallStop ==
  /\ Called("stop")
  /\ IF live THEN AskToStop ELSE UNCHANGED search
  /\ UNCHANGED <<engine, history>>
\* MemCache::UpdateConfiguration compares the options with a hash that the
\* backend below has just computed from them, so that it never clears the cache.
CacheOutdated == LET current == chosen IN current # chosen
\* UpdateBackendConfig.  A backend may take the options over, or ask to be created
\* anew; the creation of one may throw, after its name is remembered.
CallUpdate ==
  /\ \/ /\ backend.name # NoBackend /\ backendName = chosen.name
        /\ Called("update") /\ UNCHANGED <<gui, backendName>>
        /\ backend' = [backend EXCEPT !.policy = chosen.policy]
        /\ cached' = IF CacheOutdated THEN {} ELSE cached
     \/ /\ backendName' = chosen.name
        /\ \/ /\ Called("update") /\ UNCHANGED gui
              /\ backend' = [name |-> chosen.name, policy |-> chosen.policy,
                           fresh |-> ~backend.fresh]
              /\ cached' = {}
           \/ Call("update") /\ GiveUp /\ UNCHANGED <<backend, cached>>
  /\ UNCHANGED <<lastPos, lastGo, tree, chosen, search, begun>>
CallClear ==
  /\ Called("clear")
  /\ cached' = {}
  /\ UNCHANGED <<lastPos, lastGo, tree, chosen, backendName, backend, search, history>>
\* MakeGameState throws for what it cannot parse.
CallPosition ==
  /\ Called("position")
  /\ \/ lastPos' = IF command = "position" THEN arg ELSE Startpos
     \/ command = "position" /\ UNCHANGED lastPos
  /\ UNCHANGED <<lastGo, tree, network, search, history>>
CallDrop ==
  /\ Called("drop")
  /\ tree' = Nowhere
  /\ UNCHANGED <<lastPos, lastGo, network, search, history>>
ForPonder == command = "go" /\ arg = "ponder"
\* InitializeSearchPosition, where NodeTree::ResetToPosition rebuilds history.
CallReset ==
  /\ Called("reset")
  /\ tree' = [pos |-> lastPos, trimmed |-> ForPonder /\ lastPos # Startpos,
              fresh |-> ~tree.fresh]
  /\ UNCHANGED <<lastPos, lastGo, network, search, history>>
CallRecord ==
  /\ Called("record")
  /\ lastGo' = arg
  /\ UNCHANGED <<lastPos, tree, network, search, history>>
CallHit ==
  /\ Called("hit")
  /\ lastGo' = "normal"
  /\ UNCHANGED <<lastPos, tree, network, search, history>>
\* The constructor of the new search; without a legal "searchmoves" it throws.
CallConstruct ==
  /\ \/ Called("construct") /\ UNCHANGED gui
     \/ Call("construct") /\ GiveUp
  /\ UNCHANGED <<engine, search, begun>>
\* ok_to_respond_bestmove_ at the start of a search.
AnswersAlone_Pondering(mode) == mode # "infinite"
AnswersAlone(mode) == mode = "normal"
CallStart ==
  /\ Called("start")
  /\ mayAnswer' = AnswersAlone(lastGo)
  /\ limit' = FALSE /\ outcome' = "open" /\ live' = TRUE
  /\ UNCHANGED <<engine, history>>

\* The command is done: after a position the GUI expects nothing any more.
Return ==
  /\ command # "none" /\ script = << >>
  /\ command' = "none" /\ arg' = "none" /\ UNCHANGED script
  /\ gui' = IF command \in {"position", "ucinewgame"} /\ gui = "thinking"
            THEN "quiet" ELSE gui
  /\ UNCHANGED <<engine, search, begun>>

-----------------------------------------------------------------------------
\* The threads of the search.
Answering == outcome = "open" /\ outcome' = "bestmove"
Report == gui' = IF Answering /\ gui \in {"thinking", "due"} THEN "quiet" ELSE gui
ReachLimit == S!ReachLimit /\ Report /\ UNCHANGED <<uci, engine, begun>>
Answer     == S!Answer /\ Report /\ UNCHANGED <<uci, engine, begun>>
WindDown   == S!WindDown /\ UNCHANGED <<uci, engine, history>>
Evaluate ==
  /\ live
  /\ cached' = cached \cup {backend.policy}
  /\ UNCHANGED <<uci, lastPos, lastGo, tree, chosen, backendName, backend, search,
                 history>>

Command == \/ SetOption \/ SetPosition \/ NewGame \/ Go \/ PonderHit \/ Wait \/ Stop
           \/ Quit
Calls   == \/ CallClear \/ CallAbort \/ CallWait \/ CallStop \/ CallUpdate
           \/ CallPosition \/ CallDrop \/ CallReset \/ CallRecord \/ CallHit \/ CallConstruct
           \/ CallStart \/ Return
Next == Command \/ Calls \/ ReachLimit \/ Answer \/ WindDown \/ Evaluate

Spec == Init /\ [][Next]_vars
\* The UCI thread goes on with a command it has begun, the search answers and
\* winds down as it promises; a limit need never be reached.
FairSpec == Spec /\ WF_vars(Calls) /\ WF_vars(Answer) /\ WF_vars(WindDown)

-----------------------------------------------------------------------------
TypeOK ==
  /\ command \in {"none", "position", "ucinewgame", "go", "ponderhit", "wait",
                  "stop", "quit"}
  /\ arg \in Position \cup Modes \cup {"none"}
  /\ script \in Seq({"clear", "abort", "wait", "stop", "update", "position", "drop",
                     "reset", "record", "hit", "construct", "start"})
  /\ lastPos \in Position \cup {NoPosition} /\ lastGo \in Modes \cup {"none"}
  /\ \/ tree = Nowhere
     \/ tree \in [pos : Position, trimmed : BOOLEAN, fresh : BOOLEAN]
  /\ chosen \in Options /\ backendName \in Backend \cup {NoBackend}
  /\ backend \in [name : Backend \cup {NoBackend}, policy : Policy, fresh : BOOLEAN]
  /\ cached \subseteq Policy
  /\ limit \in BOOLEAN /\ mayAnswer \in BOOLEAN /\ live \in BOOLEAN
  /\ begun \in BOOLEAN
  /\ outcome \in {"open", "bestmove", "silent"}
  /\ gui \in {"quiet", "thinking", "due", "closed"}

\* The tree with its history, and the backend, are only changed while no thread
\* of a search runs, although a search that has answered goes on for a while
\* (search.h: "only can be changed while the search is stopped").
SetupIsStable ==
  [][tree' # tree \/ backend' # backend => ~live]_<<tree, backend, live>>

\* A bestmove is sent only while the GUI waits for one: once for a "go", never
\* once a "position" or "ucinewgame" has returned, and for a ponder or infinite
\* search only after "stop" or "ponderhit".
AnswersAreAsked ==
  [][Answering => \/ gui \in {"due", "closed"}
                  \/ gui = "thinking" /\ lastGo = "normal"]_vars

\* Whatever the order of positions, ponder hits and commands that failed half
\* way, a search that may still answer works on the position the GUI has set
\* last, one ply earlier as long as it ponders; it has a backend to evaluate
\* with, and the GUI has not yet had the answer it asked for.
SearchesWhatWasAsked ==
  outcome = "open" =>
    /\ tree.pos = lastPos
    /\ tree.trimmed = (lastGo = "ponder" /\ lastPos # Startpos)
    /\ backend.name # NoBackend
    /\ gui # "quiet"

\* "stop" is answered, also if it is followed at once by a "position" whose
\* Abort asks for silence.
StopIsHonoured == (gui = "due") ~> (gui # "due")

\* Every command returns to the UCI loop, except "wait", which may block for
\* as long as the search takes.
CommandsReturn == (command \notin {"none", "wait"}) ~> (command = "none")

\* Nobody is left waiting: the GUI for its answer, nor the UCI loop for a command.
NobodyWaitsForEver == StopIsHonoured /\ CommandsReturn

\* MemCache::UpdateConfiguration, "Check if we need to clear the cache": what is
\* in the cache was evaluated with the settings of the backend.
CacheFitsBackend == cached \subseteq {backend.policy}

\* Every variable keeps its type, and a search is one of what was asked for.
EngineInv == TypeOK /\ SearchesWhatWasAsked
===============================================================================
