----------------------------- MODULE NodeGarbage -----------------------------
(***************************************************************************)
(* NodeGarbageCollector of search/dag_classic: a thread that destroys the  *)
(* nodes which a move or a new game has cut off, while a search wants it   *)
(* to, and not when the search has ended.  Its state_ is changed by atomic *)
(* exchanges of three threads: the collector, the thread of the commands,  *)
(* and a search thread in MaybeTriggerStop.                                *)
(*                                                                         *)
(* A node is the height of what hangs below it, which its destruction      *)
(* brings to the collector as well.  The commands' thread fills its local  *)
(* queue and submits it in one step: nobody else sees it.                  *)
(***************************************************************************)
EXTENDS Integers, SequencesExt

CONSTANTS MaxSearches,   \* bound on the searches
          MaxReleases,   \* bound on the batches that are released
          MaxHeight,     \* bound on the height of a node
          LocalCapacity  \* kCapacity of the collector's local queue

ASSUME BoundsAssumption ==
  MaxSearches \in Nat /\ MaxReleases \in Nat /\ MaxHeight \in Nat \ {0}
    /\ LocalCapacity \in Nat \ {0}

VARIABLES
  state,     \* state_
  released,  \* released_nodes_, a sequence of batches
  own,       \* the local queue of the collector's thread
  gc,        \* where the collector's thread is
  nodes,     \* the batch it has taken
  took,      \* there was one
  dying,     \* the node it destroys, if there is one
  user,      \* what the commands' thread is doing
  mayAnswer, stopped, sent,  \* ok_to_respond_bestmove_, stop_, bestmove_is_sent_
  started,   \* gc_started_
  aborted,   \* the search was aborted
  searches, releases,
  owed       \* the batches that were queued when Start was called

gcVars     == <<released, own, gc, nodes, took, dying>>
searchVars == <<mayAnswer, stopped, sent, started, aborted, searches>>
garbageVars == <<state, gcVars, user, searchVars, releases, owed>>

Node == [batch : 1..MaxReleases, height : 1..MaxHeight]
\* The batches of the nodes of a queue and of a batch that was taken from it.
Batches(queue, taken) ==
  {x.batch : x \in (UNION {Range(q) : q \in Range(queue)}) \cup Range(taken)}

-----------------------------------------------------------------------------
GarbageInit ==
  /\ state = "Sleeping"
  /\ released = <<>> /\ own = <<>>
  /\ gc = "top" /\ nodes = <<>> /\ took = FALSE /\ dying = <<>>
  /\ user = "free"
  /\ mayAnswer = FALSE /\ stopped = TRUE /\ sent = TRUE /\ started = FALSE
  /\ aborted = FALSE /\ searches = 0
  /\ releases = 0 /\ owed = {}

Start ==
  /\ state' = "Running"
  /\ owed' = Batches(released, nodes)

Stop ==
  /\ state' = IF state = "Running" THEN "GoToSleep" ELSE state
  /\ owed' = {}

\* ReleaseNodesWork::Submit of the commands' thread.
Submit ==
  \E heights \in UNION {[1..k -> 1..MaxHeight] : k \in 1..2} :
    /\ releases < MaxReleases
    /\ releases' = releases + 1
    /\ released' = Append(released, [k \in DOMAIN heights |->
                     [batch |-> releases + 1, height |-> heights[k]]])

-----------------------------------------------------------------------------
\* GCThread.

\* The head of the loop, where a request to sleep is read ...
Top ==
  /\ gc = "top"
  /\ gc' = CASE state = "GoToSleep" -> "acknowledge"
             [] state = "Sleeping" -> "wait"
             [] OTHER -> "take"
  /\ UNCHANGED <<state, released, own, nodes, took, dying, owed>>

\* ... and acknowledged, if it still stands.
Acknowledge ==
  /\ gc = "acknowledge"
  /\ \/ state = "GoToSleep" /\ state' = "Sleeping" /\ gc' = "wait"
     \/ state # "GoToSleep" /\ UNCHANGED state /\ gc' = "top"
  /\ UNCHANGED <<released, own, nodes, took, dying, owed>>

\* What was left of an early exit goes to the front of the queue.
WakeUp ==
  /\ gc = "wait" /\ state # "Sleeping"
  /\ released' = IF own = <<>> THEN released ELSE <<own>> \o released
  /\ own' = <<>> /\ gc' = "top"
  /\ UNCHANGED <<state, nodes, took, dying, owed>>

TakeBatch ==
  /\ gc = "take" /\ gc' = "free"
  /\ took' = (released # <<>>)
  /\ nodes' = IF released # <<>> THEN Head(released) ELSE <<>>
  /\ released' = IF released # <<>> THEN Tail(released) ELSE <<>>
  /\ UNCHANGED <<state, own, dying, owed>>

\* Nodes are freed one by one as long as the collector is active.  If it was
\* told to stop and to start meanwhile, the vector frees the rest.
Pop(then) ==
  /\ dying' = <<Last(nodes)>> /\ nodes' = Front(nodes) /\ gc' = then
  /\ UNCHANGED <<state, released, own, took, owed>>

Free ==
  /\ gc = "free" /\ dying = <<>>
  /\ \/ nodes # <<>> /\ state = "Running" /\ Pop("free")
     \/ /\ nodes = <<>> \/ state # "Running"
        /\ gc' = "check"
        /\ UNCHANGED <<state, released, own, nodes, took, dying, owed>>

CheckActive ==
  /\ gc = "check"
  /\ gc' = IF ~took \/ state # "Running" THEN "lock" ELSE "drop"
  /\ UNCHANGED <<state, released, own, nodes, took, dying, owed>>

DropRest ==
  /\ gc = "drop" /\ dying = <<>>
  /\ \/ nodes # <<>> /\ Pop("drop")
     \/ /\ nodes = <<>> /\ gc' = "top"
        /\ UNCHANGED <<state, released, own, nodes, took, dying, owed>>

\* Destroying a node hands on what hangs below it: to be destroyed at once if
\* the collector is running, or to the local queue.
DestroyNode ==
  /\ dying # <<>>
  /\ LET x == dying[1]
         below == [x EXCEPT !.height = @ - 1]
     IN \/ /\ x.height = 1
           /\ dying' = <<>> /\ UNCHANGED <<own, released>>
        \/ /\ x.height > 1 /\ state = "Running"
           /\ dying' = <<below>> /\ UNCHANGED <<own, released>>
        \/ /\ x.height > 1 /\ state # "Running"
           /\ dying' = <<>>
           /\ IF Len(own) + 1 < LocalCapacity
                THEN own' = Append(own, below) /\ UNCHANGED released
                ELSE own' = <<>> /\ released' = <<Append(own, below)>> \o released
  /\ owed' = owed \ {b \in owed : b = dying[1].batch
                       /\ dying' = <<>>
                       /\ b \notin Batches(released', nodes)}
  /\ UNCHANGED <<state, gc, nodes, took>>

\* As Lock below, but the queue is not looked at again.
Lock_NotAgain ==
  /\ gc = "lock" /\ gc' = "top"
  /\ released' = IF nodes = <<>> THEN released ELSE <<nodes>> \o released
  /\ nodes' = <<>>
  /\ state' = IF ~took /\ state = "Running" THEN "Sleeping" ELSE state
  /\ UNCHANGED <<own, took, dying, owed>>

\* Under mutex_, so that nothing is queued meanwhile, nodes that were not freed
\* go back, and an empty queue puts the collector to sleep.
Lock ==
  /\ gc = "lock" /\ gc' = "top"
  /\ released' = IF nodes = <<>> THEN released ELSE <<nodes>> \o released
  /\ nodes' = <<>>
  /\ state' = IF released' = <<>> /\ state = "Running" THEN "Sleeping" ELSE state
  /\ UNCHANGED <<own, took, dying, owed>>

GCThread ==
  /\ \/ Top \/ Acknowledge \/ WakeUp \/ TakeBatch \/ Free \/ CheckActive \/ DropRest
     \/ DestroyNode \/ Lock
  /\ UNCHANGED <<user, searchVars, releases>>

-----------------------------------------------------------------------------
\* The commands.  A position is set, or a new game begun, without a search.

SetPosition ==
  /\ user = "free" /\ Submit
  /\ UNCHANGED <<state, own, gc, nodes, took, dying, user, searchVars, owed>>

\* NodeTree::~NodeTree: everything is queued, and then the collector started.
NewGame ==
  /\ user = "free" /\ user' = "newgame" /\ Submit
  /\ UNCHANGED <<state, own, gc, nodes, took, dying, searchVars, owed>>
StartCollection ==
  /\ user = "newgame" /\ user' = "free" /\ Start
  /\ UNCHANGED <<gcVars, searchVars, releases>>

StartSearch ==
  /\ user = "free" /\ searches < MaxSearches
  /\ user' = "searching" /\ searches' = searches + 1
  /\ mayAnswer' \in BOOLEAN
  /\ stopped' = FALSE /\ sent' = FALSE /\ started' = FALSE /\ aborted' = FALSE
  /\ UNCHANGED <<state, gcVars, releases, owed>>

\* Search::Stop and Search::Abort tell the collector first, and the search
\* later.
StopCollection ==
  /\ user = "searching" /\ user' \in {"stop", "abort"}
  /\ Stop
  /\ UNCHANGED <<gcVars, searchVars, releases>>

StopSearch ==
  /\ user = "stop" /\ user' = "searching"
  /\ mayAnswer' = TRUE /\ stopped' = TRUE
  /\ UNCHANGED <<state, gcVars, sent, started, aborted, searches, releases, owed>>

AbortSearch ==
  /\ user = "abort" /\ user' = "waiting" /\ aborted' = TRUE
  /\ IF ~stopped \/ (~sent /\ ~mayAnswer)
       THEN sent' = TRUE /\ stopped' = TRUE
       ELSE UNCHANGED <<sent, stopped>>
  /\ UNCHANGED <<state, gcVars, mayAnswer, started, searches, releases, owed>>

\* Search::Wait, after Abort or by itself: first for the collector.
WaitSearch ==
  /\ user = "searching" /\ user' = "waiting" /\ mayAnswer
  /\ UNCHANGED <<state, gcVars, searchVars, releases, owed>>
WaitForCollector ==
  /\ user = "waiting" /\ state = "Sleeping" /\ user' = "joining"
  /\ UNCHANGED <<state, gcVars, searchVars, releases, owed>>
JoinThreads ==
  /\ user = "joining" /\ sent /\ user' = "free"
  /\ UNCHANGED <<state, gcVars, searchVars, releases, owed>>

-----------------------------------------------------------------------------
\* MaybeTriggerStop of the search's threads, under counters_mutex_: the search
\* stops by itself, or it is time to collect.

\* As MayCollect below, for a search that is about to end as well.
MayCollect_Late == ~sent /\ ~started

MayCollect == ~sent /\ ~stopped /\ ~started

CollectDuringSearch ==
  /\ MayCollect
  /\ started' = TRUE /\ Start
  /\ UNCHANGED <<gcVars, user, mayAnswer, stopped, sent, aborted, searches, releases>>

ShouldStop ==
  /\ ~sent /\ ~stopped /\ stopped' = TRUE
  /\ UNCHANGED <<state, gcVars, user, mayAnswer, sent, started, aborted, searches,
                 releases, owed>>

OutputBestMove ==
  /\ ~sent /\ stopped /\ mayAnswer
  /\ sent' = TRUE /\ Stop
  /\ UNCHANGED <<gcVars, user, mayAnswer, stopped, started, aborted, searches, releases>>

GarbageNext ==
  \/ GCThread
  \/ SetPosition \/ NewGame \/ StartCollection \/ StartSearch \/ StopCollection
  \/ StopSearch \/ AbortSearch \/ WaitSearch \/ WaitForCollector \/ JoinThreads
  \/ CollectDuringSearch \/ ShouldStop \/ OutputBestMove

\* The threads run; commands come as they please.
CommandsGoOn == \/ StartCollection \/ StopSearch \/ AbortSearch \/ WaitForCollector
                \/ JoinThreads
GarbageSpec     == GarbageInit /\ [][GarbageNext]_garbageVars
GarbageFairSpec == GarbageSpec /\ WF_garbageVars(GCThread) /\ WF_garbageVars(CommandsGoOn)

-----------------------------------------------------------------------------
\* Everything has its shape.
GarbageTypeOK ==
  /\ state \in {"Running", "GoToSleep", "Sleeping"}
  /\ released \in Seq(Seq(Node) \ {<<>>}) /\ own \in Seq(Node)
  /\ Len(own) < LocalCapacity
  /\ gc \in {"top", "acknowledge", "wait", "take", "free", "check", "drop", "lock"}
  /\ nodes \in Seq(Node) /\ took \in BOOLEAN /\ dying \in Seq(Node)
  /\ user \in {"free", "newgame", "searching", "stop", "abort", "waiting", "joining"}
  /\ {mayAnswer, stopped, sent, started, aborted} \subseteq BOOLEAN
  /\ owed \subseteq 1..releases

\* Whoever sees the collector sleep can rely on it: it is not in the middle of
\* a destruction, and holds no batch.
QuietWhenAsleep ==
  state = "Sleeping" => dying = <<>> /\ nodes = <<>>

\* Once an aborted search has been waited for, no node is destroyed until the
\* collector is started again, though a search thread may have started it
\* after Abort has stopped it.
AbortEndsCollection ==
  aborted /\ user = "joining" => state = "Sleeping"

\* What was queued before the collector is started is destroyed, unless it is
\* stopped, though it may just be going to sleep.
OwedIsCollected == owed # {} ~> owed = {}

\* Search::Wait does not wait for the collector forever, though a search thread
\* may start it meanwhile.
WaitReturns == user = "waiting" ~> user # "waiting"

\* Neither a start nor a request to sleep is lost between the collector's look at
\* its state and the change of it.
NoRequestIsLost == OwedIsCollected /\ WaitReturns

\* What was queued when the collector was started last, and has not been destroyed
\* since, is where its thread will come by, and keeps it from sleeping until somebody
\* stops it, though the start may have come when it was about to sleep.
Reachable == Batches(released, nodes) \cup {x.batch : x \in Range(dying)}
OwedKeepsAwake == owed \subseteq Reachable /\ (owed # {} => state = "Running")

\* Who relies on the sleep of the collector may: a new search, the owner who has
\* waited for an aborted one, and whoever has started it and looks no further.
CollectorInv ==
  GarbageTypeOK /\ QuietWhenAsleep /\ AbortEndsCollection /\ OwedKeepsAwake
=============================================================================
