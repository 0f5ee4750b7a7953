------------------------------ MODULE SearchTree ------------------------------
(***************************************************************************)
(* The shared search tree of search/classic and the protocol by which      *)
(* several SearchWorkers grow it: visits are picked under nodes_mutex_     *)
(* with virtual loss (n_in_flight_), the picked nodes are extended without *)
(* a lock, visits that need no evaluation are backed up out of order, the  *)
(* others after the computation, and collisions are pooled in              *)
(* shared_collisions_ until a worker that did some work cancels them.      *)
(* Proven results climb the tree as bounds, and between two searches the   *)
(* game advances and the subtree of the new head is reused.                *)
(*                                                                         *)
(* The game is a finite tree.  Which child is picked, and how many visits  *)
(* go there, is any choice: PUCT scores, policies and Q are abstracted.    *)
(* Visits are picked, and collisions held, per node and interchangeable.   *)
(***************************************************************************)
EXTENDS Integers, FiniteSetsExt

CONSTANTS Node, Top, Parent,  \* positions; Parent \in [Node \ {Top} -> Node]
          Ending,             \* how the game ends at a node, if it does
          Cycle,              \* plies since the first repetition, 0 for none
          Worker, NoWorker,
          OutOfOrder,         \* params_.GetOutOfOrderEval()
          MaxLimit,           \* bound on collisions_left of one iteration
          MaxPlayouts,        \* bound on the playouts of one search
          MaxCollisions,      \* bound on the collisions held, see Bounded
          MaxMoves,           \* bound on the moves played between searches
          MayClear            \* ClearTree may be used while collisions are shared

\* Results are seen by the player who moved into the node, as in Node.
WhiteWon == 1
Draw     == 0
BlackWon == -1

\* The strict ancestors of every node up to the beginning of the game, and its
\* strict descendants.
Above == LET up[n \in Node] ==
               IF n = Top THEN {} ELSE {Parent[n]} \cup up[Parent[n]]
         IN [n \in Node |-> up[n]]
Below == [n \in Node |-> {x \in Node : n \in Above[x]}]

Kids(n) == {c \in Node \ {Top} : Parent[c] = n}

\* The true result of the game at n.
Truth ==
  LET result[n \in Node] ==
        CASE Ending[n] = "mate" -> WhiteWon
          [] Ending[n] \in {"stalemate", "rule"} -> Draw
          [] OTHER -> -Max({result[c] : c \in Kids(n)})
  IN [n \in Node |-> result[n]]

\* Node numbers grow downwards, and only games without a legal move have no
\* continuation: a draw by rule may be played on if it is the root.
ASSUME TreeAssumption ==
  /\ Node \subseteq Nat /\ IsFiniteSet(Node) /\ Top \in Node
  /\ Parent \in [Node \ {Top} -> Node]
  /\ \A n \in Node \ {Top} : Parent[n] < n
  /\ Ending \in [Node -> {"none", "mate", "stalemate", "rule"}]
  /\ Cycle \in [Node -> Nat]
  /\ \A n \in Node : Kids(n) = {} <=> Ending[n] \in {"mate", "stalemate"}

ASSUME WorkerAssumption ==
  /\ IsFiniteSet(Worker) /\ NoWorker \notin Worker
  /\ OutOfOrder \in BOOLEAN
  /\ MaxLimit \in Nat \ {0} /\ MaxPlayouts \in Nat \ {0}
  /\ MaxCollisions \in Nat /\ MaxMoves \in Nat
  /\ MayClear \in BOOLEAN

VARIABLES
  root,      \* root_node_ of the present search
  initial,   \* initial_visits_
  playouts,  \* total_playouts_
  visits,    \* Node::n_
  inFlight,  \* Node::n_in_flight_
  edges,     \* Node::edges_: the moves known at a node
  status,    \* Node::terminal_type_, lower_bound_, upper_bound_
  shared,    \* shared_collisions_, per node
  lock,      \* the holder of nodes_mutex_
  phase,     \* what each worker is doing
  left,      \* collisions_left of each worker
  limit,     \* collision_limit of its present pick
  todo,      \* visits_to_perform of its present pick
  picked,    \* its visits from new_start on that ProcessPickedTask has to see
  ready,     \* ... and those with ooo_completed set
  batch,     \* its other visits: evaluated by the computation
  fresh,     \* its collisions from new_start on
  collided,  \* its other collisions
  worked     \* number_out_of_order_ > 0, or a visit was backed up

treeVars  == <<root, initial, playouts, visits, edges, status>>
visitVars == <<picked, ready, batch>>
collVars  == <<fresh, collided, shared>>
vars == <<treeVars, inFlight, visitVars, collVars, lock, phase, left, limit,
          todo, worked>>

-----------------------------------------------------------------------------
Nothing == [n \in Node |-> 0]
SumOver(f, S) == MapThenSumSet(LAMBDA n : f[n], S)
Sum(f) == SumOver(f, DOMAIN f)
Add(f, S, k) == [n \in DOMAIN f |-> IF n \in S THEN f[n] + k ELSE f[n]]

\* The ancestors of n inside the search, and with n itself: the nodes that the
\* loops "for (n = node; n != root_node_->GetParent(); n = n->GetParent())" see.
Subtree      == {root} \cup Below[root]
Ancestors(n) == Above[n] \cap Subtree
Path(n)      == {n} \cup Ancestors(n)
Depth(n)     == Cardinality(Ancestors(n))

\* What collisions with the nodes of a bag hold in flight at n.
Held(bag, n) == IF bag = Nothing \/ n \notin Subtree THEN 0
                ELSE SumOver(bag, Below[n])
Release_RootKept(f, bag) ==
  [n \in Node |-> IF n = root THEN f[n] ELSE f[n] - Held(bag, n)]
Release(f, bag) == [n \in Node |-> f[n] - Held(bag, n)]

Leaf_TerminalForgotten(n) == visits[n] = 0
Leaf(n) == visits[n] = 0 \/ status[n].term # "no"

Unknown == [term |-> "no", lo |-> BlackWon, up |-> WhiteWon]

\* Node::MakeTerminal: a two-fold draw says nothing of the true result.
Terminal_TwoFoldSetsBounds(s, result, type) ==
  [term |-> type, lo |-> result, up |-> result]
Terminal(s, result, type) ==
  IF type = "twofold" THEN [s EXCEPT !.term = "twofold"]
  ELSE [term |-> "end", lo |-> result, up |-> result]

\* Node::MakeNotTerminal: the visits of a node that is played on.
PlayedOn(n) == IF edges[n] = {} THEN 0 ELSE 1 + SumOver(visits, edges[n])

\* The visits a two-fold draw leaves behind when the game went past the first
\* of its two occurrences (EnsureNodeTwoFoldCorrectForDepth): 0 if none.
Stale_Never(n) == 0
Stale(n) ==
  IF status[n].term = "twofold" /\ Depth(n) < Cycle[n] THEN visits[n] ELSE 0

\* Node::TryStartScoreUpdate; v are the visits of the node.
MayStart_Always(v, f) == TRUE
MayStart(v, f) == ~(v = 0 /\ f > 0)

-----------------------------------------------------------------------------
\* MaybeSetBounds(p): the bounds of a move follow from those of the replies.
\* "go" is its return value: whether p's parent is to be looked at too.
MaybeSetBounds(st, p) ==
  LET lo == Max({st[c].lo : c \in edges[p]})
      up == Max({st[c].up : c \in edges[p]})
  IN IF lo = BlackWon /\ up = WhiteWon
       THEN [go |-> FALSE, st |-> st]
       ELSE [go |-> TRUE,
             st |-> [st EXCEPT ![p] =
                       IF lo = up THEN Terminal(@, -up, "end")
                       ELSE [@ EXCEPT !.lo = -up, !.up = -lo]]]

\* The statuses after the visit of n has climbed to the root.  The root keeps
\* its status, but the parent of a root that ended the game does not.
Climb(n) ==
  LET next(x) == CHOOSE c \in Path(n) \ {root} : Parent[c] = x
      up[x \in Path(n)] ==
        LET s == IF x # n THEN up[next(x)]
                 ELSE [go |-> status[n].term # "no" /\ visits[n] = 0,
                       st |-> status]
        IN IF x # Top /\ s.go /\ Parent[x] # root
                /\ s.st[Parent[x]].term = "no"
             THEN MaybeSetBounds(s.st, Parent[x])
             ELSE [s EXCEPT !.go = FALSE]
  IN up[root].st

-----------------------------------------------------------------------------
Init ==
  /\ root = Top /\ initial = 0 /\ playouts = 0
  /\ visits = Nothing /\ inFlight = Nothing
  /\ edges = [n \in Node |-> {}]
  /\ status = [n \in Node |-> Unknown]
  /\ shared = Nothing /\ todo = Nothing
  /\ lock = NoWorker
  /\ phase = [w \in Worker |-> "idle"]
  /\ left = [w \in Worker |-> 0] /\ limit = left
  /\ picked = [w \in Worker |-> Nothing]
  /\ ready = picked /\ batch = picked /\ fresh = picked /\ collided = picked
  /\ worked = [w \in Worker |-> FALSE]

\* Visits that are on their way into total_playouts_.
Pending == Sum([w \in Worker |->
                  Sum(picked[w]) + Sum(ready[w]) + Sum(batch[w])])
             + Sum([w \in Worker |-> limit[w]])

\* The bounds of the model.  Without the second one, workers might collide for
\* ever with the visits of a worker that waits for its computation.
Quiet == \A w \in Worker : phase[w] = "idle"
Bounded(k) ==
  /\ playouts + Pending + k <= MaxPlayouts
  /\ \/ Quiet
     \/ Sum(shared) + Sum([w \in Worker |-> Sum(fresh[w]) + Sum(collided[w])])
          + k <= MaxCollisions

\* PickNodesToExtend up to the root of PickNodesToExtendTask, for k visits.
\* At a root that is a leaf only one visit can start, the rest collides with
\* the root, whose collisions hold nothing in flight.
PickFromRoot(w, k) ==
  /\ lock = NoWorker
  /\ Bounded(k)
  /\ limit' = [limit EXCEPT ![w] = k]
  /\ IF Leaf(root)
       THEN /\ LET started == IF MayStart(visits[root], inFlight[root])
                                THEN 1 ELSE 0
               IN /\ inFlight' = Add(inFlight, {root}, started)
                  /\ picked' = [picked EXCEPT ![w][root] = @ + started]
                  /\ fresh' = [fresh EXCEPT ![w][root] = k - started]
            /\ phase' = [phase EXCEPT ![w] = "process"]
            /\ UNCHANGED <<lock, todo>>
       ELSE /\ inFlight' = Add(inFlight, {root}, k)
            /\ todo' = [todo EXCEPT ![root] = k]
            /\ lock' = w
            /\ phase' = [phase EXCEPT ![w] = "pick"]
            /\ UNCHANGED <<picked, fresh>>
  /\ UNCHANGED <<treeVars, ready, batch, collided, shared, worked>>

\* An iteration of RunBlocking starts with GatherMinibatch.
BeginIteration(w) ==
  /\ phase[w] = "idle"
  /\ \E c \in 1..MaxLimit :
       /\ left' = [left EXCEPT ![w] = c]
       /\ \E k \in 1..c : PickFromRoot(w, k)

\* The gathering loop goes round once more.
PickAgain(w) ==
  /\ phase[w] = "gather" /\ left[w] > 0
  /\ \E k \in 1..left[w] : PickFromRoot(w, k)
  /\ UNCHANGED left

\* One round of "while (cur_limit > 0)" in PickNodesToExtendTask: k of the
\* visits due at x go to its child c.  The nodes are taken in the order of
\* their numbers, as different subtrees do not disturb each other.
StartVisits(w, c, k, v) ==
  LET starts == MayStart(v[c], inFlight[c])
      opens  == starts /\ (v[c] = 0 \/ status'[c].term # "no")
  IN /\ inFlight' = IF ~starts THEN inFlight
                    ELSE Add(inFlight, {c}, IF opens THEN 1 ELSE k)
     /\ picked' = [picked EXCEPT ![w][c] = @ + IF opens THEN 1 ELSE 0]
     /\ todo' = [todo EXCEPT ![Parent[c]] = @ - k,
                             ![c] = @ + k - IF opens THEN 1 ELSE 0]
Due == {x \in Node : todo[x] > 0}
PickChild(w) ==
  /\ lock = w /\ phase[w] = "pick" /\ Due # {}
  /\ LET x == Min(Due)
     IN /\ ~Leaf(x)
        /\ \E c \in edges[x], k \in 1..todo[x] :
             LET back == Stale(c)
             IN /\ visits' = Add(visits, Path(c), -back)
                /\ initial' = initial - back
                /\ status' = IF back = 0 THEN status
                             ELSE [status EXCEPT ![c].term = "no"]
                /\ StartVisits(w, c, k, visits')
  /\ UNCHANGED <<root, playouts, edges, ready, batch, collVars, lock, phase,
                 left, limit, worked>>

\* The visits due at a leaf become a collision with it.
Collide(w) ==
  /\ lock = w /\ phase[w] = "pick" /\ Due # {}
  /\ LET x == Min(Due)
     IN /\ Leaf(x)
        /\ fresh' = [fresh EXCEPT ![w][x] = todo[x]]
        /\ todo' = [todo EXCEPT ![x] = 0]
  /\ UNCHANGED <<treeVars, inFlight, visitVars, collided, shared, lock, phase,
                 left, limit, worked>>

EndPick(w) ==
  /\ lock = w /\ phase[w] = "pick" /\ Due = {}
  /\ lock' = NoWorker
  /\ phase' = [phase EXCEPT ![w] = "process"]
  /\ UNCHANGED <<treeVars, inFlight, visitVars, collVars, left, limit, todo,
                 worked>>

-----------------------------------------------------------------------------
\* ExtendNode, without a lock: n becomes terminal or gets its edges.
EndsByPosition(n) == Ending[n] \in {"mate", "stalemate"}
TwoFoldNow(n)     == Cycle[n] > 0 /\ Depth(n) >= Cycle[n]
ExtendNode(n) ==
  IF EndsByPosition(n) \/ (n # root /\ (Ending[n] = "rule" \/ TwoFoldNow(n)))
    THEN /\ status' = [status EXCEPT ![n] =
              IF EndsByPosition(n) \/ Ending[n] = "rule"
                THEN Terminal(@, Truth[n], "end")
                ELSE Terminal(@, Draw, "twofold")]
         /\ UNCHANGED edges
    ELSE /\ edges' = [edges EXCEPT ![n] = Kids(n)]
         /\ UNCHANGED status

\* ProcessPickedTask for one visit.  A cached or terminal node is evaluated at
\* once if out of order evaluation is on; whether a node is cached is a choice.
ProcessPicked(w) ==
  /\ phase[w] = "process" /\ picked[w] # Nothing
  /\ LET n == Min({x \in Node : picked[w][x] > 0})
     IN /\ IF status[n].term = "no" THEN ExtendNode(n)
                                    ELSE UNCHANGED <<status, edges>>
        /\ picked' = [picked EXCEPT ![w][n] = @ - 1]
        /\ \E cached \in BOOLEAN :
             IF OutOfOrder /\ (cached \/ status'[n].term # "no")
               THEN /\ ready' = [ready EXCEPT ![w][n] = @ + 1]
                    /\ UNCHANGED batch
               ELSE /\ batch' = [batch EXCEPT ![w][n] = @ + 1]
                    /\ UNCHANGED ready
  /\ UNCHANGED <<root, initial, playouts, visits, inFlight, collVars, lock,
                 phase, left, limit, todo, worked>>

\* If anything was evaluated out of order, all collisions of this pick are
\* cancelled, under the lock under which those visits are then backed up.
BeginOutOfOrder(w) ==
  /\ phase[w] = "process" /\ picked[w] = Nothing /\ ready[w] # Nothing
  /\ lock = NoWorker /\ lock' = w
  /\ inFlight' = Release(inFlight, fresh[w])
  /\ fresh' = [fresh EXCEPT ![w] = Nothing]
  /\ phase' = [phase EXCEPT ![w] = "outoforder"]
  /\ UNCHANGED <<treeVars, visitVars, collided, shared, left, limit, todo,
                 worked>>

\* DoBackupUpdateSingleNode(n).
BackupVisit(n) ==
  /\ visits' = Add(visits, Path(n), 1)
  /\ inFlight' = Add(inFlight, Path(n), -1)
  /\ status' = Climb(n)
  /\ playouts' = playouts + 1
  /\ UNCHANGED <<root, initial, edges>>

BackupOutOfOrder(w) ==
  /\ lock = w /\ phase[w] = "outoforder"
  /\ \E n \in Node :
       /\ ready[w][n] > 0
       /\ BackupVisit(n)
       /\ ready' = [ready EXCEPT ![w][n] = @ - 1]
  /\ worked' = [worked EXCEPT ![w] = TRUE]
  /\ IF ready'[w] = Nothing
       THEN lock' = NoWorker /\ phase' = [phase EXCEPT ![w] = "tally"]
       ELSE UNCHANGED <<lock, phase>>
  /\ UNCHANGED <<picked, batch, collVars, left, limit, todo>>

\* The end of a round of GatherMinibatch: a single collision that took the
\* whole pick may grow by "extra" towards maxvisit, under the lock.
SoleCollision(w) == \E x \in Node : fresh[w][x] = limit[w]
Tally(w) ==
  /\ \/ phase[w] = "tally"
     \/ phase[w] = "process" /\ picked[w] = Nothing /\ ready[w] = Nothing
  /\ \E extra \in 0..(left[w] - limit[w]) :
       LET grown == IF extra = 0 THEN fresh[w]
                    ELSE [x \in Node |-> IF fresh[w][x] > 0
                                           THEN fresh[w][x] + extra ELSE 0]
       IN /\ extra > 0 => SoleCollision(w) /\ lock = NoWorker
          /\ inFlight' = [n \in Node |-> inFlight[n] + Held(grown, n)
                                                     - Held(fresh[w], n)]
          /\ left' = [left EXCEPT ![w] = @ - Sum(grown)]
          /\ collided' = [collided EXCEPT ![w] =
                            [x \in Node |-> @[x] + grown[x]]]
  /\ fresh' = [fresh EXCEPT ![w] = Nothing]
  /\ limit' = [limit EXCEPT ![w] = 0]
  /\ phase' = [phase EXCEPT ![w] = "gather"]
  /\ UNCHANGED <<treeVars, visitVars, shared, lock, todo, worked>>

\* GatherMinibatch returns and CollectCollisions runs; then the computation.
CollectCollisions(w) ==
  /\ phase[w] = "gather" /\ lock = NoWorker
  /\ shared' = [x \in Node |-> shared[x] + collided[w][x]]
  /\ collided' = [collided EXCEPT ![w] = Nothing]
  /\ left' = [left EXCEPT ![w] = 0]
  /\ phase' = [phase EXCEPT ![w] = "compute"]
  /\ UNCHANGED <<treeVars, inFlight, visitVars, fresh, lock, limit, todo,
                 worked>>

\* DoBackupUpdate: the visits of the batch one after the other, then, if there
\* was any work, all shared collisions are cancelled.
BeginBackup(w) ==
  /\ phase[w] = "compute" /\ lock = NoWorker
  /\ lock' = w
  /\ phase' = [phase EXCEPT ![w] = "backup"]
  /\ UNCHANGED <<treeVars, inFlight, visitVars, collVars, left, limit, todo,
                 worked>>

Backup(w) ==
  /\ lock = w /\ phase[w] = "backup"
  /\ \E n \in Node :
       /\ batch[w][n] > 0
       /\ BackupVisit(n)
       /\ batch' = [batch EXCEPT ![w][n] = @ - 1]
  /\ worked' = [worked EXCEPT ![w] = TRUE]
  /\ UNCHANGED <<picked, ready, collVars, lock, phase, left, limit, todo>>

EndBackup(w) ==
  /\ lock = w /\ phase[w] = "backup" /\ batch[w] = Nothing
  /\ IF worked[w]
       THEN inFlight' = Release(inFlight, shared) /\ shared' = Nothing
       ELSE UNCHANGED <<inFlight, shared>>
  /\ lock' = NoWorker
  /\ phase' = [phase EXCEPT ![w] = "idle"]
  /\ worked' = [worked EXCEPT ![w] = FALSE]
  /\ UNCHANGED <<treeVars, visitVars, fresh, collided, left, limit, todo>>

-----------------------------------------------------------------------------
\* The search ends and the game goes to another position: ResetToPosition replays
\* its moves (MakeMove), which plays on at every terminal node it meets.  Only
\* then is the old Search destroyed, and ~Search cancels its shared collisions:
\* this reaches nodes that were dropped, which nobody sees any more.
LeftBehind(f, bag) == Release(f, bag)
EndSearch(c) ==
  /\ Quiet
  /\ root' = c /\ playouts' = 0 /\ initial' = visits'[c] /\ shared' = Nothing
  /\ UNCHANGED <<visitVars, fresh, collided, lock, phase, left, limit, todo,
                 worked>>
Keep(kept, c) ==
  LET on(n) == n \in ({c} \cup Above[c]) \ {Top} /\ status[n].term # "no"
  IN /\ visits' = [n \in Node |-> IF n \notin kept THEN 0
                                  ELSE IF on(n) THEN PlayedOn(n)
                                  ELSE visits[n]]
     /\ status' = [n \in Node |->
                     IF n \notin kept THEN Unknown
                     ELSE IF on(n) THEN [status[n] EXCEPT !.term = "no"]
                     ELSE status[n]]

\* The game goes on with a move of the old root: the tree below it is reused,
\* its siblings are dropped.  A move from a root without edges makes its edge.
Advance(c) ==
  LET kept == {c} \cup Below[c] \cup Above[c]
  IN /\ c \in Kids(root) /\ (edges[root] = {} \/ c \in edges[root])
     /\ Cardinality(Above[root]) < MaxMoves
     /\ Keep(kept, c)
     /\ edges' = [n \in Node |-> IF n = root /\ edges[n] = {} THEN {c}
                                 ELSE IF n \in kept THEN edges[n] ELSE {}]
     /\ inFlight' = LeftBehind(inFlight, shared)
     /\ EndSearch(c)

\* Moves are taken back: the old head is not met again, so that the new head
\* starts afresh (TrimTreeAtHead).
TakeBack(c) ==
  /\ c \in Above[root]
  /\ Keep(Above[c], c)
  /\ edges' = [n \in Node |-> IF n \in Above[c] THEN edges[n] ELSE {}]
  /\ inFlight' = Nothing
  /\ EndSearch(c)

\* The game goes on and the option ClearTree has the new head start afresh.  With
\* collisions left, ~Search cancels them at the cleared head (README, section 4).
Clear(c) ==
  LET cleared == [n \in Node |-> IF n \in Above[c] THEN inFlight[n] ELSE 0]
  IN /\ MayClear \/ shared = Nothing
     /\ c \in Kids(root) \cap edges[root]
     /\ Cardinality(Above[root]) < MaxMoves
     /\ Keep(Above[c], c)
     /\ edges' = [n \in Node |-> IF n \in Above[c] THEN edges[n] ELSE {}]
     /\ inFlight' = [n \in Node |-> IF n \in {c} \cup Above[c]
                                    THEN LeftBehind(cleared, shared)[n] ELSE 0]
     /\ EndSearch(c)

NextSearch == \E c \in Node : Advance(c) \/ TakeBack(c) \/ Clear(c)

Iterate(w) == BeginIteration(w) \/ PickAgain(w)
Step(w) == \/ PickChild(w) \/ Collide(w) \/ EndPick(w) \/ ProcessPicked(w)
           \/ BackupOutOfOrder(w) \/ Tally(w) \/ Backup(w) \/ EndBackup(w)
Acquire(w) == \/ BeginOutOfOrder(w) \/ CollectCollisions(w) \/ BeginBackup(w)

Next == NextSearch \/ \E w \in Worker : Iterate(w) \/ Step(w) \/ Acquire(w)
Spec == Init /\ [][Next]_vars

\* A search by itself, with the game at rest.  A worker that runs keeps running,
\* and one that keeps finding nodes_mutex_ free gets it.
Search == \E w \in Worker : Iterate(w) \/ Step(w) \/ Acquire(w)
Fairness == \A w \in Worker :
              WF_vars(Step(w)) /\ SF_vars(Iterate(w)) /\ SF_vars(Acquire(w))
SearchSpec == Init /\ [][Search]_vars /\ Fairness

-----------------------------------------------------------------------------
Bags == [Node -> Nat]
\* The counters of a node are unsigned and the bags of a worker never negative.
TypeOK ==
  /\ root \in Node /\ initial \in Nat /\ playouts \in 0..MaxPlayouts
  /\ visits \in Bags /\ inFlight \in Bags
  /\ edges \in [Node -> SUBSET Node]
  /\ status \in [Node -> [term : {"no", "end", "twofold"},
                          lo : BlackWon..WhiteWon, up : BlackWon..WhiteWon]]
  /\ shared \in Bags /\ todo \in Bags
  /\ lock \in Worker \cup {NoWorker}
  /\ phase \in [Worker -> {"idle", "pick", "process", "outoforder", "tally",
                           "gather", "compute", "backup"}]
  /\ left \in [Worker -> 0..MaxLimit] /\ limit \in [Worker -> 0..MaxLimit]
  /\ {picked, ready, batch, fresh, collided} \subseteq [Worker -> Bags]
  /\ worked \in [Worker -> BOOLEAN]

\* The visits all workers hold at n.
Holding(n) == Sum([w \in Worker |-> picked[w][n] + ready[w][n] + batch[w][n]])

\* Virtual loss is neither lost nor forged: what is in flight at a node is
\* exactly the visits held in its subtree and the collisions below it, those of
\* the workers and the shared ones (the TryStartScoreUpdate, IncrementNInFlight,
\* CancelScoreUpdate and FinalizeScoreUpdate calls match).
InFlightAccounted ==
  \A n \in Subtree :
    inFlight[n] = SumOver([x \in Node |-> Holding(x)], {n} \cup Below[n])
                + Held(todo, n) + (IF Leaf(n) THEN 0 ELSE todo[n])
                + Held(shared, n)
                + Sum([w \in Worker |-> Held(fresh[w], n) + Held(collided[w], n)])

\* The visits of an inner node are its own evaluation and those of its
\* children, through backups, two-fold draws taken back and a new root, and the
\* root counts the reused visits and the playouts.
VisitsAccounted ==
  /\ visits[root] = initial + playouts
  /\ \A n \in Subtree :
       visits[n] > 0 /\ status[n].term = "no" =>
         visits[n] = 1 + SumOver(visits, edges[n])

\* A node that was never backed up is held at most once, so that extending it
\* needs no lock (ExtendNode), and nobody has been below it: SortEdges asserts
\* that no child exists when its evaluation arrives.
ExtendedByOne ==
  \A n \in Subtree :
    visits[n] = 0 => /\ Holding(n) <= 1
                     /\ \A c \in Kids(n) : visits[c] = 0 /\ inFlight[c] = 0

\* What the bounds of a node say of the game is true; two-fold draws, which
\* are no result of the game, never enter them.
BoundsAreTrue ==
  \A n \in Subtree :
    /\ status[n].lo <= Truth[n] /\ Truth[n] <= status[n].up
    /\ status[n].term = "end" => status[n].lo = status[n].up

\* A visit counts as a two-fold draw only if both occurrences lie in the search:
\* draws of an earlier search that begin before the root are taken back first.
TwoFoldInsideSearch ==
  \A n \in Subtree :
    status[n].term = "twofold" /\ Holding(n) > 0 => Depth(n) >= Cycle[n]

\* Every playout the limits allow is made, whatever the workers collide with: a
\* leaf that stayed in flight would keep all of them from it, for ever.
AllPlayoutsMade == <>[](playouts = MaxPlayouts /\ Quiet)

\* The tree's books balance in every state: its shape is right, every visit in
\* flight is held by a leaf or a collision, visits add up from children to parents,
\* and nodes are extended by one, whatever was cancelled, cleared, played on or left
\* behind.
TreeInv == TypeOK /\ InFlightAccounted /\ VisitsAccounted /\ ExtendedByOne
===============================================================================
