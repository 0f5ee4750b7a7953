------------------------------ MODULE DagSearch ------------------------------
(***************************************************************************)
(* The search of search/dag_classic: a tree of Nodes whose LowNodes are    *)
(* shared by the moves that lead to the same position.  Workers pick       *)
(* visits under nodes_mutex_, look the new positions up in the             *)
(* transposition table tt_, evaluate the others, and back everything up;   *)
(* the table holds weak pointers, and the garbage collector frees the      *)
(* nodes that the played moves have cut off while a search may find their  *)
(* low nodes in the table.  Between two searches NodeTree plays and takes  *)
(* back moves.                                                             *)
(*                                                                         *)
(* The game is a finite graph; which move is picked, and whether the       *)
(* values of a node and its low node differ enough to stop there, is any   *)
(* choice.  Whether a position occurs for the third time is a matter of    *)
(* the path it is reached by, and no part of the low node that all paths   *)
(* share.  A second time is left out: it changes values, and what of them  *)
(* is put right (n_to_fix), but not where visits stop.  Sticky endgames    *)
(* and out of order evaluation are on, as by default.  A child that was    *)
(* not spawned is a Node that was never started.                           *)
(***************************************************************************)
EXTENDS Integers, SequencesExt

CONSTANTS Position,           \* boards with the plies since the last capture
                              \* or pawn move
          Board,              \* their boards alone, which may repeat
          Starts,             \* the positions in which a game may start
          Reply, Ending,      \* the moves, and how the game ends, if it does
          Worker, NoWorker,
          MaxBatch,           \* bound on the visits of a minibatch
          MaxCollisions,      \* bound on the collisions of one
          MaxPlayouts,        \* bound on the playouts of all searches
          MaxSearches,        \* bound on the searches
          MaxMoves,           \* bound on the moves of a game
          MayClear            \* the option ClearTree may be used

\* Results are seen by the player who moved into a Node, and by the player who
\* is to move in a LowNode.
WhiteWon == 1
Draw     == 0
BlackWon == -1

\* The games that follow from a position, the longest of them.
Height == LET height[p \in Position] ==
                IF Reply[p] = {} THEN 0
                ELSE 1 + Max({height[q] : q \in Reply[p]})
          IN height

\* The positions differ along every path, their boards need not.
ASSUME GraphAssumption ==
  /\ IsFiniteSet(Position) /\ Starts \subseteq Position /\ Starts # {}
  /\ Reply \in [Position -> SUBSET Position]
  /\ Ending \in [Position -> {"none", "mate", "stalemate", "rule"}]
  /\ DOMAIN Board = Position
  /\ \A p \in Position : Height[p] \in Nat /\ \A q \in Reply[p] : Height[q] < Height[p]
  /\ \A p \in Position : Reply[p] = {} <=> Ending[p] \in {"mate", "stalemate"}

ASSUME SearchAssumption ==
  /\ IsFiniteSet(Worker) /\ NoWorker \notin Worker
  /\ {MaxBatch, MaxCollisions, MaxPlayouts, MaxSearches,
      MaxMoves} \subseteq Nat
  /\ MayClear \in BOOLEAN

VARIABLES
  low,       \* the LowNodes that exist, and under Tree the first Node
  failed,    \* the assertions of the code that did not hold
  astray,    \* a visit went on below what the game had gone by (Stray)
  trash,     \* the low nodes of the Nodes given to the garbage collector
  tt,        \* tt_: the low nodes found by their hash, without expired ones
  start,     \* where the game of the NodeTree starts
  moves,     \* NodeTree::moves_, as positions
  head,      \* current_head_ and root_node_
  initial,   \* initial_visits_
  playouts,  \* total_playouts_
  earlier,   \* the playouts of the earlier searches
  searches,  \* the searches so far
  stage,     \* a position is to be set, was set, or a search has threads
  lock,      \* the holder of nodes_mutex_
  phase,     \* what each worker is doing
  fresh,     \* the visits of its present pick
  bumps,     \* the paths of the collisions of its present pick
  batch,     \* its other visits
  collided   \* those of its other collisions

gameVars   == <<start, moves, head, searches, stage>>
countVars  == <<initial, playouts, earlier, astray>>
heapVars   == <<low, trash, tt, failed>>
workerVars == <<fresh, bumps, batch, collided>>
vars == <<gameVars, countVars, heapVars, workerVars, lock, phase>>

-----------------------------------------------------------------------------
Tree  == 0
NoLow == -1

\* rep: repetition_, off: the value wl_ of a terminal Node is no longer its
\* result.
NewNode == [n |-> 0, flight |-> 0, term |-> FALSE, rep |-> FALSE, off |-> FALSE,
            lo |-> BlackWon, up |-> WhiteWon, low |-> NoLow]
\* single: made with the one move that was played, and not for a visit.
NewLow(p, repetitions, moves_, single_) ==
  [pos |-> p, reps |-> repetitions,
   n |-> 0, parents |-> 0, term |-> FALSE, single |-> single_,
   lo |-> BlackWon, up |-> WhiteWon, edges |-> moves_,
   kids |-> [q \in Position |-> NewNode]]

\* A Node is known by the low node that owns it and the position it leads to.
At(h, a) == h[a[1]].kids[a[2]]
WithNode(h, a, x) == [h EXCEPT ![a[1]].kids[a[2]] = x]
NodesOf(h) == {a \in (DOMAIN h) \X Position : a[2] \in h[a[1]].edges}
First(p) == <<Tree, p>>
EmptyTable == [hash \in {} |-> NoLow]
NextAt(h, a, q) == <<At(h, a).low, q>>

Put(f, x, y) == [z \in DOMAIN f \cup {x} |-> IF z = x THEN y ELSE f[z]]
NewId(h) == Min((0..Cardinality(DOMAIN h)) \ DOMAIN h)

\* The Nodes that point to low node i: those of the graph, and of the trash.
Owners(s, i) ==
  Cardinality({a \in NodesOf(s.low) : At(s.low, a).low = i})
    + IF i \in DOMAIN s.trash THEN s.trash[i] ELSE 0

\* The visits whose tt_low_node is i.
Users(i) == UNION {{v \in fresh[w] \cup batch[w] : v.hit = i} : w \in Worker}

\* The moves gone of low node i are given to the garbage collector.
TrashWith(s, i, gone) == s.trash (+) SetToBag({s.low[i].kids[q].low : q \in gone} \ {NoLow})

\* Low node i is destroyed.
Freed(s, i) ==
  [s EXCEPT !.low = [j \in DOMAIN s.low \ {i} |-> s.low[j]],
            !.trash = TrashWith(s, i, s.low[i].edges),
            !.tt = Restrict(s.tt, {hash \in DOMAIN s.tt : s.tt[hash] # i})]

\* As Drop below, but a low node that is still shared is not told.
Drop_NotTold(s, i) ==
  IF Owners(s, i) > 0 \/ Users(i) # {} THEN s
  ELSE Freed(s, i)

\* What a Node lets go of when it is destroyed or trimmed: if it was the last
\* to share low node i, the children of that go to the garbage collector.
Drop(s, i) ==
  IF Owners(s, i) > 0 \/ Users(i) # {}
    THEN [s EXCEPT !.low[i].parents = @ - 1]
    ELSE Freed(s, i)

\* The assertions of the code are evaluated, and the code goes on.
Broken(what, holds) == IF holds THEN {} ELSE {what}

\* Node::SetLowNode.
SetLowNode(s, a, i) ==
  LET x == At(s.low, a)
      h == [s.low EXCEPT ![i].parents = @ + 1]
  IN [s EXCEPT !.low = WithNode(h, a, [x EXCEPT !.low = i]),
               !.failed = @ \cup Broken("no low node", x.low = NoLow)]

Heap == [low |-> low, trash |-> trash, tt |-> tt, failed |-> failed]
Becomes(s) == low' = s.low /\ trash' = s.trash /\ tt' = s.tt /\ failed' = s.failed

-----------------------------------------------------------------------------
\* NodeTree.

\* Node::Trim of the head.
Trim(s, a) ==
  LET i == At(s.low, a).low
      t == [s EXCEPT !.low = WithNode(@, a, NewNode)]
  IN IF i = NoLow THEN t ELSE Drop(t, i)

\* Node::MakeNotTerminal and that of its low node, which counts the visits of
\* its children again.
MakeNotTerminal(s, a) ==
  LET x == At(s.low, a)
      i == x.low
      n == MapThenSumSet(LAMBDA q : s.low[i].kids[q].n, s.low[i].edges)
      l == IF ~s.low[i].term THEN s.low[i]
           ELSE [s.low[i] EXCEPT !.term = FALSE, !.n = n,
                                 !.lo = BlackWon, !.up = WhiteWon]
  IN IF i = NoLow THEN [s EXCEPT !.low = WithNode(@, a, NewNode)]
     ELSE [s EXCEPT
             !.low = WithNode([s.low EXCEPT ![i] = l], a,
                              [x EXCEPT !.term = FALSE, !.rep = FALSE, !.off = FALSE,
                                        !.n = l.n, !.lo = -l.up, !.up = -l.lo]),
             !.failed = @ \cup Broken("still visited", s.low[i].term => n > 0)]

\* ReleaseChildrenExceptOne(q): the other children go to the collector.
ReleaseExcept(s, i, q) ==
  LET gone == s.low[i].edges \ {q}
  IN [s EXCEPT !.trash = TrashWith(s, i, gone),
               !.low[i].kids = [x \in Position |->
                                  IF x \in gone THEN NewNode ELSE @[x]]]

\* Node::CreateSingleChildNode: a low node that is still there, against what it
\* asserts, is let go, but goes on counting the Node as its parent.
CreateSingleChildNode(s, a, q) ==
  LET i == NewId(s.low)
      x == At(s.low, a)
      h == Put(s.low, i, NewLow(a[2], 0, {q}, TRUE))
      t == [s EXCEPT !.low = WithNode(h, a, [x EXCEPT !.low = NoLow]),
                     !.failed = @ \cup Broken("no edges", x.low = NoLow)]
      u == SetLowNode(t, a, i)
  IN IF x.low = NoLow THEN u
     ELSE Drop([u EXCEPT !.low[x.low].parents = @ + 1], x.low)

\* MakeMove of the NodeTree t: known moves keep what was found, others start
\* afresh.
MakeMove(t, q) ==
  LET s == t.heap
      a == t.head
      i == At(s.low, a).low
      known == i # NoLow /\ q \in s.low[i].edges
      open  == IF known /\ s.low[i].kids[q].term
                 THEN MakeNotTerminal(s, <<i, q>>) ELSE s
      cut   == IF i # NoLow THEN ReleaseExcept(open, i, q) ELSE open
      made  == IF known THEN cut ELSE CreateSingleChildNode(cut, a, q)
      next  == NextAt(made.low, a, q)
  IN [heap |-> made, head |-> next, seen |-> t.seen \/ next = head]

\* ResetToPosition: the moves of a game that starts at p.  Another start, or a
\* head that the moves do not come by, leaves nothing of the old head.
Deallocate(s) ==
  [s EXCEPT !.trash = TrashWith(s, Tree, {start}),
            !.low[Tree].kids = [q \in Position |-> NewNode]]

ResetToPosition(p, ms) ==
  LET begun == [heap |-> IF p = start THEN Heap ELSE Deallocate(Heap),
                head |-> First(p), seen |-> p = start /\ head = First(p)]
      played[k \in 0..Len(ms)] ==
        IF k = 0 THEN begun ELSE MakeMove(played[k - 1], ms[k])
      end == played[Len(ms)]
  IN [heap |-> IF end.seen THEN end.heap ELSE Trim(end.heap, end.head),
      head |-> end.head]

-----------------------------------------------------------------------------
Idle == \A w \in Worker : phase[w] = "idle"

Init ==
  /\ low = Tree :> NewLow(NoLow, 0, Position, FALSE)
  /\ trash = EmptyBag /\ failed = {} /\ astray = FALSE
  /\ tt = EmptyTable
  /\ start \in Starts /\ moves = <<>> /\ head = First(start)
  /\ initial = 0 /\ playouts = 0 /\ earlier = 0 /\ searches = 0 /\ stage = "over"
  /\ lock = NoWorker
  /\ phase = [w \in Worker |-> "idle"]
  /\ fresh = [w \in Worker |-> {}] /\ batch = fresh
  /\ bumps = [w \in Worker |-> <<>>] /\ collided = bumps

\* The games that a position command may name.
Games ==
  UNION {{g \in [1..n -> Position] :
            g[1] \in Starts /\ \A k \in 2..n : g[k] \in Reply[g[k - 1]]} :
           n \in 1..(MaxMoves + 1)}

SetPosition ==
  /\ stage = "over" /\ searches < MaxSearches
  /\ stage' = "set"
  /\ \E g \in Games :
       LET p == Head(g)
           ms == Tail(g)
           s == ResetToPosition(p, ms)
       IN /\ Becomes(s.heap)
          /\ start' = p /\ moves' = ms /\ head' = s.head
  /\ UNCHANGED <<searches, countVars, workerVars, lock, phase>>

\* NewGame: the table is cleared and the tree destroyed.
NewGame ==
  /\ stage = "over" /\ searches < MaxSearches /\ searches > 0
  /\ Becomes([Deallocate(Heap) EXCEPT !.tt = EmptyTable])
  /\ moves' = <<>> /\ head' = First(start)
  /\ UNCHANGED <<start, searches, stage, countVars, workerVars, lock, phase>>

\* StartSearch and the constructor of Search, whose removal of expired entries
\* from the table cannot be told.
StartSearch ==
  /\ stage = "set"
  /\ \E clear \in IF MayClear THEN BOOLEAN ELSE {FALSE} :
       LET s == IF clear THEN Trim(Heap, head) ELSE Heap
       IN Becomes(s) /\ initial' = At(s.low, head).n
  /\ playouts' = 0 /\ earlier' = earlier + playouts /\ UNCHANGED astray
  /\ stage' = "search" /\ searches' = searches + 1
  /\ UNCHANGED <<start, moves, head, workerVars, lock, phase>>

\* Stop or Abort, and Wait.
EndSearch ==
  /\ stage = "search" /\ Idle
  /\ stage' = "over"
  /\ UNCHANGED <<start, moves, head, searches, countVars, heapVars, workerVars,
                 lock, phase>>

\* The garbage collector destroys a Node.  What it does between two searches
\* can as well be done at the beginning of the next one.
Collect ==
  /\ stage = "search"
  /\ \E i \in BagToSet(trash) :
       Becomes(Drop([Heap EXCEPT !.trash = @ (-) SetToBag({i})], i))
  /\ UNCHANGED <<gameVars, countVars, workerVars, lock, phase>>

-----------------------------------------------------------------------------
\* PickNodesToExtendTask.

\* GetRepetitions of the position that a path leads to: how often its board was
\* there before, in the game and on the path.
Repetitions(path) ==
  LET line == <<start>> \o moves \o [k \in 1..(Len(path) - 1) |-> path[k + 1][2]]
  IN Cardinality({k \in 1..(Len(line) - 1) : Board[line[k]] = Board[Last(line)]})
IsThird(path) == Len(path) > 1 /\ Repetitions(path) >= 2

\* HashLast: the repetitions of the last position count, those before it do not.
Hash(path) == <<Last(path)[2], Repetitions(path)>>
Found(hash) == IF hash \in DOMAIN tt THEN tt[hash] ELSE NoLow

IsTransposition(i) == low[i].parents > 1

\* ShouldStopPickingHere: visits end here, may end here, or go on.
Ends(path) ==
  LET x == At(low, Last(path))
  IN \/ x.n = 0 \/ x.term
     \/ IsThird(path)
     \/ /\ Len(path) > 1
        /\ IsTransposition(x.low)
        /\ \/ low[x.low].term
           \/ low[x.low].lo # -x.up \/ low[x.low].up # -x.lo
MayEnd(path) ==
  Ends(path) \/ (Len(path) > 1 /\ IsTransposition(At(low, Last(path)).low))

\* The ways from the root to where a visit may end.
Ways ==
  LET longest == Height[head[2]]
      ways[k \in 0..longest] ==
        IF k = 0 THEN {<<head>>}
        ELSE LET shorter == ways[k - 1]
             IN shorter \cup
                  UNION {{Append(path, NextAt(low, Last(path), q)) :
                            q \in low[At(low, Last(path)).low].edges} :
                           path \in {path \in shorter : ~Ends(path)}}
  IN {path \in ways[longest] : MayEnd(path)}

\* The nodes of a path have k more visits in flight.
Fly(h, path, k) ==
  [i \in DOMAIN h |->
     [h[i] EXCEPT !.kids =
        [q \in Position |-> LET x == h[i].kids[q]
                             IN IF <<i, q>> \in Range(path)
                                  THEN [x EXCEPT !.flight = x.flight + k] ELSE x]]]

\* TryStartScoreUpdate.
MayStart(a) == ~(At(low, a).n = 0 /\ At(low, a).flight > 0)

EndsByRule(a) ==
  \/ Ending[a[2]] \in {"mate", "stalemate"}
  \/ Ending[a[2]] = "rule" /\ a # head
Result(q) == IF Ending[q] = "mate" THEN WhiteWon ELSE Draw
\* As ExtendNode below, but a Node that has a low node already, and ends there
\* as a transposition, is looked up again.
ExtendNode_SharedAgain(h, path) ==
  LET a == Last(path)
      x == At(h, a)
      visit(from, i) == [path |-> path, from |-> from, hit |-> i]
  IN IF x.term
       THEN {[low |-> h, visit |-> visit("known", NoLow)]}
     ELSE IF EndsByRule(a)
       THEN {[low |-> WithNode(h, a, [x EXCEPT !.term = TRUE, !.lo = Result(a[2]),
                                               !.up = Result(a[2])]),
              visit |-> visit("known", NoLow)]}
     ELSE IF Found(Hash(path)) # NoLow
       THEN {[low |-> h, visit |-> visit("table", Found(Hash(path)))]}
     ELSE {[low |-> h, visit |-> visit(from, NoLow)] : from \in {"cache", "net"}}

\* ExtendNode for a visit along path: how it will be evaluated.  A node that
\* ends the game is not.
ExtendNode(h, path) ==
  LET a == Last(path)
      x == At(h, a)
      visit(from, i) == [path |-> path, from |-> from, hit |-> i]
  IN IF x.term \/ x.low # NoLow
       THEN {[low |-> h, visit |-> visit("known", NoLow)]}
     ELSE IF EndsByRule(a)
       THEN {[low |-> WithNode(h, a, [x EXCEPT !.term = TRUE, !.lo = Result(a[2]),
                                               !.up = Result(a[2])]),
              visit |-> visit("known", NoLow)]}
     ELSE IF Found(Hash(path)) # NoLow
       THEN {[low |-> h, visit |-> visit("table", Found(Hash(path)))]}
     ELSE {[low |-> h, visit |-> visit(from, NoLow)] : from \in {"cache", "net"}}

Visits(w) == Cardinality(fresh[w]) + Cardinality(batch[w])
AllVisits == MapThenSumSet(Visits, Worker)

\* One visit, or one of the visits that collide: with a node that is being
\* extended, or with one where a visit of this pick has ended.
Visit(w, path) ==
  /\ MayStart(Last(path))
  /\ Visits(w) < MaxBatch /\ earlier + playouts + AllVisits < MaxPlayouts
  /\ \A v \in fresh[w] \cup batch[w] : v.path # path
  /\ \E e \in ExtendNode(Fly(low, path, 1), path) :
       /\ low' = e.low
       /\ fresh' = [fresh EXCEPT ![w] = @ \cup {e.visit}]
  /\ UNCHANGED bumps
Collide(w, path) ==
  /\ \/ ~MayStart(Last(path))
     \/ \E v \in fresh[w] : v.path = path
  /\ Len(bumps[w]) + Len(collided[w]) < MaxCollisions
  /\ low' = Fly(low, Front(path), 1)
  /\ bumps' = [bumps EXCEPT ![w] = Append(@, path)]
  /\ UNCHANGED fresh

\* GatherMinibatch takes nodes_mutex_ and picks, several times.
Pick(w) ==
  /\ stage = "search"
  /\ \/ phase[w] = "idle" /\ lock = NoWorker
     \/ phase[w] \in {"pick", "gather"}
  /\ lock' = w
  /\ phase' = [phase EXCEPT ![w] = "pick"]
  /\ \E path \in Ways : Visit(w, path) \/ Collide(w, path)
  /\ UNCHANGED <<trash, tt, failed, gameVars, countVars, batch, collided>>

\* If a visit needs no evaluation, the collisions of the pick are cancelled: of
\* those only the nodes before the last are in flight.
Over(a, paths) == {k \in DOMAIN paths : a \in Range(Front(paths[k]))}
Release(h, paths) ==
  [i \in DOMAIN h |->
     [h[i] EXCEPT !.kids =
        [q \in Position |->
           LET x == h[i].kids[q]
           IN [x EXCEPT !.flight = x.flight - Cardinality(Over(<<i, q>>, paths))]]]]

OutOfOrder(w) == {v \in fresh[w] : v.from # "net"}

EndPick(w) ==
  /\ phase[w] = "pick"
  /\ IF OutOfOrder(w) # {}
       THEN /\ low' = Release(low, bumps[w])
            /\ phase' = [phase EXCEPT ![w] = "outoforder"]
            /\ UNCHANGED <<fresh, batch, collided>>
       ELSE /\ batch' = [batch EXCEPT ![w] = @ \cup fresh[w]]
            /\ fresh' = [fresh EXCEPT ![w] = {}]
            /\ collided' = [collided EXCEPT ![w] = @ \o bumps[w]]
            /\ phase' = [phase EXCEPT ![w] = "gather"]
            /\ UNCHANGED low
  /\ bumps' = [bumps EXCEPT ![w] = <<>>]
  /\ UNCHANGED <<trash, tt, failed, gameVars, countVars, lock>>

Gathered(w) == IF batch[w] = {} THEN "idle" ELSE "compute"
EndGather(w) ==
  /\ phase[w] = "gather"
  /\ lock' = NoWorker
  /\ phase' = [phase EXCEPT ![w] =
                 IF collided[w] = <<>> THEN Gathered(w) ELSE "cancel"]
  /\ UNCHANGED <<heapVars, gameVars, countVars, workerVars>>

\* CancelCollisions, after the lock was left.
CancelCollisions(w) ==
  /\ phase[w] = "cancel"
  /\ low' = Release(low, collided[w])
  /\ collided' = [collided EXCEPT ![w] = <<>>]
  /\ phase' = [phase EXCEPT ![w] = Gathered(w)]
  /\ UNCHANGED <<trash, tt, failed, gameVars, countVars, fresh, bumps, batch, lock>>

-----------------------------------------------------------------------------
\* DoBackupUpdateSingleNode.

\* A position was evaluated: its low node enters the table.
WithEvaluated(i, hash) ==
  [Heap EXCEPT !.low = Put(low, i, NewLow(hash[1], hash[2], Reply[hash[1]], FALSE)),
               !.tt = Put(@, hash, i)]

\* As Attach below, but two workers that evaluate a position at once each keep
\* their own low node.
Attach_Twice(v) ==
  LET a == Last(v.path)
      i == NewId(low)
  IN CASE v.from = "known" -> Heap
       [] v.from = "table" -> SetLowNode(Heap, a, v.hit)
       [] OTHER -> SetLowNode(WithEvaluated(i, Hash(v.path)), a, i)

\* The low node of the visited Node: its own evaluation enters the table unless
\* another one came first.
Attach(v) ==
  LET a == Last(v.path)
      i == NewId(low)
      known == Found(Hash(v.path))
  IN CASE v.from = "known" -> Heap
       [] v.from = "table" -> SetLowNode(Heap, a, v.hit)
       [] OTHER -> IF known # NoLow THEN SetLowNode(Heap, a, known)
                   ELSE SetLowNode(WithEvaluated(i, Hash(v.path)), a, i)

SetBounds(x, lo, up, term) == [x EXCEPT !.lo = lo, !.up = up, !.term = term]

\* What follows works on a record of the low nodes, the assertions that failed,
\* update_parent_bounds (go), and n_to_fix (fix).

\* MaybeAdjustForTerminalOrTransposition: a takes what its low node knows.
Adjust(s, a) ==
  LET x == At(s.low, a)
      l == s.low[x.low]
  IN IF x.term \/ ~(l.parents > 1 \/ l.term \/ x.n < l.n) THEN s
     ELSE [s EXCEPT !.low = WithNode(@, a, SetBounds(x, -l.up, -l.lo, l.term)),
                    !.fix = x.n,
                    !.go = @ \/ l.term]

\* The low node i of the Node a gets the bounds lo and up.
Bounded(s, a, lo, up) ==
  LET x == At(s.low, a)
      h == [s.low EXCEPT ![x.low] = SetBounds(@, lo, up, lo = up)]
  IN IF lo = BlackWon /\ up = WhiteWon THEN [s EXCEPT !.go = FALSE]
     ELSE [s EXCEPT !.low = WithNode(h, a, SetBounds(x, -up, -lo, lo = up)),
                    !.fix = IF lo = up THEN x.n ELSE @,
                    !.failed = @ \cup Broken("was visited", lo = up => x.n > 0)]

\* MaybeSetBounds: the bounds of a low node follow from those of its moves.
MaybeSetBounds(s, a) ==
  LET l == s.low[At(s.low, a).low]
  IN Bounded(s, a, Max({l.kids[q].lo : q \in l.edges}), Max({l.kids[q].up : q \in l.edges}))

\* FinalizeScoreUpdate and AdjustForTerminal of the Node a, and of its owner,
\* the low node of the Node before.
CountVisit(s, a) ==
  LET x == At(s.low, a)
      y == [x EXCEPT !.n = @ + 1, !.flight = @ - 1]
  IN [s EXCEPT !.low = WithNode(@, a, y),
               !.fix = IF x.rep THEN 0 ELSE @,
               !.failed = @ \cup Broken("in flight", x.flight > 0)
                            \cup Broken("enough visits", x.term \/ s.fix <= x.n + 1)]
CountInOwner(s, a, p) ==
  LET l == s.low[a[1]]
      x == At(s.low, p)
      fix == IF l.term THEN 0 ELSE s.fix
  IN [s EXCEPT !.low[a[1]].n = @ + 1, !.fix = fix,
               !.failed = @ \cup Broken("same bounds",
                                       x.term => l.term /\ x.lo = -l.up /\ x.up = -l.lo)
                            \cup Broken("same result", ~x.off)
                            \cup Broken("enough visits", fix <= l.n + 1)]

\* What the game has gone by without a search of it: the low node has one move
\* only, or the Node lost its draw by rule when it was the root.
Stray(a) == a # head /\ (Ending[a[2]] = "rule" \/ low[At(low, a).low].single)

\* The visit is counted in the Node a, and the Node p before it takes part.
Rise(s, a, p) ==
  LET t == CountInOwner(CountVisit(s, a), a, p)
  IN Adjust(IF t.go /\ p # head /\ ~t.low[a[1]].term
              THEN MaybeSetBounds(t, p) ELSE [t EXCEPT !.go = FALSE], p)

\* As ThirdTime below, but the Node becomes a draw for every path.
ThirdTime_Terminal(s, a) ==
  LET x == At(s.low, a)
  IN IF x.term THEN s
     ELSE [s EXCEPT !.low = WithNode(@, a, [x EXCEPT !.rep = TRUE, !.term = TRUE,
                                                     !.lo = Draw, !.up = Draw]),
                    !.go = TRUE]

\* A third repetition is a draw on this path only: it gives the Node no bounds,
\* though a terminal one loses the value of its result.
ThirdTime(s, a) ==
  LET x == At(s.low, a)
  IN [s EXCEPT !.low = WithNode(@, a, [x EXCEPT !.rep = TRUE,
                                                !.off = @ \/ (x.term /\ x.lo # Draw)])]

\* The visit climbs from the end of the path to the root.
Climb(s, path) ==
  LET leaf == Last(path)
      x == At(s.low, leaf)
      known == IF x.low # NoLow /\ s.low[x.low].n = 0
                 THEN [s.low EXCEPT ![x.low].n = 1] ELSE s.low
      begun == [low |-> known, failed |-> s.failed,
                go |-> x.term /\ x.n = 0, fix |-> 0]
      risen[k \in 0..(Len(path) - 1)] ==
        IF k = 0 THEN IF IsThird(path) THEN ThirdTime(begun, leaf)
                      ELSE Adjust(begun, leaf)
        ELSE Rise(risen[k - 1], path[Len(path) - k + 1], path[Len(path) - k])
  IN CountVisit(risen[Len(path) - 1], path[1])

Backup(v) ==
  LET s == Attach(v)
      t == Climb(s, v.path)
  IN /\ low' = t.low /\ trash' = s.trash /\ tt' = s.tt /\ failed' = t.failed
     /\ playouts' = playouts + 1
     /\ astray' = (astray \/ \E k \in 1..(Len(v.path) - 1) : Stray(v.path[k]))
     /\ UNCHANGED <<initial, earlier>>

\* The visits that need no evaluation are backed up during the gathering.
BackupOutOfOrder(w) ==
  /\ phase[w] = "outoforder"
  /\ \E v \in OutOfOrder(w) :
       /\ Backup(v)
       /\ IF OutOfOrder(w) # {v}
            THEN /\ fresh' = [fresh EXCEPT ![w] = @ \ {v}]
                 /\ UNCHANGED <<batch, phase>>
            ELSE /\ fresh' = [fresh EXCEPT ![w] = {}]
                 /\ batch' = [batch EXCEPT ![w] = @ \cup (fresh[w] \ {v})]
                 /\ phase' = [phase EXCEPT ![w] = "gather"]
  /\ UNCHANGED <<gameVars, bumps, collided, lock>>

\* DoBackupUpdate, under the lock.
BackupBatch(w) ==
  /\ \/ phase[w] = "compute" /\ lock = NoWorker
     \/ phase[w] = "backup"
  /\ \E v \in batch[w] :
       /\ Backup(v)
       /\ batch' = [batch EXCEPT ![w] = @ \ {v}]
       /\ lock' = IF batch[w] = {v} THEN NoWorker ELSE w
       /\ phase' = [phase EXCEPT ![w] =
                      IF batch[w] = {v} THEN "idle" ELSE "backup"]
  /\ UNCHANGED <<gameVars, fresh, bumps, collided>>

Next ==
  \/ SetPosition \/ NewGame \/ StartSearch \/ EndSearch \/ Collect
  \/ \E w \in Worker :
       \/ Pick(w) \/ EndPick(w) \/ BackupOutOfOrder(w) \/ EndGather(w)
       \/ CancelCollisions(w) \/ BackupBatch(w)

Spec == Init /\ [][Next]_vars

-----------------------------------------------------------------------------
LowNodes == DOMAIN low \ {Tree}
NodeAddr == NodesOf(low)
Items == UNION {fresh[w] \cup batch[w] : w \in Worker}

\* Everything has its shape, and no pointer dangles, those of the table, which
\* does not own what it finds, included.
TypeOK ==
  /\ \A i \in LowNodes : low[i].pos \in Position /\ low[i].n \in Nat
                          /\ low[i].parents \in Nat
  /\ \A a \in NodeAddr : /\ At(low, a).n \in Nat /\ At(low, a).flight \in Nat
                         /\ At(low, a).low \in LowNodes \cup {NoLow}
  /\ \A hash \in DOMAIN tt : /\ tt[hash] \in LowNodes
                              /\ hash = <<low[tt[hash]].pos, low[tt[hash]].reps>>
  /\ \A v \in Items : v.hit \in LowNodes \cup {NoLow}
  /\ head \in NodeAddr

\* Virtual loss: a Node is in flight once for every visit and collision that
\* runs over it, so that nothing is left when the threads have ended, whatever
\* was cancelled and whichever path a shared node was reached by.
VisitsOver(a) ==
  UNION {{<<w, v>> : v \in {v \in fresh[w] \cup batch[w] : a \in Range(v.path)}} : w \in Worker}
CollisionsOver(a, held) == UNION {{<<w, k>> : k \in Over(a, held[w])} : w \in Worker}
InFlightAccounted ==
  \A a \in NodeAddr :
    At(low, a).flight = Cardinality(VisitsOver(a)) + Cardinality(CollisionsOver(a, bumps))
                          + Cardinality(CollisionsOver(a, collided))

\* num_parents_ is the number of Nodes that share the low node, those that wait
\* for the garbage collector included: IsTransposition, and with it where
\* visits stop, rests on it.
ParentsCounted ==
  \A i \in LowNodes : low[i].parents = Owners(Heap, i)

\* Where the search can come, a position that has occurred so many times has one
\* low node, though two workers may have evaluated it at once, and though the
\* head may be a Node of an earlier search.
Searched ==
  LET deepest == Height[head[2]]
      below[k \in 0..deepest] ==
        IF k = 0 THEN {head}
        ELSE LET above == below[k - 1]
             IN above \cup
                  UNION {{NextAt(low, a, q) : q \in low[At(low, a).low].edges} :
                           a \in {a \in above : At(low, a).low # NoLow}}
  IN below[deepest]
OneLowNodePerPosition ==
  LET seen == {At(low, a).low : a \in Searched} \ {NoLow}
  IN \A i, j \in {i \in seen : ~low[i].single} :
       low[i].pos = low[j].pos /\ low[i].reps = low[j].reps => i = j

\* The bounds of a low node are the same for every path that shares it, and
\* depend on none: they hold the result of best play below it in which the rule
\* of fifty moves is a draw and no repetition is, whichever paths the third
\* repetitions were met on, and a terminal one is decided.  (On a path where the
\* best play would repeat for the third time, the game may be drawn against them.)
Truth ==
  LET truth[p \in Position] ==
        Max({IF Ending[q] = "none" THEN -truth[q] ELSE Result(q) : q \in Reply[p]})
  IN truth
BoundsAreTrue ==
  ~astray => \A i \in LowNodes : low[i].edges = Reply[low[i].pos] =>
    LET t == Truth[low[i].pos]
    IN /\ low[i].lo <= t /\ t <= low[i].up
       /\ low[i].term => low[i].lo = low[i].up

\* The assertions of node.cc, node.h and search.cc hold: a Node gets a low node
\* once, one that is decided by its moves was visited, visits end where they are
\* in flight, and a terminal Node has the bounds of its low node.  Four need not:
\* three because a low node outlives the head that was trimmed, and that the two
\* have one value ("same result", asserted with the bounds), because a terminal
\* Node takes a draw when another path comes to it as a third repetition, and
\* visits that were picked before may still be below it.
AssertionsHold ==
  failed \subseteq {"enough visits", "no edges", "still visited", "same result"}

\* AdjustForTerminal asserts that a node has at least the visits of which it
\* changes the values; n_ is what the sums of values are divided by.
AdjustsWhatItCounts == "enough visits" \notin failed

\* A search's playouts are the visits that its root has got since it began.
PlayoutsCounted == stage = "search" => At(low, head).n = initial + playouts

\* The graph's books balance: no pointer dangles, visits in flight, parents and
\* playouts come out even, whatever was shared, cancelled, trimmed or freed.
GraphInv == TypeOK /\ InFlightAccounted /\ ParentsCounted /\ PlayoutsCounted
=============================================================================
