# A TLA+ model of lc0 (leela-chess-zero with the Chessformer and Maia work)

This directory holds the formal model of the engine whose sources are in this
repository: TLA+ modules, TLC configurations that check them on small
instances, and TLAPS proofs of the properties that matter most.  Paths below
are relative to `src/src/`, the directory of the C++ sources.

## 1. Inventory: the system and its hard parts

lc0 is a multi-threaded Monte-Carlo tree search driven over UCI.  A command
thread reads UCI, an `Engine` owns one `SearchBase`, a search owns a watchdog
thread and several worker threads, each worker may own task threads, all workers
share one game tree under one reader/writer mutex and one neural network backend
with a cache in front of it.  Self-play runs many searches at once.

| component | state it keeps | operations | who it interacts with | hard behaviour |
|---|---|---|---|---|
| UCI loop and engine (`chess/uciloop.cc`, `engine.cc`, `search/classic/wrapper.cc`) | last position, last `go` parameters, the current search, the tree | position, go, stop, ponderhit, ucinewgame, wait | starts, stops and destroys searches; owns the tree they search | a command may arrive in any phase of a search; ponderhit restarts; the tree is rebuilt while old workers may still run |
| search lifecycle (`search/classic/search.cc`) | `stop_`, `ok_to_respond_bestmove_`, `bestmove_is_sent_`, statistics, `pending_searchers_` | Stop, Abort, Wait, watchdog loop, worker loop, MaybeTriggerStop | UCI responder, stoppers | exactly one answer; stale statistics; threads that leave early; slots |
| search tree and workers (`search/classic/search.cc`, `node.cc`, `node.h`) | per node: visits, visits in flight, edges, terminal kind, bounds; shared collisions | pick, extend, collide, back up, two-fold correction, cancel collisions | backend, lifecycle, tree owner | virtual loss must be returned exactly once by whoever took it; several workers interleave between gather and backup; terminal nodes become ordinary again |
| gathering tasks (`SearchWorker::RunTasks`, `PickNodesToExtend`) | task list, `task_count_`, `tasks_taken_`, spin flag, completion counter | add task, take task, run, reset | task threads of one worker | lock-free hand-over, sleeping workers, reset of a list others index |
| node storage (`node.cc`: NodeTree, MakeSolid, NodeGarbageCollector) | parent/child pointers, solid arrays, queue of subtrees to free | make a move, reset to position, solidify, collect | engine, search workers | node addresses change while workers hold pointers |
| cache (`utils/cache.h`, `neural/memcache.cc`) | open-addressing table, FIFO order, pins, evicted entries | insert, lookup and pin, unpin, evict, resize, clear | all workers | deletion in a probe sequence; eviction and resizing of pinned entries |
| batching backends (`neural/backends/network_mux.cc`, `network_demux.cc`, `network_rr.cc`, `neural/batchsplit.cc`, `neural/wrapper.cc`) | queues of computations, counters of missing results | enqueue, batch, split, complete, shut down | search workers, device threads | lost wake-ups, completion after destruction, splitting of batches |
| stoppers and time management (`search/classic/stoppers/`) | limits, smoothed speed estimates | ShouldStop, OnSearchDone | lifecycle | floating-point policy |
| DAG search (`search/dag_classic/`) | Nodes are edges to low nodes that transpositions share; a table of weak pointers; a collector's state and queues | like the classic search, attach a low node, adjust visits and values along a path, collect | like the classic search; the collector's thread | reference counts and parent counts of shared nodes; bounds set along one path and used along another; freeing in the background |
| self-play (`selfplay/`) | games, tournament counters, discard pile, abort flag | start game, play, abort, collect results | two searches per game | abort racing a game that is being registered |
| chess rules (`chess/board.cc`, `position.cc`) | bitboards, castling rights, en-passant flags, the positions of a game | generate moves, apply a move, append and take back, count repetitions, game result | everything above | legality by pins, where en passant and castling in Chess960 are exceptions; rights and flags that are carried along; repetitions found by comparing few positions |
| Syzygy tablebases (`syzygy/`) | mapped files | probe | search workers | pure lookups on external files |
| network input (`neural/encoder.cc`, `neural/decoder.cc`) | none: planes are a function of a game | encode a position, transform, number a move, read back | search, self-play, rescorer | canonical boards; a history that ends by several conditions; positions and moves inferred from planes |
| training data (`trainingdata/`) | written and rescored records | write, read, rescore | self-play, network input | records are replayed and written in another format; numeric post-processing |
| networks (`neural/backends/*` kernels, `neural/onnx`, `neural/xla`, loader) | weights | evaluate | batching backends | numerical kernels, GPU libraries |
| utilities (`utils/`) | options, logging, files | | everything | reader-preferring mutex, atomic vector |
| foursight, scripts, tools | Python analysis package, command line tools | | | sequential I/O |

What makes each component correct:

- **Lifecycle**: one bestmove at most and, after `stop`, exactly one; none after
  an Abort that took effect, none before `stop` in infinite or ponder search;
  silence after the answer; Wait returns; slots are conserved.
- **Tree**: visits in flight of a node are exactly those of its children plus
  what outstanding minibatch entries and collisions still hold; the visit count
  of an expanded node is one more than its children's; proven bounds are sound;
  when a search is destroyed nothing is left in flight.
- **Gathering tasks**: each task runs once, no thread touches the list while it
  is reset, every task that was added is eventually completed.
- **Cache**: every stored key can be found by probing, a pinned value is never
  freed, the insertion order and the table hold the same keys.
- **Engine**: every `go` is answered according to its mode, the tree is not
  changed under a running search.
- **Batching backends**: every input is evaluated exactly once by exactly one
  part, nobody touches a computation after its owner was released.
- **Self-play**: colours, openings and results are accounted consistently; an
  abort ends every running game.
- **Evaluations in the cache**: an input gets the evaluation of its own position
  with a policy for its own moves, whatever shares its hash, and whichever threads
  add to the batch meanwhile.
- **DAG search**: parent counts and virtual loss come out even although nodes are
  shared, trimmed and freed; one position has one low node; shared bounds are true,
  whatever repetitions were met on the paths to them;
  the collector sleeps when a waiter was told so, and collects what it owes.
- **Chess rules**: the moves are those that the laws of chess allow; the board says
  what the moves of the game imply; repetitions and draws are found.
- **Network input**: games that mirror each other are one to a canonical format; the
  planes show of the past what they showed then; the index of a move fits the planes.
- **Training data**: a game that self-play wrote is read back position by position and
  move by move, and in another format it is what self-play would have written.

## 2. The modules

| module | models | state ↔ code |
|---|---|---|
| `SearchPromise` | what a Search owes its owner, abstractly | `limit`, `mayAnswer`, `outcome`, `live`: no threads |
| `SearchControl` | `Search` (Stop, Abort, WatchdogThread, MaybeTriggerStop, MaybeOutputInfo) and the loop of `SearchWorker::ExecuteOneIteration` | `stop` = `stop_`, `okToRespond` = `ok_to_respond_bestmove_`, `bestmoveSent` = `bestmove_is_sent_`, `pending` = `pending_searchers_`; `seen` is what a thread's `IterationStats` say of the root |
| `SearchTree` | the tree of `search/classic`, grown by several workers, and how it passes from one search to the next | `visits` = `n_`, `inFlight` = `n_in_flight_`, `edges`, `status` = `terminal_type_` and bounds, `shared` = `shared_collisions_`, `initial` = `initial_visits_`; per worker the minibatch, split by what becomes of its entries |
| `TaskPool` | the helper threads of one worker (`RunTasks`, `ResetTasks`, `WaitForTasks`) | `count`, `taken`, `completed` = the three atomic counters, `taking` = the spin bit, `size` and `complete` = `picking_tasks_` |
| `EngineControl` | the UCI commands and the `Engine`, on top of an `INSTANCE` of `SearchPromise` | `script` are the calls the command has still to make; `lastPos`, `lastGo`, `backendName`, `backend` are members of `Engine`; `tree` is where the `NodeTree` stands; `cached` is what is in the `MemCache` |
| `PinnedFifo` | what a cache promises, abstractly | a queue of keyed values and what each client holds |
| `HashKeyedCache` | `utils/cache.h` | `table` = `hash_`, `order` = `insertion_order_`, `evicted` = `evicted_`; `job` is what a user of `HashKeyedCacheLock` is doing |
| `BatchService` | what a network promises to whoever computes a batch with it, abstractly | the phase of each client's batch |
| `Demux` | `network_demux.cc`: callers, the devices' threads, destruction | `ready` = `dataready_`, `parts` = `parents_`, `queue` = the devices' `queue_`, `at` = where each thread is |
| `Mux` | `network_mux.cc`: callers, workers, destruction | `line` = `queue_`, `served` = `dataready_`, `parent` and `offset` = `parent_` and `idx_in_parent_` |
| `MemCache` | `neural/memcache.cc` with what it runs on: the cache (`PinnedFifo`'s), `neural/wrapper.cc` and `neural/batchsplit.cc` | `mem` is what is stored at each address of a cached value, `comp` the computations and what they wrap, `task` what each thread is doing |
| `Tournament` | `selfplay/tournament.cc` and `selfplay/game.cc` | `taken` = `games_count_`, `score` = `tournament_info_.results`, `game` is what each thread plays, `owner` the Abort in progress |
| `MultiGames` | `selfplay/multigame.cc` | `tree` is the ply of each game, `outcome` = `results_`, `inputs` and `gathered` are the evaluator's batch and queue |
| `DagSearch` | the graph of `search/dag_classic`: workers, table, backup, moves between searches | a Node is named by its owner (a low node, or `Tree`) and its position; `low` holds the low nodes with the Nodes of their moves (`kids`), `tt` = `tt_`, a visit's `hit` is the low node that it keeps alive, `trash` what the collector was given |
| `NodeGarbage` | `NodeGarbageCollector` and the calls of `Search` and `NodeTree` on it | `state` = `state_`, `released` = the released nodes that wait for it, `own` = its own queue, `gc` where its thread is |
| `ChessBoard` | `chess/board.cc`: move generation, legality, `ApplyMove`, moves and boards as text | a board is a record of sets of squares, as the bitboards are; flags of en passant stand in `pawns` on the first and last rank |
| `ChessRules` | the laws of chess, independently of the code | who stands on which square |
| `PositionHistory` | `chess/position.cc`: a game, its repetitions and its result | `positions` = `positions_`; `made` are the moves, from which `ChessRules` is told what it needs |
| `Encoder` | `neural/encoder.cc`: planes, transforms, indices of moves | a function of `positions`; a plane is a set of squares |
| `Decoder` | `neural/decoder.cc`: boards and moves from planes | |
| `TrainingData` | `trainingdata/trainingdata.cc`, `reader.cc`, and of `rescorer.cc` what finds, validates and converts | a `Frame` is a `V6TrainingData` |
| `NetworkInput` | what holds of the games of `PositionHistory` as `Encoder` and `TrainingData` tell of them | |
| `...Proofs` | theorems about `SearchControl`, `EngineControl`, `Demux` and `Mux`, about `MemCache` and `HashKeyedCache` (`MemCacheProofs`), about `TaskPool` and `NodeGarbage` (`HelpersProofs`), about `Tournament` and `MultiGames` (`SelfPlayProofs`), and about `SearchTree` (section 5) | |
| `MC...` | constants for TLC; `MCBatching`, `MCSelfPlay` and `MCHelpers` put several modules into one run | |

`SearchControl` implements `SearchPromise`, and `EngineControl` is built on
`SearchPromise`: the engine is checked against all that a search may do, without
the threads of the search in its state space.  `HashKeyedCache` implements
`PinnedFifo`, and `MemCache` is built on `PinnedFifo`.  `Demux` and `Mux` implement
`BatchService`, and `Mux` assumes no more of the networks below it.  `ChessBoard` is
compared, position by position, with `ChessRules`, which knows nothing of pins, rights
or flags: `PositionHistory` tells it only the moves of the game.

### How actions are cut

A step is what no other thread can divide.

- **Lifecycle.**  The flags are written under `counters_mutex_` only, so each
  critical section is one step.  Taking the statistics and using them are two
  steps, because the locks are released between them.  The check of `stop_` and
  the compare-exchange on `pending_searchers_` are separate accesses: a worker may
  take a slot after the stop, which `TakeSlot` allows.
- **Tree.**  A pick runs under `nodes_mutex_`, but the extension of the picked
  nodes does not, so `PickChild`, `Collide` and `EndPick` are interleaved with
  `ProcessPicked` of other workers.  The backup of a batch takes the lock once
  and visits one node after the other.  Whatever holds in every state while the
  lock is held is stronger than needed, and the invariants hold even then.
- **Tasks.**  Every load and store of an atomic counter is a step, since this code
  relies on their order.  The counters are sequentially consistent in the model.
- **Engine.**  The UCI thread makes one call after the other; between two of them
  the search may reach its limit, answer or wind down.
- **Cache.**  Each operation runs under one spin lock and is one step, except for
  the comparison of the capacity with zero before the lock is taken.
- **Batching.**  A step holds no mutex at its ends, except that a thread that has
  tested its condition and is about to sleep is "drowsy" and holds it: so a
  notification between test and sleep, which the mutex has to prevent, is a
  behaviour of the mutants.  Spurious wake-ups only repeat a test.  The count-down
  in `NotifyComplete`, the notification and the store of -1 are three steps.
- **MemCache.**  A thread looks up, copies from the pinned value, inserts into its
  own computation and into the one below in separate steps, so that two threads'
  orders may differ.  Insertions after the computation go one by one.
- **Self-play.**  `Abort` of the tournament visits the games one at a time, and its
  look at `search_` and its call on it are two steps.
- **DAG search.**  A worker holds `nodes_mutex_` from its first pick to the end of the
  gathering, and while a batch is backed up; each visit or collision it picks and each
  visit it backs up is a step.  Evaluation and the cancelling of collisions happen
  without the lock.  The collector takes one subtree at a time.
- **Collector.**  Every access to `state_` or to the mutex is a step.
- **Chess.**  Nothing runs concurrently; a step appends a move or takes one back.

### What is abstracted

- *Lifecycle*: whether a stopper says stop, and whether enough has changed for
  an `info` line, are free choices; the tree is reduced to whether the root has a
  visit.
- *Tree*: the game is a small finite tree with mates, stalemates, draws by rule
  and repetitions.  PUCT, Q, policy and the cache are free choices: any child may
  be picked and any evaluation may be cached.  Left out are tablebases,
  prefetching, M, MakeSolid (see the plan) and a `go` for the same position as
  before, which keeps the root.  Different subtrees do not disturb each other
  within one pick, so due nodes are taken in the order of their numbers.
- *Engine*: positions are names with a flag for "has moves"; the tree's `fresh`
  bit flips with each rebuilding, so that a change to an equal tree is visible.
  Syzygy paths, clocks and `isready` are left out.
- *Cache*: keys are small numbers in place of hashes; the values are names of allocated
  objects.  A pointer to a freed object is a name that is no longer allocated.
- *Batching*: inputs are numbered, evaluations are names of inputs; exceptions of a
  network, which end the program, are left out.
- *MemCache*: addresses are reused as an allocator may; a policy is the number of
  moves it was stored for.  The size changes and the cache is cleared only while
  no search runs, as the engine does it.
- *Self-play*: a game is the plies of its two trees; what a move is and who wins are
  free choices; openings are taken in order.  Random openings, the discard pile,
  training data, resignation statistics and reports are left out.
- *DAG search*: values are left out, but for the sign of proven ends and for whether a
  terminal Node still has the value of its end (`off`), and so are tablebases, second
  repetitions of a path (which change values only here) and the life cycle, which is that of
  `SearchControl`.  A third repetition is a matter of the path and the moves played, as
  in the code: a position is a board (`Board`) with the plies since the last capture or
  pawn move, so that the positions of a path are distinct and their boards need not be,
  and the table's hash is the position with the number of its repetitions, but not
  of those before it.  One board may come three times in the graph without the four
  plies between two of them that chess would need; the search does not look at that.
- *Collector*: a node is the height of its subtree; the thread that releases nodes
  hands its local queue over in one step.  Its destruction at the end of the
  program is left out.
- *Chess*: the tables of the magic bitboards are what `BuildAttacksTable` puts into them,
  lines to the first man; their indexing is left out, and so are hashes, the number of
  the move, and of FENs the spelling, the counters and the errors.
- *Network input*: the index of a move is its two squares and the piece of a promotion,
  not one of 1858 numbers; planes that are all ones or zero are left out, as is the scale
  of the 50 moves, but for what is lost when it is read back.  All seven formats are
  modelled, and four of them run: each differs from the others in another way.
- *Training data*: probabilities, values, visits and results are left out, and so is what
  `reader.cc:102` does with the element after the last one.  `history` filled in "always"
  is what "fen_only" does, unless the game begins with the usual position.

## 3. The runs

| run | question | bounds |
|---|---|---|
| `search_control` | slots, answer discipline, silence, answers and endings, refinement of `SearchPromise` with its liveness | 2 workers, 1 slot; 224,001 states |
| `search_tree` | accounting of virtual loss and visits, exclusive extension, truth of bounds, two-fold draws, clean start | 2 workers, 8 positions, 4 playouts, 2 collisions, 1 move between searches; `ClearTree` when no collisions are left; 289,592 states |
| `search_tree_live` | every playout is made | 2 workers, 4 positions, 4 playouts, no out of order evaluation |
| `engine_control` | answers are asked for, stable set-up, right position, commands return | 2 positions, 1 backend with 2 temperatures; 111,924 states |
| `hash_keyed_cache` | probes end, pins, `PinnedFifo` | 4 keys, 2 clients, 5 values, capacities 0 to 3; 7,848 states up to symmetry |
| `batching` | parts and batches accounted for, nobody touches the dead, right results, no missed sleeper, calls return, `BatchService` | `Demux`: 2 devices, 2 callers with batches of 1 and 5 in steps of 2; `Mux`: 2 callers with batches of 1 and 3, workers with limits 2 and 4; 52,400 states |
| `self_play` | true score and fair tournament, abort, moves by the right evaluation, hits that fit | 2 threads, 2 mirrored games of at most 1 ply after the opening; 3 games of policy mode; 3 positions with 2 hashes, 2 threads, a cache of 0 or 1; 709,844 states |
| `dag_search` | virtual loss, parents, one low node for a position, bounds, assertions, playouts | 2 workers, 2 searches, 2 moves, batches of 2, 5 playouts, the first two one by one and at most 2 of them in the second search, 1 collision in the first one; or one worker at a time, 3 searches, 3 moves, 6 playouts; or one search of 9 playouts, with batches of 3 after the sixth; 147,833 states |
| `helpers` | each task once, none after the wait, wake-ups and exit; a sleeping collector is quiet, aborts end a collection, what is owed is collected, waits return | `TaskPool`: 2 helpers, 2 tasks, 2 rounds; `NodeGarbage`: 2 searches, 2 releases, subtrees of height 2, local queue of 2; 308,477 states |
| `chess` | legal moves, what the board says of the game, repetitions and results; mirrored games, history and endings of the planes; records that are read, replayed and converted | 21 beginnings with few men, 1 to 8 plies, 4 formats; 2,460 states |

Two more runs, `engine_cache` and `encoder_moves`, find a property violated; they are
described in section 4.

**Why these bounds suffice.**  One slot for two workers makes both the empty pool
and the late worker happen.  `MaxCollisions` bounds the collisions held while some
worker is busy: without it a worker could collide for ever with the visits of one
that waits for the network; two are enough for a collision of each worker, and for
an upsized one.  Four playouts expand the root, one of its children and two
grandchildren, so a bound climbs two plies and the repetition is reached, left
behind by a move and reached again.  Two task rounds are needed for a helper to
carry counters over from an earlier round, and a third was left out for its size: it
would begin, like the second, with `ResetTasks`.  In the cache, five values are exactly
what is alive at once: three in the largest table, one pinned after its eviction,
one being inserted.  The keys 0, 3, 4 and 7 share homes in tables of 1, 2, 4 and
6 slots and their probes run around the end.  Counters are bounded in guards
(`Bounded`, `MaxRounds`, `MaxTasks`), never by a constraint, since temporal
properties are checked.

In `batching`, the sizes are those that tell the cases apart: a batch of one part,
one whose devices get different numbers of steps and whose end cuts the last step
off, a batch above one worker's limit, and limits that fit one or both
children; the two networks do not meet, a behaviour is one's or the other's.  The
same holds for the three parts of `self_play`: each moves while the others are in an
initial state.  Three callers of `Mux`, with batches of 1, 1 and 3 (122,955 states in
all), and batches of 3 and 5 for `Demux` (171,073) showed nothing new.  Two mirrored games are one opening with both colours, and with two
threads both are played at once; a second pair would repeat the first.  Three
positions, two of them with one hash but different numbers of moves, and a cache of
one entry make collisions, evictions of pinned values and reinsertion happen.  In
`dag_search`, the game goes from r to x and c, from x to a, from a to c and d, from c to t,
from t to d and to a mate m, and from d to a mate n; d is drawn by rule, and r, a and t are
one board.  So c is reached in two ways, d in more, and t below c is a second occurrence by
way of c and a third one by way of a, under the same low node of c.  A game starts with
r, a or c.  Two searches and two moves are needed for a low node to outlive its search, be
trimmed or come back by a takeback.  What the table then still knows is found by a third
search from a position before it, so a second plan of the run has three: one of a, one
after moves from a, and one that starts with r, each by one worker after the other.  In
the third plan one worker searches r until m is known by both ways, and then has three
visits in flight; it is there that the two ways to t disturb each other.  In the collector's part of `helpers`, a local queue of two is overrun by
a subtree of height two, and the second search finds what the first one left.

The beginnings of `chess` are those in which special cases meet: castling with a rook
that is taken, through check, in Chess960 with a rook that shields the king, a king
that stays, or a rook that is not the outer one; en passant that uncovers a rook, answers check, is open to a pinned pawn,
or leaves its flag under another man; pins along files and diagonals, two men in the
way, a discovered and a double check; the fiftieth move, the third occurrence, the same
men with other rights, and the men that are left when nobody can mate.  Games of two
plies show each rule at work and its traces in the next two positions; the longer ones
restrict where men may go (`goals`), so that repetitions are reached.  For the planes there
are men that lie alike on both sides of the kings' diagonal, a game that Black begins with
a flag, and one in which the fifty-third ply of the 50 moves is recorded; the formats are a
classical one, one with the rooks of Chess960, a canonical one, and one that skips what is
not repeated, counts in hundreds and tells who moves.

**Deadlock** is not checked where the system may stop: a search ends, the
owner does nothing any more, the bound on playouts or rounds is used up.  That
nothing stops too early is what the liveness properties say.

**Fairness.**  `SearchControl` and `TaskPool` assume that a thread that can run
does (weak fairness per thread).  Nothing is assumed of the owner, of the
stoppers, or of a spurious wake-up.  `SearchTree` needs strong fairness where a
worker competes for `nodes_mutex_`, and `TaskPool` for the compare-exchange on the
spin bit: a thread that finds it free again and again gets it in the end.  This is
what operating systems' mutexes give in practice and what the code itself relies
on.  `EngineControl` assumes that the UCI thread goes on and that the search keeps
its promise, which `SearchControl` is checked to do; it does not assume that a limit
is ever reached, as an infinite search has none.  In `search_control` every
fair behaviour of the threads is also shown to satisfy the fairness of
`SearchPromise` (`KeepsPromise`).  `Demux` needs strong fairness for a caller that
wants the mutex of a device, weak fairness else, of every thread that can run and of
a destruction that has begun; nothing is assumed of new batches and of when the
network is destroyed.  `NodeGarbage` assumes that the collector's thread runs and
that a call that has begun goes on, not that a search is ever started or stopped.

## 4. Where the code does something else

Two runs are expected to end with a violation.

- `engine_cache`: the cache is never cleared after the policy temperature or the
  history fill was changed, as the hash it compares with is already the new one
  (`neural/memcache.cc:80`).
- `encoder_moves`: where the canonical board is transposed, the index of a move is that of
  a board turned by 180 degrees (`neural/encoder.cc:604`), not of the transposed one that
  the network sees, while `utils/bititer.h:62` speaks of a diagonal transpose.  All who
  number moves do it alike, so that nothing else disagrees.

More was seen while modelling, and is not repeated by a run:

- `search/classic/wrapper.cc:118` clears the head (`ClearTree`) before line 132
  destroys the previous `Search`, whose destructor cancels shared collisions there:
  the unsigned `n_in_flight_` wraps around.  `SearchTree` shows it as a violation of
  `TreeInv` with `MayClear`, without `OutOfOrder` and on a line of three positions; the
  run clears only a tree whose search has left no collisions.
- `search/classic/search.cc:2269` lets a mated root set the bounds of the root's
  parent, which may have no visits, against `assert(*n_to_fix > 0)` in line 2350, and
  may have no edge but that to the root (`CreateSingleChildNode`), so that its bounds
  need not be true.  No search reads them: `BoundsAreTrue` is about the nodes at and
  below the root.
- `search/dag_classic/node.cc:362` asserts `multivisit <= n_`.  A position is searched,
  then one after it, then the first again: the low node that `SetLowNode` shares from
  the table (`search.cc:2268`) may have fewer visits than the child Node it comes under,
  whose visits are `n_to_fix` (`search.cc:2207`), so that the assertion fails; without
  assertions `wl_` may leave [-1, 1].  `DagSearch` shows it as a violation of
  `AdjustsWhatItCounts` with three searches, seven playouts, and one worker with batches
  of one, on a line of four positions that ends in mate.
- `search/dag_classic/search.cc:2331` asserts that a terminal Node on the path has the
  result of its low node.  A third repetition is found by the path (`search.cc:1631`,
  `2291`), while the Node below a shared low node belongs to every path, as the hash of
  the table (`chess/position.cc:141`) has the repetitions of the last position only.
  So t may be won by m on one path, a terminal Node, and be the third repetition on
  another, whose visit adds a draw to the value of the Node (`search.cc:2310`); a visit
  that was picked below t before it was terminal then finds the two values different.  In
  `DagSearch` this is "same result" of `AssertionsHold`, and the third plan of
  `dag_search` comes to it: a batch has a visit of m, one of t as a third repetition, and one
  of d below t, backed up in this order.  The bounds, which the assertion does not
  compare, agree.
- For the same reason the bounds of a shared low node know of no repetition on the way
  to it: on a path where best play repeats a position for the third time, the game may be
  drawn although a bound says that it is won.  `BoundsAreTrue` of `DagSearch` states what
  the bounds are true of, the game below without repetitions, and the run shows that no
  third repetition of one path gets into them.
- `search/classic/search.cc:1371` publishes processing tasks without a notification;
  with a CPU backend and `TaskWorkers` above zero the helpers sleep and the worker
  spins for ever.  `TaskPool` shows it with `RunsOnCpu`, as a violation of
  `NoWakeUpIsMissed`.
- `chess/board.cc:721` sets the flag of en passant although the taker may be pinned, so
  that two positions with the same legal moves count as different ones; article 9.2 of
  the laws of FIDE counts them as the same.  `Takeable` in `PositionHistory` follows the
  code.
- `chess/board.h:246` says that a flag means that the pawn "can be taken en passant";
  `SetFromFen` (`chess/board.cc:1099`) sets it for every square that a FEN names, whoever
  stands beside the pawn.  When such a beginning comes back four plies later, without
  the flag, it is not counted as a repetition.  The one beginning
  of `chess` with a flag has a pawn that can be taken.
- `chess/gamestate.cc:45` builds the positions of a game without counting repetitions;
  `search/instamove/instamove.cc:94` evaluates them, and `neural/encoder.cc:261` tells the
  network that none was repeated.
- `neural/encoder.cc:265`: in the two formats that skip what was not repeated, nothing ends
  the loop over the history before the first position, when the history is to be filled in
  (`FEN_ONLY` or `ALWAYS`), that position is not the usual one, and no pawn was moved, man
  taken, right lost or flag set since: `history_idx` is counted down for ever.
  `NeverEnds` states when, and `EncodingEnds` that nothing else does it.
- `neural/decoder.cc:244` cuts the product of 100 and the recorded hundredths off: 53 plies
  of the 50 moves are read as 52, and 59 as 58 (`Rule50Read`).
- `trainingdata/reader.cc:102` goes on to the element after the last plane.
- `neural/backends/network_check.cc:77` gives `PopulateBoard` planes as they were transformed, which
  expects them transformed back.
- `engine.cc:169` remembers the name of a backend before creating it, which may
  throw: the next position then goes on with the old backend under the new name.
- `selfplay/multigame.cc:71` adds an input for every legal move of every game to one
  computation, whose vector has a fixed number of places
  (`utils/atomic_vector.h:50` asserts it).  `MultiGames` shows it with `UseValue`,
  as a violation of `BatchHasRoom`.
- `selfplay/tournament.cc:391` passes player 1's number of threads where
  `selfplay/game.h:103` expects White's.
- `selfplay/game.cc:152` leaves a game undecided when it is adjudicated at the
  longest length, while `selfplay/tournament.cc:396` says that an undecided game was
  aborted; it is not counted.
- A root of the DAG search whose low node was made terminal by another path stays
  terminal after the move to it, as `search/dag_classic/node.cc:666` looks at the
  Node only; nothing is expanded then.
- Low nodes outlive the head that is trimmed (`search/dag_classic/node.cc:712`) until the
  collector comes to them, which waits for `GarbageCollectionDelay` when a search begins,
  and the table knows them as long.  So a search from an earlier position, after a
  takeback, may go on below what the game went by without searching it.  There are three
  consequences, each of which needs three searches or more.  `CreateSingleChildNode`
  (`node.h:274`) gave the Node a low node with one move only, so that the bounds that
  climb over it need not be true, and playing another move from there fails
  `assert(!low_node_)` (`node.h:277`; "no edges" in `DagSearch`).  A position that was drawn by the rule of 50
  moves lost that result when it was the root (`node.cc:666`), and is searched as if it
  were not drawn.  And a low node whose other children were released when the game went
  on (`node.cc:406`) is opened again without visits of its children (`node.cc:229`), which
  divides by `n_` = 0 ("still visited").  The variable `astray` records the first two;
  `BoundsAreTrue` is about searches that did not come by them.
- Subtrees that the collector has in its own queue when it is put to sleep stay there
  until it is woken again: memory is freed later, not lost.
- The names `last_go_params_` and `last_position_` are read by `UciPonderForwarder`
  (`engine.cc:112`) on a search thread while the UCI thread may assign them; only
  the wording of info lines depends on it.
- `search/classic/search.h:70` says that Abort "does not return bestmove"; an
  Abort after Stop leaves the answer alone, which `position` right after `stop` needs.
- `search/classic/search.cc:1026` says that the watchdog's minimum wait prevents
  busy waiting; `wait_for` is given `stop_` as its predicate, so a stopped search
  that may not answer yet makes the watchdog spin until Stop comes.
- `chess/uciloop.h` says that NewGame and PonderHit must not block; both wait for
  the threads of the search.
- A second `go` without a position rebuilds the tree's history while threads of
  the search that has answered may still run.  `EngineControl` sends a position
  between two searches, as GUIs do.

## 5. What is proved

Eight modules hold theorems; each is true for every value of the constants that the
assumptions of the model (`...Assumption`, which TLC evaluates in the runs) allow.
The properties of the runs that they settle:

| module | theorem | states | beyond the assumptions of the model |
|---|---|---|---|
| `SearchControlProofs` | `TypeCorrect`, `SlotsNeitherLostNorForged`, `AtMostOneAnswer` | `[]TypeOK`, `[]SlotsConserved`, `[]AnswerDiscipline` | |
| | `SettledIsQuiet` | `QuietWhenSettled` | |
| | `RefinesPromise` | the safety part of `SearchPromise` | |
| `SearchTreeProofs` | `TreeBooksBalance`, `BoundsHold`, `TwoFoldsLieInside` | `[]TreeInv`, `[]BoundsAreTrue`, `[]TwoFoldInsideSearch` | no tree is cleared while collisions are shared (`~MayClear`) |
| `HelpersProofs` | `TasksRunOnceAndInTime` | `[]TasksInv` | |
| | `SleepIsReliable` | `[]CollectorInv` | |
| `EngineControlProofs` | `SearchesWorkOnThePosition` | `[]EngineInv` | |
| | `SetupChangesWhileStopped`, `BestmovesAreAsked` | `SetupIsStable`, `AnswersAreAsked` | |
| `SelfPlayProofs` | `BooksAreTrue`, `NoSearchWhileMoving` | `[]TournamentInv`, `NoSearchInAMovingTree` | |
| | `EvaluationsFindTheirGame` | two parts of `MultiGamesInv` | |
| | `RoundsFitIntoBatches` | `[]MultiGamesInv` | a batch has room for what all games add |
| `MemCacheProofs` | `NothingDangles` | `[]CacheInv` | |
| | `TableIsAQueue` | `IsPinnedFifo`: `PinnedFifo` is implemented | |
| | `AnswersAreTheirOwn` | three parts of `MemCacheInv` | |
| | `ReadValuesStay` | `CachedValuesStay` | |
| | `CacheAndBatchesAgree` | `[]MemCacheInv` | finitely many threads; no batch is split above what the backend takes |
| `DemuxProofs` | `Consistent` | `[]DemuxInv` | |
| | `Refines` | `DemuxServes`: `BatchService` is implemented | |
| `MuxProofs` | `Consistent` | `[]MuxInv` | |
| | `Refines` | `MuxServes`: `BatchService` is implemented | |

Some theorems have a hypothesis of their own, since the code has no check for it:
`MultiGame` adds the inputs of every game to one computation, `MemCache` and the network
below have a vector of the same fixed size, and `ClearTree` resets a head at which the
destructor of the search still cancels collisions.  What happens when it does not hold is
in section 4.  All other parts of the first two invariants are proved without it; those of
`SearchTree` are not, since a counter that has wrapped around leaves no other number of
the tree as it was.

Each proof rests on one inductive invariant, `IInv`, with a lemma for each action or
group of actions.

- **`SearchControl`.**  `FlagsAgree` says that a sent bestmove has stopped the search,
  that an answer was sent, allowed and had visits behind it, that no thread has seen
  more visits than there are, and that the watchdog leaves only after the bestmove is
  settled.  None of the properties is inductive without it: `answers <= 1` needs the
  agreement of `answers` with `bestmove_is_sent_`, `visited` in `AnswerDiscipline` needs
  what the threads' old statistics imply, and in the refinement the search must not
  wind down while it is open, which needs the clause on the watchdog.  `SlotsAgree`
  adds that with no limit, a case which no run covers, nobody counts slots.
- **`SearchTree`.**  `TreeInv` speaks of sums, and each step changes a few of their terms,
  some of them along a path.  `Flow` gives `n_in_flight_` in a closed form that does not
  mention the path: what is in flight at a node are the visits that the workers hold at it
  and below it (`Counted`), and the collisions below it (`Collisions`), in whoever's hands.
  Each action then moves visits from one bag to another, or from a bag to `visits`.
  `HeldRight` says that visits are held at leaves of the present search, one at a leaf that
  has none; `Untouched` that below such a leaf, and below a two-fold draw, nothing was
  visited; hence `ExtendedByOne`.  `Shape` says that every node that was seen has its edge,
  so that the sum over the edges of a node loses nothing.  `DrawsCounted` and
  `StaleCounted` bound the visits that are taken back where a two-fold draw began
  before the root: all of them were there when the search began, and are among those of
  each node above, which hence keeps a count above zero.  `Protocol` and `Picking` say
  which bags are empty in which phase of a worker and that only the holder of
  `nodes_mutex_` picks.  That a new root (`Advance`, `TakeBack`) keeps all this needs that
  between two searches nothing is in flight but the shared collisions, which follows from
  `Protocol`.  `BoundsAreTrue` is inductive with `Shape`; the climb of the bounds is
  a function on a path (`Climb`), of which it is proved that no status on it leaves
  `Reached`, those that tell the truth and change nobody's kind but from "no".
- **`TaskPool`.**  `Ledger` is the balance of the three counters: while the work is
  shared, those that are completed and those that run are those that were taken, and at
  other times nobody runs and the count promises no task.  The order of the three stores
  of a reset is in it.  `OneTakes` says what the holder of the spin bit may still believe
  although its loads are old: it has not loaded less than was taken.  That no two
  helpers run one task follows only from both.
- **`NodeGarbage`.**  `PhasesAgree` ties `state_` to the place of the collector's thread,
  what it holds there and whether the search that is being waited for is still the one
  that was aborted.  `ShapesAgree` says that its three queues hold nodes of batches that
  were released, and `OneDies` that at most one node is being destroyed.
  `OwedKeepsAwake` says of what was queued before the last start that it is in the
  queue, in the batch that was taken or below the node that is being destroyed, and
  that `state_` is Running as long as nobody stops it: a start that meets a collector
  about to sleep is not lost.
- **`EngineControl`.**  The state of the UCI thread is the list of calls it has still to
  make, and the invariant is about that list: a start comes last, and of two calls whose
  order matters (`Shape`) the first does not come behind the second; which commands make
  which calls (`CallsOf`); that a running search is aborted and waited for before the
  tree, the backend or the position change (`Quiesced`); what the GUI may expect
  meanwhile (`Expected`); and of which position the tree is between its reset and the
  start of the search (`TreeAgrees`).  `HasBackend` says that there is a backend as soon
  as there is a position, as the update comes before it in every list, and one that
  fails ends the command; a search, which needs a position, then has one.  The update
  and the construction of a search may fail.
- **`Tournament`.**  `NumbersFit` follows a game by its number: each number that was taken
  is that of one game, in the hands of one worker or in the books, and nowhere else.  That
  the score counts every game once rests on it, since what is added to the books is then
  new, and so does that a finished tournament has all numbers.  `GamesFit` says where a
  game may have a search, which is what keeps the moves of its trees apart from it;
  `OwnerFits` says that what the `Abort` in progress has seen of the game it is at still
  holds, because a search is made under the mutex that it has.  The number of openings
  and games enters by one lemma on numbers (`MirroredPairs`).
- **`MultiGames`.**  An evaluation is told from another only by its place in the queue, so
  `QueueIsWaiting` says what the queue is in the middle of a pass over the games: those
  gathered that have not moved, each once, in the order of the games, at the position
  they stand at.  `Steps` says that from the second round on a game moves in every round,
  as the first game that is still on says whose move it is (`FirstSays`).
- **`HashKeyedCache`.**  `CacheIInv` says of the table that every entry is in reach of its
  probe, with no free slot on the way (`InReach`), and that no key is there twice; of the
  table and the queue that they tell of the same keys (`Filled`), of which there are no
  more than the capacity; and of the values that each has one entry, in the table or
  among the evicted ones, with a pin per holder, and at least one where it is evicted
  (`Books`).  `PinsCounted` alone does not survive an `Unpin`, whose search of the table
  relies on the reach.  The hard lemma is that of `EvictItem`: while entries move back to
  the hole, only probes for entries that are still ahead of the walk may come by the hole
  (`Walking`), and the walk ends within two rounds of the table (`Closed`).  A table of two
  slots that an insertion has filled has no free slot but the hole; it is a case of
  its own.  In the refinement, `QueueOf` is the queue of `PinnedFifo`: it depends on the set
  of entries and not on their slots, so what moves or rehashes them is a stutter, and what
  evicts them is its `Trim`.
- **`MemCache`.**  The argument is about who owns a value: `Private` says that what a
  computation has still to save is reachable neither through the cache nor through a
  pin, and is no other entry's; `GivenBelow` that whatever the computation below was given
  is an entry above, and in the end all are; `Readable` that whatever can be read fits
  the hash it is under.  `Room` counts the threads that are about to add an input.
- **`Demux`.**  `Left(c)` are the numbers of the parts of a batch that are still to be
  sent, in a queue or in somebody's hands; `PlacesAgree` says that a part is in one of
  these places, once, and `CountsAgree` that `dataready_` is the number of parts left
  while it is positive, and that at 0 nothing is left and one thread is on its way to
  tell the caller and to store -1. Neither holds without the other: a thread knows that
  it counts down the last part only because no other thread has that part. Nothing can
  point to a computation whose count is -1 and that sends nothing (`NothingLeft`), which
  is why its caller may destroy it. `TilesAgree` gives the ends of each part in a closed
  form (`Edge`) from the division of the batch into steps and devices; that the parts
  are not empty and end at the end of the batch is `Edges`, for every size, step and
  number of devices. In the refinement, the last count-down is `Answer`, or `Drop` when
  a part was not computed, which only the destruction of the network allows.
- **`Mux`.**  `Places` says that the children that wait and have not been told are exactly
  those in the queue and in the workers' hands, nobody twice; `Workers` ties a worker to
  the phase of its batch below; `Results` says that the inputs of a child in somebody's
  hands are at its offset in that worker's batch, and that its results are there when the batch below was
  answered.  That offsets which are summed from sizes are those at which the inputs were
  appended is `InputsAtTheirPlaces`.  `NoSleeperIsMissed` is inductive with the others:
  it is the notification for each new child that pays for the worker who takes several.
  In the refinement, `NotifyChild` is `Answer`, what the destructor does to the children
  left in the queue is `Drop`, `Abort` is `Close`, and what the workers do else is a
  stutter.

Lemmas about data are stated once: what remains and is added when a set changes by one
element (`GatheringCount`, `RunningCount`, `OneMoreThread`), what `Append`, `Tail` and the
eviction of the oldest leave, and, in `MuxProofs`, the running sum of widths (`EndsAdd`)
and the flattening of a batch (`FlattenAppends`).  The last two are recursive functions, and
are treated by the least counterexample (`LeastElement`), as the theorems on induction of
the library take an operator; so is, in `DemuxProofs`, the part that an input is in
(`OnePart`).  In `SearchTreeProofs` they are about sums over finite sets, which are folds
(`SumUnfolds`: any one term can be taken out, on which all other lemmas about sums rest),
and about functions that go up or down the tree, unfolded at one node (`AboveUnfolds`,
`ClimbUnfolds`, `TruthUnfolds`).  Induction is done there over sets of numbers, finite
sets and sets of nodes (`SetInduction`, `FromTheRoot`, `FromTheLeaves`), which are
bound variables and no operators.

**Only model-checked** are

- all liveness properties (`SearchEnds`, the fairness part of `KeepsPromise`,
  `AllPlayoutsMade`, `NoWakeUpIsMissed`, `NobodyWaitsForEver`, `DemuxReturns`,
  `ChildrenReturn`, `NoRequestIsLost` and others of this kind): the prover treats neither
  fairness nor ENABLED;
- what is stated of chess boards, planes and records (`PositionHistory`, `NetworkInput`):
  the board has 64 squares for every value of the constants, so a proof would be a
  distinction of cases on lines and squares, which TLC makes better;
- `DagSearch`, where a low node has several parents and a visit is held along a path,
  which the lemmas of `SearchTree` on nodes and the one way to them do not cover.

## 6. Plan

The components with a protocol of their own are modelled.  What comes next are
theorems: what the edges of `DagSearch` share with the low node they lead to (`GraphInv`,
`OneLowNodePerPosition`), and from it `BoundsAreTrue`.

Then, in the models: MakeSolid and the collector of the classic search, which move
and free children under the names of `SearchTree`.

Not planned are what has no behaviour that a model checker could decide:

- the kernels and loaders of networks (`neural/backends/`, `neural/onnx`,
  `neural/xla`), more than half of the lines of this repository: numerical code that runs
  on a device, and the conversion of one format of weights into another;
- stoppers and time management: floating-point estimates; `SearchControl` lets a stopper
  say either at every look;
- Syzygy probing: the decoding of external files;
- the rest of training data and the rescorer: arithmetic on values and probabilities, one
  file after the other;
- options, files, logging, command line tools, Python bindings and the `foursight`
  package: sequential input and output.
