------------------------------ MODULE MCSelfPlay ------------------------------
\* What a self-play match is made of: the tournament with its games, the games of
\* policy mode, and the cache that all of them share.  They are explored one after
\* another: each moves while the others rest in one of their initial states.
\*
\* MemCache has two positions with one hash, and two threads that add to one
\* computation or look at the cache while it is saved.
EXTENDS Tournament, MultiGames, MemCache, TLC

CONSTANTS p1, p2, p3

Hashes == (p1 :> 1) @@ (p2 :> 1) @@ (p3 :> 2)
Moves == (p1 :> 1) @@ (p2 :> 2) @@ (p3 :> 1)
OneBatch == [t \in Thread |-> CHOOSE c \in Computation : TRUE]
Questions == [pos : {p1, p2}, kind : {"full"}]
               \cup {[pos |-> p1, kind |-> "value"], [pos |-> p3, kind |-> "prefetch"]}
Symmetries == Permutations(Address)

TournamentRests == TournamentInit /\ ~firstBlack /\ UNCHANGED tournamentVars
MultiRests == MultiInit /\ (\A i \in Game : tree[i] = 0) /\ UNCHANGED multiVars
CacheRests == MemCacheInit /\ room = 0 /\ ~split /\ UNCHANGED memCacheVars

SelfPlayInit == TournamentInit /\ MultiInit /\ MemCacheInit
SelfPlayNext ==
  \/ MultiRests /\ CacheRests /\ TournamentNext
  \/ TournamentRests /\ CacheRests /\ MultiNext
  \/ TournamentRests /\ MultiRests /\ MemCacheNext
SelfPlaySpec ==
  SelfPlayInit /\ [][SelfPlayNext]_<<tournamentVars, multiVars, memCacheVars>>
===============================================================================
