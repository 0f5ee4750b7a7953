--------------------------- MODULE MCHashKeyedCache ---------------------------
\* HashKeyedCache with keys that collide in tables of 1, 2, 4 and 6 slots, also
\* around their ends.
EXTENDS HashKeyedCache, TLC

Keys == {0, 3, 4, 7}
Sizes == {0, 1, 2, 3}
Symmetries == Permutations(Value) \cup Permutations(Client)
===============================================================================
