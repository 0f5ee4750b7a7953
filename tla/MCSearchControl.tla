-------------------------- MODULE MCSearchControl --------------------------
\* SearchControl with two workers: one may compute while the other has
\* nothing but collisions, and one may leave while the other backs up late.
EXTENDS SearchControl

TwoWorkers == {"w1", "w2"}
============================================================================
