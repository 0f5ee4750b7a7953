----------------------------- MODULE MCDagSearch -----------------------------
(* A game in which c is reached from r and, two moves later, from a.  The    *)
(* boards of r, a and t are the same, so t occurs for the third time by way  *)
(* of a and for the second time else; m and n are mates, and d is drawn by   *)
(* rule.  A move stands for an odd number of plies.                          *)
(*                                                                           *)
(* There are two searches by two workers at once, which start with r or c,   *)
(* three by one worker, the second after moves from a, which the table still *)
(* knows when the third one comes to it from r, or one by one worker, which  *)
(* has three visits in flight once c was reached by both ways.               *)
EXTENDS DagSearch

Dag       == {"r", "x", "a", "c", "d", "t", "m", "n"}
DagStarts == {"r", "a", "c"}
DagReply  == "r" :> {"x", "c"} @@ "x" :> {"a"} @@ "a" :> {"c", "d"} @@
             "c" :> {"t"} @@ "t" :> {"d", "m"} @@ "d" :> {"n"} @@
             "m" :> {} @@ "n" :> {}
DagBoard  == [p \in Dag |-> IF p \in {"a", "t"} THEN "r" ELSE p]
DagEnding == [p \in Dag |-> CASE p \in {"m", "n"} -> "mate" [] p = "d" -> "rule"
                              [] OTHER -> "none"]

WorkerSymmetry == Permutations(Worker)

VARIABLE plan
OneWorker == Cardinality({w \in Worker : phase'[w] # "idle"}) <= 1
NoCollision == \A w \in Worker : bumps'[w] = <<>>
TwoSearches ==
  /\ (IF searches' = 0 THEN start' = "r" ELSE start' # "a") /\ Len(moves') <= 2
  /\ (earlier + playouts + AllVisits)' <= 5
  /\ \A w \in Worker : Visits(w)' <= 2
  /\ earlier' + playouts' < 2 => OneWorker /\ NoCollision /\ AllVisits' <= 1
  /\ searches = 2 => stage' # "set" /\ NoCollision /\ (playouts + AllVisits)' <= 2
ThreeSearches ==
  /\ stage = "over" =>
       /\ stage' = "set" /\ playouts >= (IF searches = 1 THEN 1 ELSE 0)
       /\ start' = IF searches < 2 THEN "a" ELSE "r"
       /\ moves' = <<>> <=> searches \in {0, 2}
  /\ searches' <= 3 /\ (searches' < 3 => earlier' + playouts' <= searches')
  /\ OneWorker /\ NoCollision /\ AllVisits' <= 1
  /\ (earlier + playouts + AllVisits)' <= 6
BothWays ==
  /\ moves' = <<>> /\ searches' <= 1 /\ (searches = 1 => stage' # "set")
  /\ OneWorker /\ NoCollision /\ AllVisits' <= (IF playouts' < 6 THEN 1 ELSE 3)
MCInit == Init /\ \/ plan = "two" /\ start = "r"
                  \/ plan = "three" /\ start = "a"
                  \/ plan = "ways" /\ start = "r"
MCNext == /\ Next /\ UNCHANGED plan
          /\ CASE plan = "two" -> TwoSearches
               [] plan = "three" -> ThreeSearches
               [] plan = "ways" -> BothWays /\ start' = "r"
MCSpec == MCInit /\ [][MCNext]_<<vars, plan>>
=============================================================================
