----------------------------- MODULE BatchService -----------------------------
(***************************************************************************)
(* What a Network promises to whoever computes a batch with it, however it *)
(* splits, joins or queues batches inside: a batch that was asked for is   *)
(* computed, once, before the call returns.  Only a network that is being  *)
(* destroyed may let a call return with nothing computed.  Demux and Mux   *)
(* implement it, and Mux computes with networks that do.                   *)
(***************************************************************************)
CONSTANT Client
VARIABLES
  phase,  \* of each client's batch: "idle", "asked", "answered" or "dropped"
  open    \* the network is not being destroyed

Turn(c, from, to) == phase[c] = from /\ phase' = [phase EXCEPT ![c] = to]

Init == phase = [c \in Client |-> "idle"] /\ open = TRUE

Ask(c)    == open /\ Turn(c, "idle", "asked") /\ open' = open
Answer(c) == Turn(c, "asked", "answered") /\ open' = open
Drop(c)   == ~open /\ Turn(c, "asked", "dropped") /\ open' = open
\* The client is done with the results and destroys the computation.
Leave(c)  == /\ Turn(c, "answered", "idle") \/ Turn(c, "dropped", "idle")
             /\ open' = open
Close     == open /\ open' = FALSE /\ UNCHANGED phase

Next == Close \/ \E c \in Client : Ask(c) \/ Answer(c) \/ Drop(c) \/ Leave(c)

SafetySpec == Init /\ [][Next]_<<phase, open>>
Spec == SafetySpec /\ \A c \in Client : WF_<<phase, open>>(Answer(c) \/ Drop(c))
===============================================================================
