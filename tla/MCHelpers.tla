------------------------------ MODULE MCHelpers -------------------------------
\* The threads that work beside a search: the helpers of a worker (TaskPool), and the
\* collector of the graph's nodes (NodeGarbage).  They have nothing in common: a
\* behaviour is of the one or of the other, decided by the first state.
\*
\* Two helpers are enough for both to race for one task, and for one to hold counters
\* of a round that ended while the other works.
EXTENDS TaskPool, NodeGarbage

VARIABLE threads

TwoHelpers == {"h1", "h2"}

allVars == <<vars, garbageVars, threads>>
IsPool      == threads = "helpers" /\ UNCHANGED <<garbageVars, threads>>
IsCollector == threads = "collector" /\ UNCHANGED <<vars, threads>>

HelpersInit == Init /\ GarbageInit /\ threads \in {"helpers", "collector"}
HelpersNext == (IsPool /\ Next) \/ (IsCollector /\ GarbageNext)
\* The fairness of either, as FairSpec and GarbageFairSpec state it.
HelpersSpec ==
  /\ HelpersInit /\ [][HelpersNext]_allVars
  /\ WF_allVars(IsPool /\ Work)
  /\ \A h \in Helper : WF_allVars(IsPool /\ RunTasks(h)) /\ SF_allVars(IsPool /\ Grab(h))
  /\ WF_allVars(IsCollector /\ GCThread)
  /\ WF_allVars(IsCollector /\ CommandsGoOn)
===============================================================================
