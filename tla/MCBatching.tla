------------------------------ MODULE MCBatching ------------------------------
\* The two networks that batch for others, Demux or Mux: a behaviour is one's or the
\* other's, decided by the first state.
\*
\* Demux: two devices with one thread each and batch_step_ 2.  One caller's batch is
\* a single part, the other's one of two steps and one of a single input, cut off by
\* the end of the batch.
\*
\* Mux: two workers with different limits: the large batch exceeds the one; the other
\* fits both batches.
EXTENDS Demux, Mux, TLC

VARIABLE network

OneThreadEach == "t0" :> 0 @@ "t1" :> 1
Batches       == "small" :> {1} @@ "large" :> {5}
Limits        == "w1" :> 2 @@ "w2" :> 4
Widths        == "c1" :> 1 @@ "c2" :> 3

vars == <<demuxVars, muxVars, network>>
IsDemux == network = "demux" /\ UNCHANGED <<muxVars, network>>
IsMux   == network = "mux" /\ UNCHANGED <<demuxVars, network>>

BatchingInit == DemuxInit /\ MuxInit /\ network \in {"demux", "mux"}
BatchingNext == (IsDemux /\ DemuxNext) \/ (IsMux /\ MuxNext)
\* Each network's own fairness.
BatchingSpec ==
  /\ BatchingInit /\ [][BatchingNext]_vars
  /\ \A c \in Caller : /\ WF_vars(IsDemux /\ CallerStep(c))
                       /\ SF_vars(IsDemux /\ SendPart(c))
  /\ \A t \in Thread : WF_vars(IsDemux /\ ThreadStep(t))
  /\ WF_vars(IsDemux /\ OwnerStep)
  /\ \A c \in Child : WF_vars(IsMux /\ ChildStep(c))
  /\ \A w \in Worker : WF_vars(IsMux /\ WorkerStep(w))
  /\ WF_vars(IsMux /\ CloserStep)
===============================================================================
