---------------------------- MODULE MCEngineControl ----------------------------
\* EngineControl with the positions of a short game and one or two backends,
\* each with two policy temperatures.
EXTENDS EngineControl

Positions   == {"startpos", "e4"}
OneBackend  == {"cuda"}
TwoBackends == {"cuda", "onnx"}
Policies    == {"sharp", "flat"}
===============================================================================
