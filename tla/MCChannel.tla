----------------------------- MODULE MCChannel -----------------------------
\* Instances of Channel for model checking.
EXTENDS Channel

CONSTANTS t1, t2, t3
=============================================================================
