----------------------------- MODULE MCPubSub -----------------------------
\* Instances of PubSub for model checking.
EXTENDS PubSub

CONSTANTS s1, s2, s3, p1, p2
=============================================================================
