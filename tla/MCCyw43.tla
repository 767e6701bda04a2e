------------------------------- MODULE MCCyw43 -------------------------------
\* An instance of Cyw43 for model checking.
EXTENDS Cyw43
=============================================================================
