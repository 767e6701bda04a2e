-------------------------- MODULE MCBufferedUartRx --------------------------
(* The instance of BufferedUartRx for TLC.                                 *)
EXTENDS BufferedUartRx
CONSTANTS r1, a, b

\* No character comes with an error.
NoErrors == ~rxError
=============================================================================
