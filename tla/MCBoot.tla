------------------------------- MODULE MCBoot -------------------------------
(* Instances of Boot for TLC: versions and page contents are model values. *)
EXTENDS Boot
=============================================================================
