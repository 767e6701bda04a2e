---------------------------- MODULE TrialUpdate ----------------------------
(***************************************************************************)
(* What embassy-boot promises about the firmware of a device: updates "in  *)
(* a power-fail-safe way, with trial boots and rollbacks"                  *)
(* (embassy-boot/README.md:5).  The device runs one whole image or none.   *)
(* An update is staged by the running image, swapped in by the bootloader  *)
(* and run once; unless that trial run confirms it, the next boot rolls it *)
(* back.  The device may lose power at any moment.                         *)
(***************************************************************************)
CONSTANTS Versions, None

VARIABLES
    phase,      \* stable; staged; swapped, not yet tried; tried, not confirmed
    image,      \* the image to run when stable, to go back to otherwise
    candidate,  \* the update, unless stable
    running     \* the image that runs, if the device is on

updateVars == <<phase, image, candidate, running>>

UpdateInit ==
    /\ phase = "stable"
    /\ image \in Versions
    /\ candidate = None
    /\ running = None

Start ==
    /\ running = None
    /\ \/ phase = "stable" /\ running' = image /\ UNCHANGED phase
       \/ phase = "swapped" /\ running' = candidate /\ phase' = "tried"
    /\ UNCHANGED <<image, candidate>>

PowerOff ==
    /\ running # None
    /\ running' = None
    /\ UNCHANGED <<phase, image, candidate>>

Stage(v) ==
    /\ running # None
    /\ phase = "stable"
    /\ phase' = "staged"
    /\ candidate' = v
    /\ UNCHANGED <<image, running>>

\* mark_booted before the reset withdraws the update.
Withdraw ==
    /\ running # None
    /\ phase = "staged"
    /\ phase' = "stable"
    /\ candidate' = None
    /\ UNCHANGED <<image, running>>

SwapIn ==
    /\ running = None
    /\ phase = "staged"
    /\ phase' = "swapped"
    /\ UNCHANGED <<image, candidate, running>>

Confirm ==
    /\ running # None
    /\ phase = "tried"
    /\ phase' = "stable"
    /\ image' = candidate
    /\ candidate' = None
    /\ UNCHANGED running

\* A device that lost power before the trial rolls back untried.
RollBack ==
    /\ running = None
    /\ phase \in {"swapped", "tried"}
    /\ phase' = "stable"
    /\ candidate' = None
    /\ UNCHANGED <<image, running>>

UpdateNext ==
    \/ Start \/ PowerOff
    \/ \E v \in Versions : Stage(v)
    \/ Withdraw \/ SwapIn \/ Confirm \/ RollBack

UpdateSpec == UpdateInit /\ [][UpdateNext]_updateVars
=============================================================================
