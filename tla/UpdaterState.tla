---------------------------- MODULE UpdaterState ----------------------------
(***************************************************************************)
(* What the two models of embassy-boot's updater have in common: Boot, in  *)
(* which an application updates itself, and UsbDfu, in which the           *)
(* bootloader takes an image from a USB host.                              *)
(***************************************************************************)
CONSTANTS
    Erased, Mixed, \* what a piece of flash may hold that is no part of an image
    None

VARIABLES
    magic,      \* state word 0
    lastErased  \* BlockingFirmwareUpdater.last_erased_dfu_sector_index
=============================================================================
