------------------------------ MODULE MCUsbDfu ------------------------------
\* Instances of UsbDfu for model checking.
EXTENDS UsbDfu

CONSTANTS a, b
=============================================================================
