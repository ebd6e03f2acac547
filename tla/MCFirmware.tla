------------------------------ MODULE MCFirmware ------------------------------
(* The firmware with two operations and two compartments. *)
EXTENDS Firmware
=============================================================================
