--------------------------- MODULE MCDeviceReports ---------------------------
(* Two devices for TLC, with more ids than places by one: the id wraps round *)
(* within a few additions.                                                   *)
EXTENDS DeviceReports

CONSTANTS d1, d2
=============================================================================
