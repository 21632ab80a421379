---------------------------- MODULE MCCoapClient ----------------------------
(* Two calls of the client functions for TLC: they can follow each other on  *)
(* one task or overlap on two.                                               *)
EXTENDS CoapClient

CONSTANTS c1, c2
=============================================================================
