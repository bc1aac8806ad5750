------------------------------- MODULE MCWire -------------------------------
(* A small instance of Wire for TLC: the cfg gives all constants.          *)
EXTENDS Wire
=============================================================================
