-------------------------- MODULE MCLoginThrottle --------------------------
(* LoginThrottle with small sets, which the .cfg file fills.               *)
EXTENDS LoginThrottle
=============================================================================
