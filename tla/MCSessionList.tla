--------------------------- MODULE MCSessionList ---------------------------
(* SessionList with small sets, which the .cfg file fills.                 *)
EXTENDS SessionList
=============================================================================
