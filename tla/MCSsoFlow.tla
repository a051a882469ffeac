----------------------------- MODULE MCSsoFlow -----------------------------
(* SsoFlow with small sets, which the .cfg file fills.                     *)
EXTENDS SsoFlow, TLC
=============================================================================
