----------------------------- MODULE MCSeedAdmin -----------------------------
(* SeedAdmin with small sets, and a seed email with a capital letter.      *)
EXTENDS SeedAdmin

CONSTANT root

Capitalised == [mailbox |-> root, blanks |-> FALSE, capitals |-> TRUE]
=============================================================================
