------------------------------ MODULE MCBrowser ------------------------------
(* Browser with small sets, which the .cfg file fills.                     *)
EXTENDS Browser, TLC

\* Accounts, tokens, requests and tabs are interchangeable.
BrowserSymmetry == Permutations(Users) \cup Permutations(Tokens)
                   \cup Permutations(Requests) \cup Permutations(Tabs)
=============================================================================
