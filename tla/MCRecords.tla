----------------------------- MODULE MCRecords -----------------------------
(* Records with small sets, which the .cfg files fill.                     *)
EXTENDS Records, TLC

\* The rows of every table are interchangeable, and so are requests.
RecordsSymmetry == Permutations(Users) \cup Permutations(Requests)
                     \cup Permutations(Certifications)
=============================================================================
