---------------------------- MODULE MCScheduling ----------------------------
(* Scheduling with small sets, which the .cfg files fill with model values. *)
EXTENDS Scheduling, TLC

\* Users who are no managers are interchangeable, and so are trainings and
\* requests.
SchedulingSymmetry == Permutations(Users \ Managers) \cup Permutations(Trainings)
                        \cup Permutations(Requests)
=============================================================================
