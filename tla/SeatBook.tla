------------------------------ MODULE SeatBook ------------------------------
(***************************************************************************)
(* What scheduled training sessions promise about seats, with no request,  *)
(* statement or table in sight: a book that records, for every session,    *)
(* who holds a seat, and the widest capacity the session was ever offered  *)
(* with.  A seat is handed out only while fewer than capacity + Slack are  *)
(* taken; Slack = 0 is the promise a reader of the API expects.            *)
(***************************************************************************)
EXTENDS Naturals, FiniteSets

CONSTANTS Users, Sessions,
          Capacities, \* the capacities a session may be offered with
          Slack       \* seats that may be handed out past the capacity

\* What the constants are: a hypothesis of BookSafe (SeatBookProofs).
BookAssumption == /\ Capacities \subseteq Nat
                  /\ Slack \in Nat
                  /\ IsFiniteSet(Users)

VARIABLES seats,      \* seats[s]: the users holding a seat in session s
          peak        \* peak[s]: the widest capacity s was offered with

bookVars == <<seats, peak>>

\* NULL in training_sessions.capacity: no limit.  A stored capacity is >= 1.
NoLimit == 0

\* The wider of two capacities.
Wider(c, d) == IF c = NoLimit \/ d = NoLimit THEN NoLimit
               ELSE IF c >= d THEN c ELSE d

HasRoom(s) == peak[s] = NoLimit \/ Cardinality(seats[s]) < peak[s] + Slack

BookInit == /\ seats = [s \in Sessions |-> {}]
            /\ peak = [s \in Sessions |-> NoLimit]

\* A session nobody holds a seat in is offered with capacity c.
Offer(s, c) == /\ seats[s] = {}
               /\ peak' = [peak EXCEPT ![s] = c]
               /\ UNCHANGED seats

\* The capacity is changed to c; only widening moves the peak.
Resize(s, c) == /\ peak' = [peak EXCEPT ![s] = Wider(@, c)]
                /\ UNCHANGED seats

\* One user takes one seat.
Admit(s, u) == /\ u \notin seats[s]
               /\ HasRoom(s)
               /\ seats' = [seats EXCEPT ![s] = @ \cup {u}]
               /\ UNCHANGED peak

\* Any number of seats are given up at once: a cancellation, a deleted
\* session or training, an erased account.
Release == /\ seats' \in [Sessions -> SUBSET Users]
           /\ \A s \in Sessions : seats'[s] \subseteq seats[s]
           /\ UNCHANGED peak

BookNext == \/ \E s \in Sessions, c \in Capacities : Offer(s, c) \/ Resize(s, c)
            \/ \E s \in Sessions, u \in Users : Admit(s, u)
            \/ Release

BookSpec == BookInit /\ [][BookNext]_bookVars
-----------------------------------------------------------------------------
\* Who holds a seat where, and the peaks, are what they are declared to be.
BookTypeOK == /\ seats \in [Sessions -> SUBSET Users]
              /\ peak \in [Sessions -> Nat]

\* What the book is kept for: never more holders than the widest capacity
\* offered, plus the slack.
NeverOversold == \A s \in Sessions :
  peak[s] # NoLimit => Cardinality(seats[s]) <= peak[s] + Slack
=============================================================================
