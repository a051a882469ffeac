--------------------------- MODULE SeatBookProofs ---------------------------
(* The seat book is never oversold, for any users, sessions, capacities and *)
(* slack.                                                                   *)
EXTENDS SeatBook, FiniteSetTheorems, TLAPS

LEMMA SeatSets ==
  ASSUME BookAssumption PROVE
  \A S \in SUBSET Users : IsFiniteSet(S) /\ Cardinality(S) \in Nat
  BY FS_Subset, FS_CardinalityType DEF BookAssumption

LEMMA CapacityNat ==
  ASSUME BookAssumption PROVE \A c \in Capacities : c \in Nat
  BY DEF BookAssumption

LEMMA SlackNat == ASSUME BookAssumption PROVE Slack \in Nat
  BY DEF BookAssumption

LEMMA BookInduction ==
  ASSUME BookAssumption, BookTypeOK, NeverOversold, [BookNext]_bookVars
  PROVE  BookTypeOK' /\ NeverOversold'
<1> USE DEF BookTypeOK
<1>1. CASE UNCHANGED bookVars
  BY <1>1 DEF bookVars, NeverOversold
<1>2. ASSUME NEW s \in Sessions, NEW c \in Capacities, Offer(s, c)
      PROVE  BookTypeOK' /\ NeverOversold'
  <2>1. BookTypeOK'
    BY <1>2, CapacityNat DEF Offer
  <2>2. Cardinality(seats'[s]) = 0
    BY <1>2, FS_EmptySet DEF Offer
  <2>3. ASSUME NEW t \in Sessions, peak'[t] # NoLimit
        PROVE  Cardinality(seats'[t]) <= peak'[t] + Slack
    <3>1. CASE t = s
      <4>1. peak'[t] \in Nat
        BY <2>1
      <4> QED
        BY <2>2, <3>1, <4>1, SlackNat
    <3>2. CASE t # s
      BY <1>2, <2>3, <3>2 DEF Offer, NeverOversold
    <3> QED
      BY <3>1, <3>2
  <2> QED
    BY <2>1, <2>3 DEF NeverOversold
<1>3. ASSUME NEW s \in Sessions, NEW c \in Capacities, Resize(s, c)
      PROVE  BookTypeOK' /\ NeverOversold'
  <2>1. BookTypeOK'
    BY <1>3, CapacityNat DEF Resize, Wider, NoLimit
  <2>2. ASSUME NEW t \in Sessions, peak'[t] # NoLimit
        PROVE  Cardinality(seats'[t]) <= peak'[t] + Slack
    <3>1. peak[t] # NoLimit /\ peak[t] <= peak'[t]
      BY <1>3, <2>2, CapacityNat DEF Resize, Wider, NoLimit
    <3>2. seats' = seats /\ Cardinality(seats[t]) \in Nat
      BY <1>3, SeatSets DEF Resize
    <3>3. Cardinality(seats[t]) <= peak[t] + Slack
      BY <3>1 DEF NeverOversold
    <3> QED
      BY <2>1, <3>1, <3>2, <3>3, SlackNat
  <2> QED
    BY <2>1, <2>2 DEF NeverOversold
<1>4. ASSUME NEW s \in Sessions, NEW u \in Users, Admit(s, u)
      PROVE  BookTypeOK' /\ NeverOversold'
  <2>1. BookTypeOK'
    BY <1>4 DEF Admit
  <2>2. Cardinality(seats'[s]) = Cardinality(seats[s]) + 1
    <3>1. seats'[s] = seats[s] \cup {u} /\ u \notin seats[s]
      BY <1>4 DEF Admit
    <3>2. IsFiniteSet(seats[s])
      BY SeatSets
    <3> QED
      BY <3>1, <3>2, FS_AddElement
  <2>3. ASSUME NEW t \in Sessions, peak'[t] # NoLimit
        PROVE  Cardinality(seats'[t]) <= peak'[t] + Slack
    <3>1. CASE t = s
      <4>1. Cardinality(seats[s]) \in Nat /\ peak[s] \in Nat
        BY SeatSets
      <4>2. peak'[s] = peak[s] /\ Cardinality(seats[s]) < peak[s] + Slack
        BY <1>4, <2>3, <3>1 DEF Admit, HasRoom
      <4> QED
        BY <2>2, <3>1, <4>1, <4>2, SlackNat
    <3>2. CASE t # s
      BY <1>4, <2>3, <3>2 DEF Admit, NeverOversold
    <3> QED
      BY <3>1, <3>2
  <2> QED
    BY <2>1, <2>3 DEF NeverOversold
<1>5. CASE Release
  <2>1. BookTypeOK'
    BY <1>5 DEF Release
  <2>2. ASSUME NEW t \in Sessions, peak'[t] # NoLimit
        PROVE  Cardinality(seats'[t]) <= peak'[t] + Slack
    <3>1. Cardinality(seats'[t]) <= Cardinality(seats[t])
      BY <1>5, SeatSets, FS_Subset DEF Release
    <3>2. /\ Cardinality(seats[t]) \in Nat /\ Cardinality(seats'[t]) \in Nat
          /\ peak[t] \in Nat /\ peak' = peak
      BY <1>5, SeatSets DEF Release
    <3>3. Cardinality(seats[t]) <= peak[t] + Slack
      BY <2>2, <3>2 DEF NeverOversold
    <3> QED
      BY <3>1, <3>2, <3>3, SlackNat
  <2> QED
    BY <2>1, <2>2 DEF NeverOversold
<1> QED
  BY <1>1, <1>2, <1>3, <1>4, <1>5 DEF BookNext

\* The book's promise, from its four actions alone: together with the
\* refinement proved of the handlers it bounds what enroll can hand out.
THEOREM BookSafe ==
  ASSUME BookAssumption
  PROVE  BookSpec => [](BookTypeOK /\ NeverOversold)
<1>1. BookInit => BookTypeOK /\ NeverOversold
  BY DEF BookInit, BookTypeOK, NeverOversold, NoLimit
<1>2. BookTypeOK /\ NeverOversold /\ [BookNext]_bookVars
        => (BookTypeOK /\ NeverOversold)'
  BY BookInduction
<1> QED
  BY <1>1, <1>2, PTL DEF BookSpec
=============================================================================
