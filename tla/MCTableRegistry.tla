--------------------------- MODULE MCTableRegistry ---------------------------
(***************************************************************************)
(* TableRegistry for TLC: ring tables and a heads-up tournament with a     *)
(* break after every level.                                                *)
(***************************************************************************)
EXTENDS TableRegistry, TLC

RingOf(seats) == [seats |-> seats, min |-> 2, stack |-> 1, tour |-> NoTour]
HeadsUp == [seats |-> 2, min |-> 2, stack |-> 1,
            tour |-> [entrants |-> 2,
                      levels |-> << [duration |-> 1, rest |-> 1, blind |-> 1] >>,
                      pool |-> 1, shares |-> << BasisPoints >>]]

RingAndTournament == {RingOf(2), HeadsUp}
WideRing == {RingOf(3)}

SessionSymmetry == Permutations(Sessions)

=============================================================================
