--------------------------- MODULE MCMultiwayHand ---------------------------
(***************************************************************************)
(* Instances of MultiwayHand for TLC.                                      *)
(***************************************************************************)
EXTENDS HandViews

(* The ring-game blinds, and a tournament level with an ante. *)
RingBlinds == {[sb |-> 1, bb |-> 2, ante |-> 0]}
AnteBlinds == {[sb |-> 1, bb |-> 2, ante |-> 1]}
AllBlinds  == RingBlinds \cup AnteBlinds

(* Bound: seats come back with debts at the ring-game blinds, and to tables *)
(* of up to three.                                                         *)
MCInit ==
  /\ \E stacks \in Rosters, blinds \in BlindLevels :
       \E button \in Buttons \cap DOMAIN stacks,
          debts \in [DOMAIN stacks -> IF blinds.ante = 0 /\ Cardinality(DOMAIN stacks) < 4
                                     THEN Debts ELSE {"Clear"}] :
         hand = NewHand(stacks, button, blinds, debts)
  /\ fullRaise = {}
MCSpec == MCInit /\ [][Next]_vars

=============================================================================
