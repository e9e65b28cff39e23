------------------------ MODULE TableLifecycleProofs ------------------------
(***************************************************************************)
(* Proofs about TableLifecycle: a hand in play keeps the seats it was      *)
(* dealt to, with the stacks of its snapshot, whatever is requested of the *)
(* table meanwhile, for any identities, stacks and table size.             *)
(*                                                                         *)
(* And about PracticeTable, the table of one process that deals hand after *)
(* hand to a learner and bots.  The two have no state in common.  What is  *)
(* queued for the learner's screen carries on place by place from where    *)
(* its client is, and as long as the subscription stands it ends where the *)
(* runtime is; an answer is where the runtime is too, so what is queued    *)
(* behind it is known already (PracticeInv).                               *)
(***************************************************************************)
EXTENDS TableLifecycle, PracticeTable, ChipSums, FiniteSetTheorems, SequenceTheorems, TLAPS

-----------------------------------------------------------------------------
(* Seats on the ring. *)

(* MinFacts: the least of a set. *)
LEMMA MinFacts ==
  ASSUME NEW S \in SUBSET Nat, S # {}
  PROVE  Min(S) \in S /\ \A y \in S : Min(S) <= y
BY LeastOf DEF Min

(* OffsetType: distances around the table are natural numbers. *)
LEMMA OffsetType ==
  ASSUME NEW a \in Seats \cup {NoSeat}, NEW s \in Seats
  PROVE  Offset(a, s) \in Nat
<1>1. TableSize \in Nat \ {0} /\ s - a + TableSize \in Int
  BY LifecycleAssumption DEF Seats, NoSeat
<1> QED BY <1>1 DEF Offset

(* NextEligibleFacts: the next seat of a set, when there is one. *)
LEMMA NextEligibleFacts ==
  ASSUME NEW a \in Seats \cup {NoSeat}, NEW S \in SUBSET Seats, S \ {a} # {}
  PROVE  NextEligible(a, S) \in S \ {a}
<1> DEFINE T == S \ {a}
           D == {Offset(a, s) : s \in T}
<1>1. D \in SUBSET Nat /\ D # {}
  BY OffsetType
<1>2. PICK d \in D : \A e \in D : d <= e
  BY <1>1, LeastOf
<1>3. PICK s \in T : d = Offset(a, s)
  BY <1>2
<1>4. \A t \in T : Offset(a, s) <= Offset(a, t)
  BY <1>2, <1>3
<1>5. (CHOOSE x \in T : \A t \in T : Offset(a, x) <= Offset(a, t)) \in T
  BY <1>3, <1>4
<1> QED BY <1>5 DEF NextEligible

(* TwoSeats: of two seats one is not the given one. *)
LEMMA TwoSeats ==
  ASSUME NEW S \in SUBSET Seats, Cardinality(S) >= 2, NEW a
  PROVE  S \ {a} # {}
<1>1. IsFiniteSet(S) /\ Cardinality(S) \in Nat
  <2>1. IsFiniteSet(Seats)
    BY FS_Interval, LifecycleAssumption DEF Seats
  <2> QED BY <2>1, FS_Subset, FS_CardinalityType
<1>2. IsFiniteSet(S \ {a}) /\ Cardinality(S \ {a}) >= 1
  BY <1>1, FS_RemoveElement
<1> QED BY <1>2, FS_EmptySet

(* ButtonDealt: the button of a hand is among the seats it is dealt to. *)
LEMMA ButtonDealt ==
  ASSUME TypeOK, NEW S \in SUBSET Seats, Cardinality(S) >= 2
  PROVE  ButtonOver(S) \in S
<1>1. S \ {lastButton} # {}
  BY TwoSeats
<1>2. CASE lastButton = NoSeat
  <2>1. S \in SUBSET Nat /\ S # {}
    BY <1>1, LifecycleAssumption DEF Seats
  <2> QED BY <1>2, <2>1, MinFacts DEF ButtonOver
<1>3. CASE lastButton # NoSeat
  BY <1>1, <1>3, NextEligibleFacts DEF ButtonOver, TypeOK
<1> QED BY <1>2, <1>3

-----------------------------------------------------------------------------
(* Rosters. *)

Rosters == [Seats -> SeatStates \cup {Vacant}]
(* Nobody is marked as dealt. *)
Unmarked(t) == \A s \in Occupied(t) : ~t[s].dealt

(* SeatOfFacts: a seated player has a seat. *)
LEMMA SeatOfFacts ==
  ASSUME NEW p \in Players, SeatedIn(seats, p)
  PROVE  SeatOf(p) \in Occupied(seats) /\ seats[SeatOf(p)].player = p
BY DEF SeatedIn, SeatOf, SeatsOf

(* OccupiedIs: an occupied seat holds a seat state. *)
LEMMA OccupiedIs ==
  ASSUME NEW t \in Rosters, NEW s \in Seats
  PROVE  s \in Occupied(t) <=> t[s] \in SeatStates
BY LifecycleAssumption DEF Rosters, Occupied

(* NewSeatFacts: a newcomer is not dealt in. *)
LEMMA NewSeatFacts ==
  ASSUME NEW p \in Players, NEW stack \in BuyIns
  PROVE  NewSeat(p, stack) \in SeatStates /\ ~NewSeat(p, stack).dealt
BY LifecycleAssumption DEF NewSeat, SeatStates, Participations, Obligations

(* TransitionFacts: a transition vacates a seat or changes its participation. *)
LEMMA TransitionFacts ==
  ASSUME NEW t \in Rosters, NEW s \in Occupied(t), NEW transition \in Transitions
  PROVE  LET u == ApplyTransition(t, s, transition) IN
         /\ u \in Rosters
         /\ \A r \in Seats : r # s => u[r] = t[r]
         /\ \/ u[s] = Vacant
            \/ u[s] \in SeatStates /\ u[s].stack = t[s].stack /\ u[s].dealt = t[s].dealt
<1> DEFINE part(x) == [t[s] EXCEPT !.part = x]
<1>1. s \in Seats /\ t[s] \in SeatStates /\ t \in [Seats -> SeatStates \cup {Vacant}]
  BY OccupiedIs DEF Occupied, Rosters
<1>2. ASSUME NEW x \in Participations
      PROVE  /\ part(x) \in SeatStates /\ part(x).stack = t[s].stack
             /\ part(x).dealt = t[s].dealt
  BY <1>1 DEF SeatStates
<1>3. \A x : [t EXCEPT ![s].part = x] = [t EXCEPT ![s] = part(x)]
  BY <1>1
<1>4. \/ ApplyTransition(t, s, transition) = [t EXCEPT ![s] = Vacant]
      \/ \E x \in Participations : ApplyTransition(t, s, transition) = [t EXCEPT ![s] = part(x)]
  <2>1. CASE transition = "SitOut"
    BY <1>3, <2>1 DEF ApplyTransition, Participations
  <2>2. CASE transition = "Return"
    <3> DEFINE x == IF t[s].owed = "Clear" THEN "Active" ELSE "WaitingForBlind"
    <3>1. x \in Participations
      BY DEF Participations
    <3>2. ApplyTransition(t, s, transition) = [t EXCEPT ![s].part = x]
      BY <1>1, <2>2 DEF ApplyTransition
    <3> HIDE DEF x
    <3> QED BY <1>3, <3>1, <3>2
  <2>3. CASE transition = "Leave"
    BY <2>3 DEF ApplyTransition
  <2> QED BY <2>1, <2>2, <2>3 DEF Transitions
<1> HIDE DEF part
<1> QED BY <1>1, <1>2, <1>4 DEF Rosters

(* RefreshType: what refresh_between_hand_state leaves is a run state. *)
LEMMA RefreshType ==
  ASSUME NEW t, NEW s
  PROVE  Refresh(t, s) \in RunStates
BY DEF Refresh, RunStates

(* PromotedFacts: the promotion of a waiter for the big blind changes nobody's
   stack. *)
LEMMA PromotedFacts ==
  ASSUME TypeOK
  PROVE  /\ Promoted \in Rosters
         /\ \A s \in Seats : /\ Promoted[s] = Vacant <=> seats[s] = Vacant
                             /\ Promoted[s].dealt = seats[s].dealt
                             /\ Promoted[s].stack = seats[s].stack
<1>1. seats \in [Seats -> SeatStates \cup {Vacant}] /\ seats \in Rosters
  BY DEF TypeOK, Rosters
<1>2. CASE Promotable = {}
  BY <1>1, <1>2 DEF Promoted
<1>3. CASE Promotable # {}
  <2> DEFINE m == Min(Promotable)
             q == [seats[m] EXCEPT !.part = "Active", !.owed = "Clear"]
  <2>1. Promotable \in SUBSET Nat /\ Promotable \subseteq Occupied(seats)
    BY LifecycleAssumption DEF Promotable, Occupied, Seats
  <2>2. m \in Occupied(seats) /\ m \in Seats
    BY <1>3, <2>1, MinFacts DEF Occupied
  <2> HIDE DEF m
  <2>3. seats[m] \in SeatStates
    BY <1>1, <2>2, OccupiedIs
  <2>4. q \in SeatStates /\ q.dealt = seats[m].dealt /\ q.stack = seats[m].stack
    BY <2>3 DEF SeatStates, Participations, Obligations
  <2>5. Promoted = [seats EXCEPT ![m] = q]
    BY <1>1, <1>3, <2>2 DEF Promoted, m
  <2> HIDE DEF q
  <2> QED BY <1>1, <2>2, <2>3, <2>4, <2>5, LifecycleAssumption DEF Rosters
<1> QED BY <1>2, <1>3

-----------------------------------------------------------------------------
(* A hand in play keeps its roster. *)

(* HandRosterIntact does not say of a seat outside the hand that it is not
   marked, when its stack is not the one of a snapshot it is not in; with that,
   and with the types, it is inductive. *)
OnlyDealtMarked ==
  HandActive => \A s \in Occupied(seats) : seats[s].dealt => s \in DOMAIN start.stacks
DealtToSeats == HandActive => DOMAIN start.stacks \subseteq Seats
RosterInv == TypeOK /\ HandRosterIntact /\ OnlyDealtMarked /\ DealtToSeats

(* QuietStep: a step between hands that leaves nobody marked. *)
LEMMA QuietStep ==
  ASSUME RosterInv, ~HandActive, UNCHANGED <<start, lastButton, nextHand>>,
         seats' \in Rosters, Unmarked(seats'), reserved' \in [Seats -> Players \cup {Vacant}],
         pending' \in [Players -> Transitions \cup {"None"}], state' \in RunStates
  PROVE  RosterInv'
BY DEF RosterInv, TypeOK, HandRosterIntact, OnlyDealtMarked, DealtToSeats, HandActive, Rosters, Unmarked

(* HandStep: a step during a hand that leaves the cards where they are. *)
LEMMA HandStep ==
  ASSUME RosterInv, UNCHANGED <<start, state, lastButton, nextHand>>, seats' \in Rosters,
         \A s \in Seats : /\ seats'[s] = Vacant <=> seats[s] = Vacant
                          /\ seats'[s].dealt = seats[s].dealt
                          /\ seats'[s].stack = seats[s].stack,
         reserved' \in [Seats -> Players \cup {Vacant}],
         pending' \in [Players -> Transitions \cup {"None"}]
  PROVE  RosterInv'
<1>1. TypeOK'
  BY DEF RosterInv, TypeOK, Rosters
<1>2. HandRosterIntact'
  BY DEF RosterInv, HandRosterIntact, HandActive, Occupied
<1>3. OnlyDealtMarked' /\ DealtToSeats'
  BY DEF RosterInv, OnlyDealtMarked, DealtToSeats, HandActive, Occupied
<1> QED BY <1>1, <1>2, <1>3 DEF RosterInv

(* BetweenHands: between hands nobody is marked. *)
LEMMA BetweenHands ==
  ASSUME RosterInv, ~HandActive
  PROVE  Unmarked(seats) /\ seats \in Rosters
BY DEF RosterInv, TypeOK, HandRosterIntact, Unmarked, Rosters

(* SeatChange: a seat that changes between hands is not dealt in. *)
LEMMA SeatChange ==
  ASSUME RosterInv, ~HandActive, NEW s \in Seats, NEW x \in SeatStates \cup {Vacant},
         x = Vacant \/ ~x.dealt
  PROVE  [seats EXCEPT ![s] = x] \in Rosters /\ Unmarked([seats EXCEPT ![s] = x])
BY BetweenHands DEF Rosters, Unmarked, Occupied

(* SeatingStep: reservations and seats. *)
LEMMA SeatingStep ==
  ASSUME RosterInv, Seating
  PROVE  RosterInv'
<1> PICK p \in Players, s \in Seats :
      \/ Reserve(p, s) \/ CancelReservation(p, s)
      \/ \E stack \in Affordable : Occupy(p, s, stack) \/ Join(p, s, stack)
      \/ \E stack \in Affordable, entry \in Entries : JoinWithEntry(p, s, stack, entry)
  BY DEF Seating
<1>1. reserved \in [Seats -> Players \cup {Vacant}] /\ pending \in [Players -> Transitions \cup {"None"}]
  BY DEF RosterInv, TypeOK
<1>2. CASE Reserve(p, s) \/ CancelReservation(p, s)
  <2>1. /\ UNCHANGED <<seats, pending, state, start, lastButton, nextHand>>
        /\ reserved' \in [Seats -> Players \cup {Vacant}]
    BY <1>1, <1>2 DEF Reserve, CancelReservation
  <2> QED BY <1>1, <2>1, HandStep DEF RosterInv, TypeOK, Rosters
<1>3. ASSUME NEW stack \in Affordable, Occupy(p, s, stack) \/ Join(p, s, stack)
      PROVE  RosterInv'
  <2>1. /\ ~HandActive /\ seats' = [seats EXCEPT ![s] = NewSeat(p, stack)]
        /\ reserved' \in [Seats -> Players \cup {Vacant}] /\ state' \in RunStates
        /\ UNCHANGED <<pending, start, lastButton, nextHand>>
    BY <1>1, <1>3, RefreshType DEF Occupy, Join
  <2>2. stack \in BuyIns
    BY DEF Affordable
  <2>3. seats' \in Rosters /\ Unmarked(seats')
    BY <2>1, <2>2, NewSeatFacts, SeatChange
  <2> QED BY <1>1, <2>1, <2>3, QuietStep
<1>4. ASSUME NEW stack \in Affordable, NEW entry \in Entries, JoinWithEntry(p, s, stack, entry)
      PROVE  RosterInv'
  <2> DEFINE new == NewSeat(p, stack)
             part == IF entry = "WaitForBigBlind" THEN "WaitingForBlind" ELSE "Active"
             owing == [new EXCEPT !.owed = "OwesBigBlind", !.part = part]
  <2>1. stack \in BuyIns /\ seats \in Rosters
    BY BetweenHands, <1>4 DEF Affordable, JoinWithEntry
  <2>2. new \in SeatStates /\ ~new.dealt
    BY <2>1, NewSeatFacts
  <2> HIDE DEF new
  <2>3. part \in Participations /\ part = (IF entry = "WaitForBigBlind" THEN "WaitingForBlind" ELSE "Active")
    BY DEF Participations
  <2> HIDE DEF part
  <2>4. owing \in SeatStates /\ ~owing.dealt
    BY <2>2, <2>3 DEF SeatStates, Obligations
  <2>0. ASSUME NEW joined, joined = [seats EXCEPT ![s] = new]
        PROVE  [joined EXCEPT ![s].owed = "OwesBigBlind", ![s].part = part]
                 = [seats EXCEPT ![s] = owing]
    BY <2>0, <2>1 DEF Rosters
  <2>5. /\ ~HandActive
        /\ seats' = [seats EXCEPT ![s] = new] \/ seats' = [seats EXCEPT ![s] = owing]
        /\ state' \in RunStates /\ UNCHANGED <<reserved, pending, start, lastButton, nextHand>>
    BY <1>4, <2>0, <2>3, RefreshType DEF JoinWithEntry, new
  <2> HIDE DEF owing
  <2>6. seats' \in Rosters /\ Unmarked(seats')
    BY <2>2, <2>4, <2>5, SeatChange
  <2> QED BY <1>1, <2>5, <2>6, QuietStep
<1> QED BY <1>2, <1>3, <1>4

(* AddDebtType: debts add up to a debt. *)
LEMMA AddDebtType ==
  ASSUME NEW owed \in Obligations, NEW missed \in MissedBlinds
  PROVE  AddDebt(owed, missed) \in Obligations
BY LifecycleAssumption DEF AddDebt, Obligations

(* RequestsStep: requests of seated players wait for the end of the hand. *)
LEMMA RequestsStep ==
  ASSUME RosterInv, Requests
  PROVE  RosterInv'
<1> PICK p \in Players :
      \/ \E missed \in MissedBlinds : RecordMissedBlind(p, missed)
      \/ \E entry \in Entries : ReturnWithEntry(p, entry)
      \/ \E connected \in BOOLEAN : SetConnection(p, connected)
      \/ \E transition \in Transitions : RequestTransition(p, transition)
  BY DEF Requests
<1>1. SeatedIn(seats, p)
  BY DEF RecordMissedBlind, ReturnWithEntry, SetConnection, RequestTransition
<1> DEFINE s == SeatOf(p)
<1>2. /\ s \in Occupied(seats) /\ s \in Seats /\ seats \in Rosters
      /\ reserved \in [Seats -> Players \cup {Vacant}]
      /\ pending \in [Players -> Transitions \cup {"None"}] /\ state \in RunStates
  BY <1>1, SeatOfFacts DEF Occupied, RosterInv, TypeOK, Rosters
<1>3. seats[s] \in SeatStates
  BY <1>2, OccupiedIs
<1>4. ~HandActive => ~seats[s].dealt
  BY <1>2, BetweenHands DEF Unmarked
<1>5. ASSUME NEW missed \in MissedBlinds, RecordMissedBlind(p, missed)
      PROVE  RosterInv'
  <2> DEFINE x == [seats[s] EXCEPT !.owed = AddDebt(@, missed)]
  <2>1. AddDebt(seats[s].owed, missed) \in Obligations
    BY <1>3, AddDebtType DEF SeatStates
  <2>2. x \in SeatStates /\ x.dealt = seats[s].dealt
    BY <1>3, <2>1 DEF SeatStates
  <2>3. /\ ~HandActive /\ UNCHANGED <<reserved, pending, state, start, lastButton, nextHand>>
        /\ seats' = [seats EXCEPT ![s] = x]
    BY <1>2, <1>5 DEF RecordMissedBlind, Rosters
  <2> HIDE DEF x, s
  <2> QED BY <1>2, <1>4, <2>2, <2>3, SeatChange, QuietStep
<1>6. ASSUME NEW entry \in Entries, ReturnWithEntry(p, entry)
      PROVE  RosterInv'
  <2> DEFINE part == IF seats[s].owed # "Clear" /\ entry = "WaitForBigBlind"
                     THEN "WaitingForBlind" ELSE "Active"
             x == [seats[s] EXCEPT !.part = part]
  <2>1. part \in Participations
    BY DEF Participations
  <2>2. /\ ~HandActive /\ UNCHANGED <<reserved, pending, start, lastButton, nextHand>>
        /\ seats' = [seats EXCEPT ![s] = x] /\ state' \in RunStates
    BY <1>2, <1>6, RefreshType DEF ReturnWithEntry, Rosters
  <2> HIDE DEF part
  <2>3. x \in SeatStates /\ x.dealt = seats[s].dealt
    BY <1>3, <2>1 DEF SeatStates
  <2> HIDE DEF x, s
  <2> QED BY <1>2, <1>4, <2>2, <2>3, SeatChange, QuietStep
<1>7. ASSUME NEW connected \in BOOLEAN, SetConnection(p, connected)
      PROVE  RosterInv'
  <2> DEFINE x == [seats[s] EXCEPT !.connected = connected]
  <2>1. x \in SeatStates /\ x.dealt = seats[s].dealt /\ x.stack = seats[s].stack
    BY <1>3 DEF SeatStates
  <2>2. /\ UNCHANGED <<reserved, pending, state, start, lastButton, nextHand>>
        /\ seats' = [seats EXCEPT ![s] = x]
    BY <1>2, <1>7 DEF SetConnection, Rosters
  <2> HIDE DEF x, s
  <2>3. /\ seats' \in Rosters
        /\ \A r \in Seats : /\ seats'[r] = Vacant <=> seats[r] = Vacant
                            /\ seats'[r].dealt = seats[r].dealt
                            /\ seats'[r].stack = seats[r].stack
    BY <1>2, <1>3, <2>1, <2>2, LifecycleAssumption DEF Rosters
  <2> QED BY <1>2, <2>2, <2>3, HandStep
<1>8. ASSUME NEW transition \in Transitions, RequestTransition(p, transition)
      PROVE  RosterInv'
  <2>1. CASE HandActive
    <3>1. /\ UNCHANGED <<seats, reserved, state, start, lastButton, nextHand>>
          /\ pending' \in [Players -> Transitions \cup {"None"}]
      BY <1>2, <1>8, <2>1 DEF RequestTransition, Queue
    <3> QED BY <1>2, <3>1, HandStep
  <2>2. CASE ~HandActive
    <3> DEFINE u == ApplyTransition(seats, s, transition)
    <3>1. /\ seats' = u /\ state' \in RunStates
          /\ UNCHANGED <<reserved, pending, start, lastButton, nextHand>>
      BY <1>8, <2>2, RefreshType DEF RequestTransition
    <3> HIDE DEF s
    <3>2. /\ u \in Rosters
          /\ \A r \in Seats : r # s => u[r] = seats[r]
          /\ u[s] = Vacant \/ u[s].dealt = seats[s].dealt
      BY <1>2, TransitionFacts
    <3> HIDE DEF u
    <3>3. Unmarked(u)
      BY <1>2, <1>4, <2>2, <3>2, BetweenHands DEF Unmarked, Occupied
    <3> QED BY <1>2, <2>2, <3>1, <3>2, <3>3, QuietStep
  <2> QED BY <2>1, <2>2
<1> QED BY <1>5, <1>6, <1>7, <1>8

(* EligibleSeats: the eligible seats are occupied ones. *)
LEMMA EligibleSeats ==
  ASSUME NEW t
  PROVE  Eligible(t) \in SUBSET Seats /\ Eligible(t) \subseteq Occupied(t)
BY DEF Eligible, Occupied

(* NextHandType: hands are counted up to the bound. *)
LEMMA NextHandType ==
  ASSUME TypeOK
  PROVE  Min({nextHand + 1, HandCap}) \in 1 .. HandCap
<1>1. nextHand + 1 \in Nat /\ HandCap \in Nat /\ nextHand + 1 >= 1 /\ HandCap >= 1
  BY LifecycleAssumption DEF TypeOK
<1> DEFINE S == {nextHand + 1, HandCap}
<1>2. S \in SUBSET Nat /\ S # {}
  BY <1>1
<1>3. Min(S) \in S /\ \A y \in S : Min(S) <= y
  BY <1>2, MinFacts
<1> QED BY <1>1, <1>3

(* BeginStep: a hand is dealt to the eligible seats, with the button among them. *)
LEMMA BeginStep ==
  ASSUME RosterInv, BeginHand
  PROVE  RosterInv'
<1> DEFINE S == Eligible(Promoted)
<1>1. /\ TypeOK /\ ~HandActive /\ Cardinality(S) >= 2
      /\ S \in SUBSET Seats /\ S \subseteq Occupied(Promoted)
  BY EligibleSeats DEF RosterInv, BeginHand, EnoughPlayers
<1>2. /\ Promoted \in Rosters
      /\ \A s \in Seats : /\ Promoted[s] = Vacant <=> seats[s] = Vacant
                          /\ Promoted[s].dealt = seats[s].dealt
  BY <1>1, PromotedFacts
<1>3. ButtonOver(S) \in S
  BY <1>1, ButtonDealt
<1>4. /\ start' = HandStart(Promoted, S)
      /\ seats' = [s \in Seats |-> IF s \in S
                                   THEN [Promoted[s] EXCEPT !.owed = "Clear", !.dealt = TRUE]
                                   ELSE Promoted[s]]
      /\ lastButton' = start'.button /\ nextHand' = Min({nextHand + 1, HandCap})
      /\ state' = "Running" /\ UNCHANGED <<reserved, pending>>
  BY DEF BeginHand
<1>5. \A s \in S : Promoted[s] \in SeatStates
  BY <1>1, <1>2, OccupiedIs
<1>6. \A s \in Seats \ S : ~seats[s].dealt \/ seats[s] = Vacant
  BY <1>1, BetweenHands DEF Unmarked, Occupied
<1> HIDE DEF S
<1>7. /\ start'.button = ButtonOver(S) /\ DOMAIN start'.stacks = S
      /\ \A s \in S : start'.stacks[s] = Promoted[s].stack
  BY <1>4 DEF HandStart
<1>8. ASSUME NEW s \in S
      PROVE  /\ seats'[s] \in SeatStates /\ seats'[s].dealt
             /\ seats'[s].stack = Promoted[s].stack
  <2>1. seats'[s] = [Promoted[s] EXCEPT !.owed = "Clear", !.dealt = TRUE]
    BY <1>1, <1>4
  <2>2. Promoted[s] \in SeatStates
    BY <1>5
  <2> QED BY <2>1, <2>2 DEF SeatStates, Obligations
<1>9. \A s \in Seats \ S : seats'[s] = Promoted[s]
  BY <1>4
<1>10. seats' \in Rosters
  <2>1. seats' = [s \in Seats |-> seats'[s]]
    BY <1>4
  <2>2. \A s \in Seats : seats'[s] \in SeatStates \cup {Vacant}
    BY <1>2, <1>8, <1>9 DEF Rosters
  <2> QED BY <2>1, <2>2 DEF Rosters
<1>11. TypeOK'
  <2>1. lastButton' \in Seats /\ nextHand' \in 1 .. HandCap
    BY <1>1, <1>3, <1>4, <1>7, NextHandType
  <2> QED BY <1>1, <1>4, <1>10, <2>1 DEF TypeOK, Rosters, RunStates
<1>12. start' \in HandStarts
  <2> DEFINE stacks == [s \in S |-> Promoted[s].stack]
  <2>1. stacks \in [S -> Nat]
    BY <1>5 DEF SeatStates
  <2> HIDE DEF stacks
  <2>2. stacks \in UNION {[D -> Nat] : D \in SUBSET Seats}
    BY <1>1, <2>1
  <2>3. /\ SmallPosts(Promoted, ButtonOver(S), S) \in SUBSET Seats
        /\ BigPosts(Promoted, ButtonOver(S), S) \in SUBSET Seats
        /\ ButtonOver(S) \in Seats
    BY <1>1, <1>3 DEF SmallPosts, BigPosts
  <2>4. start' = [button |-> ButtonOver(S), stacks |-> stacks,
                  smallPosts |-> SmallPosts(Promoted, ButtonOver(S), S),
                  bigPosts |-> BigPosts(Promoted, ButtonOver(S), S)]
    BY <1>4 DEF HandStart, stacks
  <2> QED BY <2>2, <2>3, <2>4 DEF HandStarts
<1>13. HandActive'
  BY <1>12, LifecycleAssumption DEF HandActive
<1>14. ASSUME NEW s \in Seats
       PROVE  s \in DOMAIN start'.stacks <=>
                seats'[s] # Vacant /\ seats'[s].dealt /\ seats'[s].stack = start'.stacks[s]
  <2>1. CASE s \in S
    BY <1>7, <1>8, <2>1, LifecycleAssumption
  <2>2. CASE s \notin S
    BY <1>2, <1>6, <1>7, <1>9, <2>2
  <2> QED BY <2>1, <2>2
<1>15. HandRosterIntact'
  BY <1>1, <1>3, <1>4, <1>7, <1>13, <1>14 DEF HandRosterIntact
<1>16. OnlyDealtMarked' /\ DealtToSeats'
  BY <1>1, <1>2, <1>6, <1>7, <1>9 DEF OnlyDealtMarked, DealtToSeats, Occupied
<1> QED BY <1>11, <1>15, <1>16 DEF RosterInv

(* TooFewStep: a hand that cannot be dealt leaves the promotion behind. *)
LEMMA TooFewStep ==
  ASSUME RosterInv, BeginHandTooFew
  PROVE  RosterInv'
<1>1. /\ TypeOK /\ ~HandActive /\ seats' = Promoted /\ state' \in RunStates
      /\ UNCHANGED <<reserved, pending, start, lastButton, nextHand>>
  BY DEF RosterInv, BeginHandTooFew, RunStates
<1>2. seats' \in Rosters /\ Unmarked(seats')
  BY <1>1, PromotedFacts, BetweenHands DEF Unmarked, Occupied
<1> QED BY <1>1, <1>2, QuietStep DEF TypeOK

(* The roster with the stacks a hand reports, before what was requested. *)
Settled(final) ==
  [s \in Seats |-> IF s \in DOMAIN final
                   THEN [seats[s] EXCEPT !.stack = final[s], !.dealt = FALSE]
                   ELSE seats[s]]

(* SettledFacts: every seat of the hand gets its stack and is no longer marked. *)
LEMMA SettledFacts ==
  ASSUME RosterInv, HandActive, NEW final \in FinalStacks
  PROVE  /\ Settled(final) \in Rosters /\ Unmarked(Settled(final))
         /\ \A s \in DOMAIN start.stacks : s \in Seats => Settled(final)[s].stack = final[s]
         /\ \A s \in Seats \ DOMAIN start.stacks : Settled(final)[s] = seats[s]
<1> DEFINE S == DOMAIN start.stacks
           settled == Settled(final)
<1>2. /\ TypeOK /\ seats \in Rosters
      /\ \A s \in Seats : s \in S <=>
           seats[s] # Vacant /\ seats[s].dealt /\ seats[s].stack = start.stacks[s]
  BY DEF RosterInv, HandRosterIntact, TypeOK, Rosters
<1>3. DOMAIN final = S /\ \A s \in S : final[s] \in Nat
  BY DEF FinalStacks
<1> HIDE DEF S
<1>5. ASSUME NEW s \in Seats
      PROVE  /\ settled[s] \in SeatStates \cup {Vacant}
             /\ s \in S => /\ settled[s] \in SeatStates /\ ~settled[s].dealt
                           /\ settled[s].stack = final[s]
             /\ s \notin S => settled[s] = seats[s]
  <2>1. CASE s \in S
    <3>1. seats[s] \in SeatStates
      BY <1>2, <2>1 DEF Rosters
    <3>2. settled[s] = [seats[s] EXCEPT !.stack = final[s], !.dealt = FALSE]
      BY <1>3, <2>1 DEF Settled
    <3> HIDE DEF settled
    <3> QED BY <1>3, <2>1, <3>1, <3>2 DEF SeatStates
  <2>2. CASE s \notin S
    BY <1>2, <1>3, <2>2 DEF Rosters, Settled
  <2> QED BY <2>1, <2>2
<1>6. settled \in Rosters /\ Unmarked(settled)
  <2>1. settled = [s \in Seats |-> settled[s]]
    BY DEF Settled
  <2>2. \A s \in Seats : seats[s] # Vacant /\ s \notin S => ~seats[s].dealt
    BY DEF RosterInv, OnlyDealtMarked, Occupied, S
  <2> HIDE DEF settled
  <2> QED BY <1>5, <2>1, <2>2 DEF Rosters, Unmarked, Occupied
<1> QED BY <1>5, <1>6 DEF S

(* ApplyPendingFacts: what was requested vacates seats or changes participations. *)
LEMMA ApplyPendingFacts ==
  ASSUME NEW t \in Rosters, pending \in [Players -> Transitions \cup {"None"}]
  PROVE  /\ ApplyPending(t) \in Rosters
         /\ \A s \in Seats : \/ ApplyPending(t)[s] = Vacant
                            \/ /\ t[s] # Vacant
                               /\ ApplyPending(t)[s].stack = t[s].stack
                               /\ ApplyPending(t)[s].dealt = t[s].dealt
<1>1. ASSUME NEW s \in Seats
      PROVE  \/ ApplyPending(t)[s] = Vacant
             \/ /\ t[s] # Vacant /\ ApplyPending(t)[s] \in SeatStates
                /\ ApplyPending(t)[s].stack = t[s].stack
                /\ ApplyPending(t)[s].dealt = t[s].dealt
  <2> DEFINE q == pending[t[s].player]
  <2>1. CASE t[s] = Vacant \/ q = "None"
    <3>1. ApplyPending(t)[s] = t[s]
      BY <2>1 DEF ApplyPending
    <3> QED BY <3>1 DEF Rosters
  <2>2. CASE t[s] # Vacant /\ q # "None"
    <3>1. s \in Occupied(t) /\ t[s] \in SeatStates
      BY <2>2 DEF Occupied, Rosters
    <3>2. q \in Transitions
      BY <2>2, <3>1 DEF SeatStates
    <3>3. ApplyPending(t)[s] = ApplyTransition(t, s, q)[s]
      BY <2>2 DEF ApplyPending
    <3> HIDE DEF q
    <3>4. LET u == ApplyTransition(t, s, q) IN
          \/ u[s] = Vacant
          \/ u[s] \in SeatStates /\ u[s].stack = t[s].stack /\ u[s].dealt = t[s].dealt
      BY <3>1, <3>2, TransitionFacts
    <3> QED BY <2>2, <3>3, <3>4
  <2> QED BY <2>1, <2>2
<1>2. ApplyPending(t) = [s \in Seats |-> ApplyPending(t)[s]]
  BY DEF ApplyPending
<1>3. ApplyPending(t) \in Rosters
  BY <1>1, <1>2 DEF Rosters
<1> QED BY <1>1, <1>3

(* FinishStep: every seat of the hand is settled; nobody stays marked, whatever
   was requested meanwhile. *)
LEMMA FinishStep ==
  ASSUME RosterInv, FinishHand
  PROVE  RosterInv'
<1> PICK final \in FinalStacks : CompleteHand(final)
  BY DEF FinishHand
<1>1. /\ HandActive /\ seats' = ApplyPending(Settled(final)) /\ pending' = QueueTaken
      /\ start' = NoHand /\ state' \in RunStates /\ UNCHANGED <<reserved, lastButton, nextHand>>
  BY RefreshType DEF CompleteHand, Settled
<1>2. TypeOK /\ pending \in [Players -> Transitions \cup {"None"}]
  BY DEF RosterInv, TypeOK
<1>3. Settled(final) \in Rosters /\ Unmarked(Settled(final))
  BY <1>1, SettledFacts
<1>4. seats' \in Rosters /\ Unmarked(seats')
  <2>1. /\ seats' \in Rosters
        /\ \A s \in Seats : \/ seats'[s] = Vacant
                           \/ /\ Settled(final)[s] # Vacant
                              /\ seats'[s].dealt = Settled(final)[s].dealt
    BY <1>1, <1>2, <1>3, ApplyPendingFacts
  <2> QED BY <1>3, <2>1 DEF Unmarked, Occupied
<1>5. TypeOK'
  BY <1>1, <1>2, <1>4 DEF TypeOK, Rosters, QueueTaken
<1>6. HandRosterIntact' /\ OnlyDealtMarked' /\ DealtToSeats'
  BY <1>1, <1>4 DEF HandRosterIntact, OnlyDealtMarked, DealtToSeats, HandActive, Unmarked
<1> QED BY <1>5, <1>6 DEF RosterInv

(* CloseStep, RestartStep: a table is closed and restored between hands. *)
LEMMA CloseStep ==
  ASSUME RosterInv, Close \/ Restart
  PROVE  RosterInv'
<1>1. /\ ~HandActive /\ UNCHANGED <<start, lastButton, nextHand>> /\ state' \in RunStates
      /\ reserved' \in [Seats -> Players \cup {Vacant}]
      /\ pending' \in [Players -> Transitions \cup {"None"}]
  BY DEF RosterInv, TypeOK, Close, Restart, Checkpointable, RunStates
<1>2. seats \in Rosters /\ Unmarked(seats)
  BY <1>1, BetweenHands
<1>3. CASE UNCHANGED seats
  BY <1>1, <1>2, <1>3, QuietStep
<1>4. CASE seats' = [s \in Seats |-> IF seats[s] = Vacant THEN Vacant
                                ELSE [seats[s] EXCEPT !.connected = FALSE, !.dealt = FALSE]]
  <2>1. ASSUME NEW s \in Seats
        PROVE  /\ seats'[s] \in SeatStates \cup {Vacant}
               /\ seats'[s] # Vacant => ~seats'[s].dealt
    <3>1. CASE seats[s] = Vacant
      BY <1>4, <3>1
    <3>2. CASE seats[s] \in SeatStates
      <4>1. seats'[s] = [seats[s] EXCEPT !.connected = FALSE, !.dealt = FALSE]
        BY <1>4, <3>2, LifecycleAssumption
      <4> QED BY <3>2, <4>1 DEF SeatStates
    <3> QED BY <1>2, <3>1, <3>2 DEF Rosters
  <2>2. seats' = [s \in Seats |-> seats'[s]]
    BY <1>4
  <2>3. seats' \in Rosters /\ Unmarked(seats')
    BY <2>1, <2>2 DEF Rosters, Unmarked, Occupied
  <2> QED BY <1>1, <2>3, QuietStep
<1> QED BY <1>3, <1>4 DEF Close, Restart

(* RosterInit: the invariant holds of an empty table. *)
LEMMA RosterInit == Init => RosterInv
<1> SUFFICES ASSUME Init PROVE RosterInv
  OBVIOUS
<1>1. TypeOK
  BY LifecycleAssumption DEF Init, TypeOK, RunStates
<1>2. HandRosterIntact /\ OnlyDealtMarked /\ DealtToSeats
  BY DEF Init, HandRosterIntact, OnlyDealtMarked, DealtToSeats, HandActive, Occupied
<1> QED BY <1>1, <1>2 DEF RosterInv

(* RosterStep: every step keeps it. *)
LEMMA RosterStep == RosterInv /\ [Next]_vars => RosterInv'
<1> SUFFICES ASSUME RosterInv, [Next]_vars PROVE RosterInv'
  OBVIOUS
<1>1. CASE UNCHANGED vars
  BY <1>1 DEF vars, RosterInv, TypeOK, HandRosterIntact, OnlyDealtMarked, DealtToSeats,
              HandActive, Occupied
<1> QED BY <1>1, SeatingStep, RequestsStep, BeginStep, TooFewStep, FinishStep, CloseStep DEF Next

(* RosterKept: Spec => []HandRosterIntact.  From the deal to the end of a hand the
   seats it was dealt to stay occupied with the stacks of its snapshot, two at
   least and the button among them; what players ask for meanwhile waits, and
   nobody is marked as dealt between hands. *)
THEOREM RosterKept == Spec => [](TypeOK /\ HandRosterIntact)
<1>1. RosterInv => TypeOK /\ HandRosterIntact
  BY DEF RosterInv
<1> QED BY <1>1, RosterInit, RosterStep, PTL DEF Spec

-----------------------------------------------------------------------------
(* Chips stay with the seats. *)

(* The same players hold the same seats after a step. *)
SameHolders ==
  /\ Occupied(seats') = Occupied(seats)
  /\ \A s \in Occupied(seats) : seats'[s].player = seats[s].player
StacksStand == \A s \in Occupied(seats) : seats'[s].stack = seats[s].stack

(* SeatingKeeps: whoever sits down takes a seat that nobody held. *)
LEMMA SeatingKeeps ==
  ASSUME RosterInv, Seating, SameHolders
  PROVE  StacksStand
<1> PICK p \in Players, s \in Seats :
      \/ Reserve(p, s) \/ CancelReservation(p, s)
      \/ \E stack \in Affordable : Occupy(p, s, stack) \/ Join(p, s, stack)
      \/ \E stack \in Affordable, entry \in Entries : JoinWithEntry(p, s, stack, entry)
  BY DEF Seating
<1>1. seats \in Rosters
  BY DEF RosterInv, TypeOK, Rosters
<1>2. CASE Reserve(p, s) \/ CancelReservation(p, s)
  BY <1>2 DEF Reserve, CancelReservation, StacksStand
<1>3. ASSUME NEW stack \in Affordable, Occupy(p, s, stack)
      PROVE  StacksStand
  <2>1. stack \in BuyIns
    BY DEF Affordable
  <2>2. NewSeat(p, stack) \in SeatStates /\ NewSeat(p, stack).player = p
    BY <2>1, NewSeatFacts DEF NewSeat
  <2>3. seats' = [seats EXCEPT ![s] = NewSeat(p, stack)] /\ ~SeatedIn(seats, p)
    BY <1>3 DEF Occupy
  <2>4. seats'[s] = NewSeat(p, stack) /\ s \in Occupied(seats')
    BY <1>1, <2>2, <2>3, LifecycleAssumption DEF Rosters, Occupied
  <2>5. s \in Occupied(seats) /\ seats[s].player = p
    BY <2>2, <2>4 DEF SameHolders
  <2> QED BY <2>3, <2>5 DEF SeatedIn, SeatsOf
<1>4. ASSUME CanReserve(p, s), s \in Occupied(seats')
      PROVE  FALSE
  BY <1>4 DEF CanReserve, SameHolders, Occupied
<1>5. ASSUME NEW stack \in Affordable, Join(p, s, stack)
      PROVE  StacksStand
  <2>1. NewSeat(p, stack) \in SeatStates
    BY NewSeatFacts DEF Affordable
  <2>2. CanReserve(p, s) /\ seats' = [seats EXCEPT ![s] = NewSeat(p, stack)]
    BY <1>5 DEF Join
  <2>3. s \in Occupied(seats')
    BY <1>1, <2>1, <2>2, LifecycleAssumption DEF Rosters, Occupied
  <2> QED BY <1>4, <2>2, <2>3
<1>6. ASSUME NEW stack \in Affordable, NEW entry \in Entries, JoinWithEntry(p, s, stack, entry)
      PROVE  StacksStand
  <2>1. CanReserve(p, s)
    BY <1>6 DEF JoinWithEntry
  <2>2. \A r \in Seats : r # s => seats'[r] = seats[r]
    BY <1>1, <1>6 DEF JoinWithEntry, Rosters
  <2>3. s \notin Occupied(seats)
    BY <2>1 DEF CanReserve, Occupied
  <2> QED BY <2>2, <2>3 DEF StacksStand, Occupied
<1> QED BY <1>2, <1>3, <1>5, <1>6

(* RequestsKeep: a request moves no chips. *)
LEMMA RequestsKeep ==
  ASSUME RosterInv, Requests, SameHolders
  PROVE  StacksStand
<1> PICK p \in Players :
      \/ \E missed \in MissedBlinds : RecordMissedBlind(p, missed)
      \/ \E entry \in Entries : ReturnWithEntry(p, entry)
      \/ \E connected \in BOOLEAN : SetConnection(p, connected)
      \/ \E transition \in Transitions : RequestTransition(p, transition)
  BY DEF Requests
<1>1. SeatedIn(seats, p)
  BY DEF RecordMissedBlind, ReturnWithEntry, SetConnection, RequestTransition
<1> DEFINE s == SeatOf(p)
<1>2. s \in Occupied(seats) /\ s \in Seats /\ seats \in Rosters
  BY <1>1, SeatOfFacts DEF Occupied, RosterInv, TypeOK, Rosters
<1>3. seats[s] \in SeatStates
  BY <1>2, OccupiedIs
<1>4. ASSUME NEW x, seats' = [seats EXCEPT ![s] = x], x.stack = seats[s].stack
      PROVE  StacksStand
  <2> HIDE DEF s
  <2> QED BY <1>2, <1>4 DEF StacksStand, Occupied, Rosters
<1>5. ASSUME NEW missed \in MissedBlinds, RecordMissedBlind(p, missed)
      PROVE  StacksStand
  <2> DEFINE x == [seats[s] EXCEPT !.owed = AddDebt(@, missed)]
  <2>1. x.stack = seats[s].stack
    BY <1>3 DEF SeatStates
  <2>2. seats' = [seats EXCEPT ![s] = x]
    BY <1>2, <1>5 DEF RecordMissedBlind, Rosters
  <2> HIDE DEF x
  <2> QED BY <1>4, <2>1, <2>2
<1>6. ASSUME NEW entry \in Entries, ReturnWithEntry(p, entry)
      PROVE  StacksStand
  <2> DEFINE part == IF seats[s].owed # "Clear" /\ entry = "WaitForBigBlind"
                     THEN "WaitingForBlind" ELSE "Active"
             x == [seats[s] EXCEPT !.part = part]
  <2>1. seats' = [seats EXCEPT ![s] = x]
    BY <1>2, <1>6 DEF ReturnWithEntry, Rosters
  <2> HIDE DEF part
  <2>2. x.stack = seats[s].stack
    BY <1>3 DEF SeatStates
  <2> HIDE DEF x
  <2> QED BY <1>4, <2>1, <2>2
<1>7. ASSUME NEW connected \in BOOLEAN, SetConnection(p, connected)
      PROVE  StacksStand
  <2> DEFINE x == [seats[s] EXCEPT !.connected = connected]
  <2>1. x.stack = seats[s].stack
    BY <1>3 DEF SeatStates
  <2>2. seats' = [seats EXCEPT ![s] = x]
    BY <1>2, <1>7 DEF SetConnection, Rosters
  <2> HIDE DEF x
  <2> QED BY <1>4, <2>1, <2>2
<1>8. ASSUME NEW transition \in Transitions, RequestTransition(p, transition)
      PROVE  StacksStand
  <2>1. CASE HandActive
    BY <1>8, <2>1 DEF RequestTransition, StacksStand
  <2>2. CASE ~HandActive
    <3> DEFINE u == ApplyTransition(seats, s, transition)
    <3>1. seats' = u
      BY <1>8, <2>2 DEF RequestTransition
    <3> HIDE DEF s
    <3>2. /\ \A r \in Seats : r # s => u[r] = seats[r]
          /\ u[s] = Vacant \/ u[s].stack = seats[s].stack
      BY <1>2, TransitionFacts
    <3> HIDE DEF u
    <3>3. \A r \in Occupied(seats) : r \in Seats /\ u[r] # Vacant
      BY <3>1 DEF SameHolders, Occupied
    <3> QED BY <1>2, <3>1, <3>2, <3>3 DEF StacksStand
  <2> QED BY <2>1, <2>2
<1> QED BY <1>5, <1>6, <1>7, <1>8

(* DealsKeep: dealing, closing and restoring a table move no chips. *)
LEMMA DealsKeep ==
  ASSUME RosterInv, BeginHand \/ BeginHandTooFew \/ Close \/ Restart
  PROVE  StacksStand
<1>1. TypeOK /\ seats \in Rosters
  BY DEF RosterInv, TypeOK, Rosters
<1>2. /\ Promoted \in Rosters
      /\ \A s \in Seats : /\ Promoted[s] = Vacant <=> seats[s] = Vacant
                          /\ Promoted[s].stack = seats[s].stack
  BY <1>1, PromotedFacts
<1>3. CASE BeginHand
  <2> SUFFICES ASSUME NEW s \in Occupied(seats) PROVE seats'[s].stack = seats[s].stack
    BY DEF StacksStand
  <2>1. s \in Seats /\ Promoted[s] \in SeatStates
    BY <1>2 DEF Occupied, Rosters
  <2>2. \/ seats'[s] = [Promoted[s] EXCEPT !.owed = "Clear", !.dealt = TRUE]
        \/ seats'[s] = Promoted[s]
    BY <1>3, <2>1 DEF BeginHand
  <2>3. seats'[s].stack = Promoted[s].stack
    BY <2>1, <2>2 DEF SeatStates
  <2> QED BY <1>2, <2>1, <2>3
<1>4. CASE BeginHandTooFew
  BY <1>2, <1>4 DEF BeginHandTooFew, StacksStand, Occupied
<1>5. CASE Close
  BY <1>5 DEF Close, StacksStand
<1>6. CASE Restart
  <2> SUFFICES ASSUME NEW s \in Occupied(seats) PROVE seats'[s].stack = seats[s].stack
    BY DEF StacksStand
  <2>1. s \in Seats /\ seats[s] # Vacant /\ seats[s] \in SeatStates
    BY <1>1 DEF Occupied, Rosters
  <2>2. seats'[s] = [seats[s] EXCEPT !.connected = FALSE, !.dealt = FALSE]
    BY <1>6, <2>1 DEF Restart
  <2> QED BY <2>1, <2>2 DEF SeatStates
<1> QED BY <1>3, <1>4, <1>5, <1>6

(* SameStacksSameChips: seats that keep their stacks keep the chips of the table. *)
LEMMA SameStacksSameChips ==
  ASSUME RosterInv, SameHolders, StacksStand
  PROVE  TableChips(seats') = TableChips(seats)
<1>1. Stacks(seats') = Stacks(seats)
  BY DEF SameHolders, StacksStand, Stacks
<1> QED BY <1>1 DEF TableChips

(* FinishKeeps: a reconciled hand moves chips among the seats it was dealt to. *)
LEMMA FinishKeeps ==
  ASSUME RosterInv, FinishHand, SameHolders
  PROVE  TableChips(seats') = TableChips(seats)
<1> PICK final \in FinalStacks : CompleteHand(final)
  BY DEF FinishHand
<1> DEFINE S == DOMAIN start.stacks
           O == Occupied(seats)
           before == Stacks(seats)
           after == Stacks(seats')
<1>1. /\ HandActive /\ seats' = ApplyPending(Settled(final))
      /\ SumFunction(final) = SumFunction(start.stacks) /\ DOMAIN final = S
  BY DEF CompleteHand, Settled, Reconciles
<1>2. /\ pending \in [Players -> Transitions \cup {"None"}] /\ seats \in Rosters
      /\ Settled(final) \in Rosters
      /\ \A s \in S : s \in Seats => Settled(final)[s].stack = final[s]
      /\ \A s \in Seats \ S : Settled(final)[s] = seats[s]
  BY <1>1, SettledFacts DEF RosterInv, TypeOK, Rosters
<1>3. /\ S \subseteq Seats
      /\ \A s \in Seats : s \in S => seats[s] # Vacant /\ seats[s].stack = start.stacks[s]
  BY <1>1 DEF RosterInv, HandRosterIntact, DealtToSeats
<1>4. S \in SUBSET O
  BY <1>3 DEF Occupied
<1>5. \A s \in O : s \in Seats /\ seats'[s] # Vacant /\ seats'[s].stack = Settled(final)[s].stack
  <2>1. \A s \in O : s \in Seats /\ seats'[s] # Vacant
    BY DEF SameHolders, Occupied
  <2> QED BY <1>1, <1>2, <2>1, ApplyPendingFacts
<1>6. /\ DOMAIN before = O /\ DOMAIN after = O
      /\ \A s \in O : before[s] = seats[s].stack /\ after[s] = seats'[s].stack
  BY DEF SameHolders, Stacks
<1>7. seats' \in Rosters
  BY <1>1, <1>2, ApplyPendingFacts
<1>8. IsFiniteSet(O)
  <2>1. IsFiniteSet(Seats) /\ O \subseteq Seats
    BY FS_Interval, LifecycleAssumption DEF Seats, Occupied
  <2> QED BY <2>1, FS_Subset
<1> HIDE DEF before, after
<1>9. \A s \in O : before[s] \in Int /\ after[s] \in Int
  <2> SUFFICES ASSUME NEW s \in O PROVE before[s] \in Int /\ after[s] \in Int
    OBVIOUS
  <2>1. seats[s] \in SeatStates /\ seats'[s] \in SeatStates
    BY <1>2, <1>5, <1>7 DEF Rosters, Occupied
  <2>2. seats[s].stack \in Nat /\ seats'[s].stack \in Nat
    BY <2>1 DEF SeatStates
  <2> QED BY <1>6, <2>2
<1> HIDE DEF O, S
<1>10. IsFiniteSet(S)
  BY <1>4, <1>8, FS_Subset
<1>11. SumFunctionOnSet(before, S) = SumFunctionOnSet(after, S)
  <2>1. \A s \in S : before[s] = start.stacks[s] /\ after[s] = final[s]
    BY <1>2, <1>3, <1>4, <1>5, <1>6
  <2>2. SumFunctionOnSet(before, S) = SumFunctionOnSet(start.stacks, S)
    BY <1>10, <2>1, SumSame
  <2>3. SumFunctionOnSet(after, S) = SumFunctionOnSet(final, S)
    BY <1>10, <2>1, SumSame
  <2>4. SumFunctionOnSet(final, S) = SumFunctionOnSet(start.stacks, S)
    BY <1>1 DEF SumFunction, S
  <2> QED BY <2>2, <2>3, <2>4
<1>12. \A s \in O \ S : before[s] = after[s]
  BY <1>2, <1>5, <1>6
<1>13. SumFunctionOnSet(before, O) = SumFunctionOnSet(after, O)
  BY <1>4, <1>8, <1>9, <1>11, <1>12, SumMoves
<1> QED BY <1>6, <1>13 DEF TableChips, SumFunction, before, after

(* ChipsStayWithSeats: Spec => ChipsMoveOnlyWithSeats.  As long as the same players
   hold the same seats the chips of the table add up to the same total: only a hand
   moves chips, among the seats it was dealt to, and complete_hand refuses a report
   that does not conserve them. *)
THEOREM ChipsStayWithSeats == Spec => ChipsMoveOnlyWithSeats
<1>1. Init => RosterInv
  BY RosterInit
<1>2. RosterInv /\ [Next]_vars => RosterInv'
  BY RosterStep
<1>3. RosterInv /\ [Next]_vars => (SameHolders => TableChips(seats') = TableChips(seats))
  <2> SUFFICES ASSUME RosterInv, [Next]_vars, SameHolders
      PROVE  TableChips(seats') = TableChips(seats)
    OBVIOUS
  <2>1. CASE UNCHANGED vars
    BY <2>1 DEF vars, TableChips
  <2>2. CASE FinishHand
    BY <2>2, FinishKeeps
  <2>3. CASE Seating \/ Requests \/ BeginHand \/ BeginHandTooFew \/ Close \/ Restart
    BY <2>3, SeatingKeeps, RequestsKeep, DealsKeep, SameStacksSameChips
  <2> QED BY <2>1, <2>2, <2>3 DEF Next
<1> QED BY <1>1, <1>2, <1>3, PTL DEF Spec, ChipsMoveOnlyWithSeats, SameHolders

-----------------------------------------------------------------------------
(* What holds of the practice table: the session's books, the runtime of   *)
(* the hand, and the screen with what it has still to be told.             *)

(* One hand follows another: it is dealt what the one before paid, the learner
   still has chips, and the button passes over nobody who has any. *)
HandFollows(before, opening, button) ==
  /\ opening = before.final /\ opening[Me] > 0
  /\ \A s \in PracticeSeats : ChairAfter(before.button, s, button) => opening[s] = 0

ChipStacks == [PracticeSeats -> Nat]
HandRecords == [hand : Nat, button : PracticeSeats, opening : ChipStacks, final : ChipStacks]
SessionInv ==
  /\ practice \in [hand : Nat \ {0}, button : PracticeSeats, opening : ChipStacks, histories : Seq(HandRecords)]
  /\ practice.opening[practice.button] > 0
  /\ \A n \in 1 .. Len(practice.histories) :
       LET h == practice.histories[n]
       IN  /\ h.hand = n /\ h.opening[h.button] > 0
           /\ SumFunctionOnSet(h.final, PracticeSeats) = Total
           /\ n > 1 => HandFollows(practice.histories[n - 1], h.opening, h.button)
  /\ step # "over" =>
       /\ Len(practice.histories) = practice.hand - 1
       /\ practice.hand > 1 =>
            HandFollows(practice.histories[practice.hand - 1], practice.opening, practice.button)

RuntimeTurns == {SeatNames[s] : s \in PracticeSeats} \cup {"pacing", "none"}
Runtimes == [turn : RuntimeTurns, rev : Nat, seq : Nat, stacks : ChipStacks, canAllIn : BOOLEAN]
RuntimeFits(a) == a \in Runtimes /\ SumFunctionOnSet(a.stacks, PracticeSeats) = Total

Projections == [hand : Nat, rev : Nat, turn : RuntimeTurns, canAllIn : BOOLEAN]
Screens ==
  [conn : {"Connected", "Disconnected"}, snap : Projections, pending : {Null}, seq : Nat, broadcast : BOOLEAN]
Notices ==
  [kind : {"Update"}, seq : Nat, reason : {"TimeoutAction", "DeadlineWarning", "ActionAccepted"},
   event : Nat \cup {Null}, snap : Projections]

(* The updates carry on where the client is: place by place, never to an older hand. *)
CarriesOn(c, waiting) ==
  \A i \in 1 .. Len(waiting) :
    /\ waiting[i].seq = c.seq + i /\ waiting[i].snap.hand = c.snap.hand
    /\ waiting[i].snap.rev >= c.snap.rev
    /\ \A j \in 1 .. i : waiting[j].snap.rev <= waiting[i].snap.rev

(* The last the client knows, once it has read its queue. *)
LastTold(c, waiting) == IF waiting = <<>> THEN c.snap ELSE waiting[Len(waiting)].snap

(* What a client, its subscription and the runtime of the hand have to do with
   each other. *)
ScreenFits(c, s, hand, a) ==
  /\ c \in Screens /\ s \in [queue : Seq(Notices), ended : BOOLEAN]
  /\ c.snap.hand = hand
  /\ CarriesOn(c, s.queue)
  /\ c.seq + Len(s.queue) <= a.seq
  /\ LastTold(c, s.queue).rev <= a.rev
  /\ ~s.ended =>
       /\ c.conn = "Connected" /\ c.seq + Len(s.queue) = a.seq
       /\ LastTold(c, s.queue) = ProjectionOf(hand, a)
  /\ c.conn = "Disconnected" => s.queue = <<>>

PracticeInv == SessionInv /\ RuntimeFits(authority) /\ ScreenFits(app, stream, practice.hand, authority)

(* The queue, read update by update. *)
TellLoop(c, waiting, n, f) ==
  f = [k \in 0 .. n |-> IF k = 0 THEN c ELSE ApplyUpdate(f[k - 1], waiting[k])]

(* The reading has its steps. *)
LEMMA TellLoopExists ==
  ASSUME NEW c, NEW waiting, NEW n \in Nat
  PROVE  \E f : TellLoop(c, waiting, n, f)
<1> DEFINE Bad == {k \in Nat : ~ \E f : TellLoop(c, waiting, k, f)}
<1>1. SUFFICES ASSUME Bad # {} PROVE FALSE
  OBVIOUS
<1>2. PICK m \in Bad : \A k \in Bad : m <= k
  BY <1>1, LeastOf
<1>3. CASE m = 0
  <2> DEFINE f == [k \in 0 .. 0 |-> c]
  <2>1. TellLoop(c, waiting, 0, f)
    BY DEF TellLoop
  <2> QED BY <1>2, <1>3, <2>1
<1>4. CASE m # 0
  <2>1. m - 1 \in Nat /\ m - 1 \notin Bad
    BY <1>2, <1>4
  <2>2. PICK f : TellLoop(c, waiting, m - 1, f)
    BY <2>1
  <2> DEFINE g == [k \in 0 .. m |-> IF k = m THEN ApplyUpdate(f[m - 1], waiting[m]) ELSE f[k]]
  <2>3. \A k \in 0 .. m - 1 : f[k] = IF k = 0 THEN c ELSE ApplyUpdate(f[k - 1], waiting[k])
    BY <2>2 DEF TellLoop
  <2>4. \A k \in 0 .. m : g[k] = IF k = 0 THEN c ELSE ApplyUpdate(g[k - 1], waiting[k])
    BY <1>2, <1>4, <2>1, <2>3
  <2>5. g = [k \in 0 .. m |-> IF k = 0 THEN c ELSE ApplyUpdate(g[k - 1], waiting[k])]
    BY <2>4
  <2>6. TellLoop(c, waiting, m, g)
    BY <2>5 DEF TellLoop
  <2> QED BY <1>2, <2>6
<1> QED BY <1>3, <1>4

(* Reading the queue is reading its updates, the first one first. *)
LEMMA DrainedStepwise ==
  ASSUME NEW c, NEW s, Len(s.queue) \in Nat
  PROVE  \E f : /\ f[0] = c
                /\ \A k \in 1 .. Len(s.queue) : f[k] = ApplyUpdate(f[k - 1], s.queue[k])
                /\ Drained(c, s) = IF s.ended /\ f[Len(s.queue)].conn # "Failed"
                                   THEN MarkDisconnected(f[Len(s.queue)]) ELSE f[Len(s.queue)]
<1> DEFINE n == Len(s.queue)
           told == CHOOSE f : TellLoop(c, s.queue, n, f)
<1>1. TellLoop(c, s.queue, n, told)
  BY TellLoopExists
<1>2. Drained(c, s) = IF s.ended /\ told[n].conn # "Failed" THEN MarkDisconnected(told[n]) ELSE told[n]
  BY DEF Drained, TellLoop
<1> HIDE DEF told
<1>3. \A k \in 0 .. n : told[k] = IF k = 0 THEN c ELSE ApplyUpdate(told[k - 1], s.queue[k])
  BY <1>1 DEF TellLoop
<1>4. told[0] = c /\ \A k \in 1 .. n : told[k] = ApplyUpdate(told[k - 1], s.queue[k])
  BY <1>3
<1> QED BY <1>2, <1>4

(* The next update is shown. *)
LEMMA NextUpdateShown ==
  ASSUME NEW c \in Screens, c.conn = "Connected", NEW u \in Notices, u.seq = c.seq + 1,
         u.snap.hand = c.snap.hand, u.snap.rev >= c.snap.rev
  PROVE  LET d == ApplyUpdate(c, u) IN
         d \in Screens /\ d.conn = "Connected" /\ d.snap = u.snap /\ d.seq = u.seq
<1>1. c.seq \in Nat /\ c.snap.rev \in Nat /\ u.snap.rev \in Nat /\ u.snap \in Projections /\ c.pending = Null
  BY DEF Screens, Notices, Projections
<1>2. u.seq \in Nat /\ ~(u.seq <= c.seq) /\ ~(u.snap.rev < c.snap.rev)
  BY <1>1
<1>3. ApplyUpdate(c, u) = [conn |-> "Connected", snap |-> u.snap, pending |-> Null, seq |-> u.seq,
                           broadcast |-> u.reason # "Initial"]
  BY <1>1, <1>2 DEF ApplyUpdate, SameHand
<1> QED BY <1>1, <1>2, <1>3 DEF Screens

(* An update the client already knows changes nothing. *)
LEMMA KnownUpdateIgnored ==
  ASSUME NEW c, NEW u, u.seq <= c.seq, u.snap.hand = c.snap.hand
  PROVE  ApplyUpdate(c, u) = c
BY DEF ApplyUpdate, SameHand

(* Everything that carries on is shown. *)
LEMMA AllIsShown ==
  ASSUME NEW c \in Screens, c.conn = "Connected", NEW waiting \in Seq(Notices), CarriesOn(c, waiting),
         NEW f, f[0] = c, \A k \in 1 .. Len(waiting) : f[k] = ApplyUpdate(f[k - 1], waiting[k])
  PROVE  LET d == f[Len(waiting)] IN
         /\ d \in Screens /\ d.conn = "Connected" /\ d.snap = LastTold(c, waiting)
         /\ d.seq = c.seq + Len(waiting) /\ d.snap.hand = c.snap.hand
<1> DEFINE n == Len(waiting)
           Fine(k) == /\ f[k] \in Screens /\ f[k].conn = "Connected" /\ f[k].seq = c.seq + k
                      /\ f[k].snap = IF k = 0 THEN c.snap ELSE waiting[k].snap
           Bad == {k \in 0 .. n : ~Fine(k)}
<1>1. n \in Nat /\ c.seq \in Nat
  BY DEF Screens
<1>2. ASSUME Bad # {} PROVE FALSE
  <2>1. PICK m \in Bad : \A k \in Bad : m <= k
    <3>1. Bad \subseteq Nat
      OBVIOUS
    <3> HIDE DEF Bad
    <3> QED BY <1>2, <3>1, LeastOf
  <2>2. m \in 0 .. n /\ ~Fine(m)
    BY <2>1
  <2>3. m # 0
    <3>1. Fine(0)
      BY <1>1
    <3> QED BY <2>2, <3>1
  <2> DEFINE l == m - 1
  <2>4. l \in 0 .. n /\ l \notin Bad /\ m = l + 1 /\ m \in 1 .. n
    BY <1>1, <2>1, <2>2, <2>3
  <2>5. Fine(l)
    BY <2>4
  <2>6. f[m] = ApplyUpdate(f[l], waiting[m])
    BY <2>4
  <2>7. /\ waiting[m] \in Notices /\ waiting[m].seq = c.seq + m /\ waiting[m].snap.hand = c.snap.hand
        /\ waiting[m].snap.rev >= c.snap.rev
        /\ l # 0 => waiting[l].snap.hand = c.snap.hand /\ waiting[l].snap.rev <= waiting[m].snap.rev
    <3>1. waiting[m] \in Notices
      BY <2>4
    <3>2. l # 0 => l \in 1 .. m /\ l \in 1 .. n
      BY <2>4
    <3> QED BY <2>4, <3>1, <3>2 DEF CarriesOn
  <2>8. waiting[m].snap.rev >= f[l].snap.rev /\ waiting[m].snap.hand = f[l].snap.hand
    <3>1. waiting[m].snap.rev \in Nat
      BY <2>7 DEF Notices, Projections
    <3>2. l # 0 => waiting[l].snap.rev \in Nat
      <4>1. l # 0 => l \in 1 .. n
        BY <2>4
      <4>2. l # 0 => waiting[l] \in Notices
        BY <4>1
      <4> QED BY <4>2 DEF Notices, Projections
    <3> QED BY <2>5, <2>7, <3>1, <3>2
  <2>9. waiting[m].seq = f[l].seq + 1
    BY <1>1, <2>4, <2>5, <2>7
  <2>10. f[m] \in Screens /\ f[m].conn = "Connected" /\ f[m].snap = waiting[m].snap /\ f[m].seq = waiting[m].seq
    <3> DEFINE x == f[l]
               u == waiting[m]
    <3>1. /\ x \in Screens /\ x.conn = "Connected" /\ u \in Notices /\ u.seq = x.seq + 1
          /\ u.snap.hand = x.snap.hand /\ u.snap.rev >= x.snap.rev /\ f[m] = ApplyUpdate(x, u)
      BY <2>5, <2>6, <2>7, <2>8, <2>9
    <3> HIDE DEF x, u
    <3>2. f[m] \in Screens /\ f[m].conn = "Connected" /\ f[m].snap = u.snap /\ f[m].seq = u.seq
      BY <3>1, NextUpdateShown
    <3> QED BY <3>2 DEF u
  <2> QED BY <2>2, <2>3, <2>7, <2>10
<1>3. Fine(n)
  BY <1>1, <1>2
<1>4. f[n].snap = LastTold(c, waiting)
  <2>1. waiting = <<>> <=> n = 0
    OBVIOUS
  <2> QED BY <1>3, <2>1 DEF LastTold
<1>5. n # 0 => waiting[n].snap.hand = c.snap.hand
  BY <1>1 DEF CarriesOn
<1> QED BY <1>3, <1>4, <1>5

(* A client that knows them all is left as it is. *)
LEMMA NothingIsNew ==
  ASSUME NEW c, NEW waiting, Len(waiting) \in Nat,
         \A i \in 1 .. Len(waiting) : waiting[i].seq <= c.seq /\ waiting[i].snap.hand = c.snap.hand,
         NEW f, f[0] = c, \A k \in 1 .. Len(waiting) : f[k] = ApplyUpdate(f[k - 1], waiting[k])
  PROVE  f[Len(waiting)] = c
<1> DEFINE n == Len(waiting)
           Bad == {k \in 0 .. n : f[k] # c}
<1>1. ASSUME Bad # {} PROVE FALSE
  <2>1. PICK m \in Bad : \A k \in Bad : m <= k
    <3>1. Bad \subseteq Nat
      OBVIOUS
    <3> HIDE DEF Bad
    <3> QED BY <1>1, <3>1, LeastOf
  <2>2. m \in 0 .. n /\ f[m] # c /\ m # 0
    BY <2>1
  <2>3. m - 1 \in 0 .. n /\ m - 1 \notin Bad /\ m \in 1 .. n
    BY <2>1, <2>2
  <2>4. f[m - 1] = c
    BY <2>3
  <2>5. f[m] = ApplyUpdate(c, waiting[m])
    BY <2>3, <2>4
  <2>6. waiting[m].seq <= c.seq /\ waiting[m].snap.hand = c.snap.hand
    BY <2>3
  <2> QED BY <2>2, <2>5, <2>6, KnownUpdateIgnored
<1> QED BY <1>1

(* An event of the runtime: one place and one revision further. *)
LEMMA AdvanceFits ==
  ASSUME NEW a, RuntimeFits(a), NEW b \in Advances(a)
  PROVE  RuntimeFits(b) /\ b.seq = a.seq + 1 /\ b.rev = a.rev + 1
<1>1. a \in Runtimes /\ SumFunctionOnSet(a.stacks, PracticeSeats) = Total
  BY DEF RuntimeFits
<1>2. a.rev + 1 \in Nat /\ a.seq + 1 \in Nat /\ a.stacks \in ChipStacks /\ a.canAllIn \in BOOLEAN
  BY <1>1 DEF Runtimes
<1>3. \/ \E final \in Settlements(a.stacks) : b = PracticeEvent(a, "none", final, a.canAllIn)
      \/ \E turn \in NextTurns(a.stacks), legal \in BOOLEAN : b = PracticeEvent(a, turn, a.stacks, legal)
  BY DEF Advances
<1>4. CASE \E final \in Settlements(a.stacks) : b = PracticeEvent(a, "none", final, a.canAllIn)
  <2>1. PICK final \in Settlements(a.stacks) : b = PracticeEvent(a, "none", final, a.canAllIn)
    BY <1>4
  <2>2. final \in ChipStacks /\ SumFunctionOnSet(final, PracticeSeats) = Total
    <3>1. final \in [PracticeSeats -> 0 .. Total] /\ SumFunctionOnSet(final, PracticeSeats) = Total
      BY <1>1 DEF Settlements
    <3> QED BY <3>1 DEF ChipStacks
  <2>3. "none" \in RuntimeTurns
    BY DEF RuntimeTurns
  <2> QED BY <1>2, <2>1, <2>2, <2>3 DEF RuntimeFits, Runtimes, PracticeEvent
<1>5. CASE \E turn \in NextTurns(a.stacks), legal \in BOOLEAN : b = PracticeEvent(a, turn, a.stacks, legal)
  <2>1. PICK turn \in NextTurns(a.stacks), legal \in BOOLEAN : b = PracticeEvent(a, turn, a.stacks, legal)
    BY <1>5
  <2>2. turn \in RuntimeTurns
    BY DEF NextTurns, RuntimeTurns, DealtIn
  <2> QED BY <1>1, <1>2, <2>1, <2>2 DEF RuntimeFits, Runtimes, PracticeEvent
<1> QED BY <1>3, <1>4, <1>5

(* What the runtime tells is the state of a hand. *)
LEMMA ProjectionFits ==
  ASSUME NEW hand \in Nat, NEW a \in Runtimes
  PROVE  ProjectionOf(hand, a) \in Projections /\ ProjectionOf(hand, a).hand = hand
         /\ ProjectionOf(hand, a).rev = a.rev
BY DEF ProjectionOf, Projections, Runtimes

(* What the client was told last is no older than what it shows. *)
LEMMA LastToldIsNewer ==
  ASSUME NEW c \in Screens, NEW waiting \in Seq(Notices), CarriesOn(c, waiting)
  PROVE  LastTold(c, waiting).rev >= c.snap.rev /\ LastTold(c, waiting).rev \in Nat /\ c.snap.rev \in Nat
<1>1. c.snap.rev \in Nat
  BY DEF Screens, Projections
<1>2. CASE waiting = <<>>
  BY <1>1, <1>2 DEF LastTold
<1>3. CASE waiting # <<>>
  <2>1. Len(waiting) \in 1 .. Len(waiting)
    BY <1>3
  <2>2. waiting[Len(waiting)] \in Notices
    BY <2>1
  <2>3. waiting[Len(waiting)].snap.rev \in Nat
    BY <2>2 DEF Notices, Projections
  <2>4. waiting[Len(waiting)].snap.rev >= c.snap.rev
    BY <2>1 DEF CarriesOn
  <2> QED BY <1>1, <1>3, <2>3, <2>4 DEF LastTold
<1> QED BY <1>2, <1>3

(* Once the subscription has ended, the runtime may go on without the client. *)
LEMMA ScreenFallsBehind ==
  ASSUME NEW c, NEW s, NEW hand, NEW a \in Runtimes, NEW b \in Runtimes, ScreenFits(c, s, hand, a),
         b.seq >= a.seq, b.rev >= a.rev,
         NEW t \in [queue : Seq(Notices), ended : BOOLEAN], t.queue = s.queue, t.ended
  PROVE  ScreenFits(c, t, hand, b)
<1> DEFINE n == Len(s.queue)
           told == LastTold(c, s.queue).rev
<1>1. c \in Screens /\ s.queue \in Seq(Notices) /\ CarriesOn(c, s.queue)
  BY DEF ScreenFits
<1>2. told \in Nat /\ c.seq \in Nat /\ n \in Nat
  BY <1>1, LastToldIsNewer DEF Screens
<1>3. c.seq + n <= a.seq /\ told <= a.rev
  BY DEF ScreenFits
<1>4. a.seq \in Nat /\ a.rev \in Nat /\ b.seq \in Nat /\ b.rev \in Nat
  BY DEF Runtimes
<1> HIDE DEF n, told
<1>5. c.seq + n <= b.seq /\ told <= b.rev
  BY <1>2, <1>3, <1>4
<1> USE DEF n, told
<1> QED BY <1>1, <1>5 DEF ScreenFits

(* An update more, of where the runtime is now, carries on from the last. *)
LEMMA CarriesOnFurther ==
  ASSUME NEW c \in Screens, NEW q \in Seq(Notices), CarriesOn(c, q),
         NEW u \in Notices, u.seq = c.seq + Len(q) + 1, u.snap.hand = c.snap.hand,
         LastTold(c, q).rev <= u.snap.rev
  PROVE  CarriesOn(c, Append(q, u))
<1> DEFINE n == Len(q)
           r == Append(q, u)
<1>1. /\ n \in Nat /\ r \in Seq(Notices) /\ Len(r) = n + 1 /\ r[n + 1] = u
      /\ \A i \in 1 .. n : r[i] = q[i]
  OBVIOUS
<1>2. /\ LastTold(c, q).rev >= c.snap.rev /\ LastTold(c, q).rev \in Nat /\ c.snap.rev \in Nat /\ c.seq \in Nat
      /\ u.snap.rev \in Nat
  BY LastToldIsNewer DEF Screens, Notices, Projections
<1>3. u.snap.rev >= c.snap.rev
  BY <1>2
<1>4. ASSUME NEW j \in 1 .. n PROVE q[j].snap.rev <= u.snap.rev
  <2>1. n \in 1 .. n /\ q # <<>>
    BY <1>1
  <2>2. q[j].snap.rev <= q[n].snap.rev
    BY <2>1 DEF CarriesOn
  <2>3. LastTold(c, q).rev = q[n].snap.rev
    BY <2>1 DEF LastTold
  <2>4. q[j] \in Notices /\ q[n] \in Notices
    BY <2>1
  <2>5. q[j].snap.rev \in Nat /\ q[n].snap.rev \in Nat
    BY <2>4 DEF Notices, Projections
  <2> HIDE DEF n
  <2> QED BY <1>2, <2>2, <2>3, <2>5
<1> SUFFICES ASSUME NEW i \in 1 .. n + 1
    PROVE  /\ r[i].seq = c.seq + i /\ r[i].snap.hand = c.snap.hand /\ r[i].snap.rev >= c.snap.rev
           /\ \A j \in 1 .. i : r[j].snap.rev <= r[i].snap.rev
  BY <1>1 DEF CarriesOn
<1> HIDE DEF r
<1>5. CASE i \in 1 .. n
  <2>1. r[i] = q[i] /\ \A j \in 1 .. i : r[j] = q[j]
    BY <1>1, <1>5
  <2> QED BY <1>5, <2>1 DEF CarriesOn
<1>6. CASE i = n + 1
  <2>1. r[i] = u
    BY <1>1, <1>6
  <2>2. u.seq = c.seq + i
    <3>1. u.seq = c.seq + n + 1 /\ c.seq \in Nat /\ n \in Nat
      BY <1>1, <1>2 DEF n
    <3>2. c.seq + i = c.seq + n + 1
      <4> HIDE DEF n
      <4> QED BY <1>6, <3>1
    <3> QED BY <3>1, <3>2
  <2>3. ASSUME NEW j \in 1 .. i PROVE r[j].snap.rev <= u.snap.rev
    <3>1. CASE j = n + 1
      BY <1>1, <1>2, <3>1
    <3>2. CASE j # n + 1
      <4>1. j \in 1 .. n
        <5> HIDE DEF n
        <5> QED BY <1>1, <1>6, <3>2
      <4> QED BY <1>1, <1>4, <4>1
    <3> QED BY <3>1, <3>2
  <2> HIDE DEF n
  <2> QED BY <1>3, <2>1, <2>2, <2>3
<1>7. i \in 1 .. n \/ i = n + 1
  <2> HIDE DEF n
  <2> QED BY <1>1
<1> QED BY <1>5, <1>6, <1>7

(* One place further on. *)
LEMMA OnePlaceOn ==
  ASSUME NEW x \in Nat, NEW y \in Nat
  PROVE  x + (y + 1) = x + y + 1
OBVIOUS

(* A client that is told what happened still fits. *)
LEMMA ScreenToldMore ==
  ASSUME NEW c, NEW s, NEW hand \in Nat, NEW a \in Runtimes, NEW b \in Runtimes, ScreenFits(c, s, hand, a), ~s.ended,
         b.seq = a.seq + 1, b.rev >= a.rev,
         NEW u \in Notices, u.seq = b.seq, u.snap = ProjectionOf(hand, b),
         NEW t \in [queue : Seq(Notices), ended : BOOLEAN], t.queue = Append(s.queue, u), ~t.ended
  PROVE  ScreenFits(c, t, hand, b)
<1> DEFINE q == s.queue
           n == Len(q)
           r == Append(q, u)
<1>1. /\ c \in Screens /\ q \in Seq(Notices) /\ CarriesOn(c, q) /\ c.snap.hand = hand /\ c.conn = "Connected"
      /\ c.seq + n = a.seq /\ LastTold(c, q) = ProjectionOf(hand, a)
  BY DEF ScreenFits
<1>2. n \in Nat /\ Len(r) = n + 1 /\ r # <<>> /\ r[Len(r)] = u
  BY <1>1
<1>3. c.seq \in Nat /\ a.seq \in Nat /\ b.rev \in Nat /\ a.rev \in Nat
  BY <1>1 DEF Screens, Runtimes
<1>4. /\ ProjectionOf(hand, a).rev = a.rev /\ ProjectionOf(hand, b).rev = b.rev /\ ProjectionOf(hand, b).hand = hand
  BY ProjectionFits
<1>5. u.seq = c.seq + n + 1 /\ c.seq + (n + 1) = b.seq /\ b.rev <= b.rev /\ c.seq + (n + 1) <= b.seq
  <2>1. c.seq + n = a.seq /\ n \in Nat /\ c.seq \in Nat
    BY <1>1, <1>2, <1>3
  <2> HIDE DEF n
  <2>2. c.seq + n + 1 = a.seq + 1 /\ c.seq + (n + 1) = c.seq + n + 1
    BY <2>1, OnePlaceOn, Zenon
  <2>3. u.seq = c.seq + n + 1 /\ c.seq + (n + 1) = b.seq
    <3>1. b.seq = c.seq + n + 1
      BY <2>2, Zenon
    <3> QED BY <2>2, <3>1, Zenon
  <2>4. b.seq \in Nat
    BY DEF Runtimes
  <2> QED BY <1>3, <2>3, <2>4
<1>6. CarriesOn(c, r)
  <2>1. LastTold(c, q).rev <= u.snap.rev /\ u.snap.hand = c.snap.hand /\ u.seq = c.seq + Len(q) + 1
    BY <1>1, <1>3, <1>4, <1>5
  <2> HIDE DEF q
  <2> QED BY <1>1, <2>1, CarriesOnFurther
<1>7. LastTold(c, r) = ProjectionOf(hand, b)
  BY <1>2 DEF LastTold
<1>8. t.queue = r
  OBVIOUS
<1> HIDE DEF r, q
<1> QED BY <1>1, <1>2, <1>4, <1>5, <1>6, <1>7, <1>8 DEF ScreenFits

(* A broadcast reaches the queue, or ends the subscription. *)
LEMMA AnnounceFits ==
  ASSUME RuntimeFits(authority), practice.hand \in Nat,
         ScreenFits(app, stream, practice.hand, authority),
         NEW b \in Runtimes, b.seq = authority.seq + 1, b.rev >= authority.rev,
         NEW reason \in {"TimeoutAction", "DeadlineWarning", "ActionAccepted"}, NEW id \in Nat \cup {Null}
  PROVE  ScreenFits(app, Announce(reason, id, b), practice.hand, b)
<1> DEFINE hand == practice.hand
           u == UpdateOf(b.seq, reason, id, ProjectionOf(hand, b))
           sent == Announce(reason, id, b)
<1>1. stream \in [queue : Seq(Notices), ended : BOOLEAN]
  BY DEF ScreenFits
<1>2. /\ authority \in Runtimes /\ authority.seq \in Nat /\ b.seq \in Nat /\ b.seq >= authority.seq
  BY DEF RuntimeFits, Runtimes
<1>3. CASE stream.ended
  <2>1. sent = stream
    BY <1>3 DEF Announce
  <2> HIDE DEF sent
  <2>2. ScreenFits(app, sent, hand, b)
    BY <1>1, <1>2, <1>3, <2>1, ScreenFallsBehind
  <2> QED BY <2>2 DEF sent
<1>4. CASE ~stream.ended /\ Len(stream.queue) = UpdateBuffer
  <2>1. sent = [stream EXCEPT !.ended = TRUE]
    BY <1>4 DEF Announce
  <2> HIDE DEF sent
  <2>2. sent \in [queue : Seq(Notices), ended : BOOLEAN] /\ sent.queue = stream.queue /\ sent.ended
    BY <1>1, <2>1
  <2>3. ScreenFits(app, sent, hand, b)
    BY <1>2, <2>2, ScreenFallsBehind
  <2> QED BY <2>3 DEF sent
<1>5. CASE ~stream.ended /\ Len(stream.queue) # UpdateBuffer
  <2>1. u \in Notices /\ u.seq = b.seq /\ u.snap = ProjectionOf(hand, b)
    <3>1. ProjectionOf(hand, b) \in Projections
      BY ProjectionFits
    <3>2. u = [kind |-> "Update", seq |-> b.seq, reason |-> reason, event |-> id, snap |-> ProjectionOf(hand, b)]
      BY DEF UpdateOf
    <3> HIDE DEF u
    <3> QED BY <1>2, <3>1, <3>2 DEF Notices
  <2>2. sent = [stream EXCEPT !.queue = Append(stream.queue, u)]
    BY <1>1, <1>5 DEF Announce
  <2> HIDE DEF sent, u
  <2>3. sent \in [queue : Seq(Notices), ended : BOOLEAN] /\ sent.queue = Append(stream.queue, u) /\ ~sent.ended
    BY <1>1, <1>5, <2>1, <2>2
  <2>4. ScreenFits(app, sent, hand, b)
    BY <1>2, <1>5, <2>1, <2>3, ScreenToldMore
  <2> QED BY <2>4 DEF sent
<1> QED BY <1>3, <1>4, <1>5

(* A client with nothing left to read. *)
LEMMA NothingQueued ==
  ASSUME NEW c \in Screens, NEW s \in [queue : Seq(Notices), ended : BOOLEAN], NEW hand, NEW a \in Runtimes,
         c.snap.hand = hand, c.seq <= a.seq, c.snap.rev <= a.rev,
         ~s.ended => c.conn = "Connected" /\ c.seq = a.seq /\ c.snap = ProjectionOf(hand, a)
  PROVE  ScreenFits(c, Emptied(s), hand, a)
<1> DEFINE t == Emptied(s)
<1>1. t \in [queue : Seq(Notices), ended : BOOLEAN] /\ t.queue = <<>> /\ t.ended = s.ended
  <2>1. t = [s EXCEPT !.queue = <<>>] /\ <<>> \in Seq(Notices)
    BY DEF Emptied
  <2> HIDE DEF t
  <2> QED BY <2>1
<1>2. Len(<<>>) = 0 /\ c.seq \in Nat
  BY DEF Screens
<1>3. CarriesOn(c, <<>>) /\ LastTold(c, <<>>) = c.snap
  BY <1>2 DEF CarriesOn, LastTold
<1>4. c.seq + Len(t.queue) = c.seq
  BY <1>1, <1>2
<1> HIDE DEF t
<1>5. ScreenFits(c, t, hand, a)
  BY <1>1, <1>3, <1>4 DEF ScreenFits
<1> QED BY <1>5 DEF t

(* Read to its end, a subscription that ended leaves a client that knows it. *)
LEMMA ReadToTheEnd ==
  ASSUME NEW c \in Screens, NEW ended \in BOOLEAN, c.conn = "Connected" \/ ended
  PROVE  LET d == IF ended /\ c.conn # "Failed" THEN MarkDisconnected(c) ELSE c IN
         /\ d \in Screens /\ d.snap = c.snap /\ d.seq = c.seq
         /\ d.conn = IF ended THEN "Disconnected" ELSE "Connected"
BY DEF Screens, MarkDisconnected

(* apply_updates keeps the screen and the runtime together. *)
LEMMA DrainFits ==
  ASSUME NEW c, NEW s, NEW hand \in Nat, NEW a \in Runtimes, ScreenFits(c, s, hand, a)
  PROVE  ScreenFits(Drained(c, s), Emptied(s), hand, a)
<1> DEFINE q == s.queue
           n == Len(q)
<1>1. /\ c \in Screens /\ s \in [queue : Seq(Notices), ended : BOOLEAN] /\ c.snap.hand = hand
      /\ CarriesOn(c, q) /\ c.seq + n <= a.seq /\ LastTold(c, q).rev <= a.rev
      /\ ~s.ended => c.conn = "Connected" /\ c.seq + n = a.seq /\ LastTold(c, q) = ProjectionOf(hand, a)
      /\ c.conn = "Disconnected" => q = <<>>
  BY DEF ScreenFits
<1>2. q \in Seq(Notices) /\ n \in Nat /\ s.ended \in BOOLEAN /\ c.seq \in Nat
  BY <1>1 DEF Screens
<1>3. PICK f : /\ f[0] = c
               /\ \A k \in 1 .. n : f[k] = ApplyUpdate(f[k - 1], q[k])
               /\ Drained(c, s) = IF s.ended /\ f[n].conn # "Failed" THEN MarkDisconnected(f[n]) ELSE f[n]
  BY <1>2, DrainedStepwise
<1> DEFINE d == f[n]
<1>4. /\ d \in Screens /\ (d.conn = "Connected" \/ s.ended) /\ d.snap = LastTold(c, q)
      /\ d.seq = c.seq + n /\ d.snap.hand = hand
  <2>1. CASE c.conn = "Connected"
    <3> HIDE DEF q
    <3> QED BY <1>1, <1>2, <1>3, <2>1, AllIsShown
  <2>2. CASE c.conn = "Disconnected"
    <3>1. q = <<>> /\ n = 0 /\ s.ended
      BY <1>1, <2>2
    <3>2. d = c
      BY <1>3, <3>1
    <3>3. d.seq = c.seq + n
      BY <1>2, <3>1, <3>2
    <3> QED BY <1>1, <3>1, <3>2, <3>3 DEF LastTold
  <2> QED BY <1>1, <2>1, <2>2 DEF Screens
<1> DEFINE e == IF s.ended /\ d.conn # "Failed" THEN MarkDisconnected(d) ELSE d
<1>5. /\ e \in Screens /\ e.snap = d.snap /\ e.seq = d.seq
      /\ e.conn = IF s.ended THEN "Disconnected" ELSE "Connected"
  <2> HIDE DEF d
  <2> QED BY <1>2, <1>4, ReadToTheEnd
<1>6. Drained(c, s) = e
  BY <1>3
<1> HIDE DEF d, e, n
<1>7. /\ e.snap.hand = hand /\ e.seq <= a.seq /\ e.snap.rev <= a.rev
      /\ ~s.ended => e.conn = "Connected" /\ e.seq = a.seq /\ e.snap = ProjectionOf(hand, a)
  BY <1>1, <1>4, <1>5
<1>8. ScreenFits(e, Emptied(s), hand, a)
  BY <1>1, <1>5, <1>7, NothingQueued
<1> QED BY <1>6, <1>8

(* submit_local: the answer is where the runtime is, and what is queued behind
   it is known already. *)
LEMMA AnswerFits ==
  ASSUME NEW c, NEW s, NEW hand \in Nat, NEW a \in Runtimes, ScreenFits(c, s, hand, a), c.conn = "Connected",
         NEW answer, answer = [kind |-> "Response", id |-> OwnCommand, seq |-> a.seq, snap |-> ProjectionOf(hand, a)]
  PROVE  ScreenFits(Drained(ApplyResponse(Prepared(c, OwnCommand, TRUE), answer), s), Emptied(s), hand, a)
<1> DEFINE q == s.queue
           n == Len(q)
           r == ApplyResponse(Prepared(c, OwnCommand, TRUE), answer)
           request == Prepared(c, OwnCommand, TRUE)
<1>1. /\ c \in Screens /\ s \in [queue : Seq(Notices), ended : BOOLEAN] /\ c.snap.hand = hand
      /\ CarriesOn(c, q) /\ c.seq + n <= a.seq /\ LastTold(c, q).rev <= a.rev
  BY DEF ScreenFits
<1>2. /\ q \in Seq(Notices) /\ n \in Nat /\ s.ended \in BOOLEAN /\ c.seq \in Nat /\ a.seq \in Nat /\ a.rev \in Nat
      /\ c.snap.rev \in Nat /\ c.snap.rev <= LastTold(c, q).rev /\ LastTold(c, q).rev \in Nat
  <2>1. q \in Seq(Notices) /\ n \in Nat /\ s.ended \in BOOLEAN /\ c.seq \in Nat /\ a.seq \in Nat /\ a.rev \in Nat
    BY <1>1 DEF Screens, Runtimes
  <2> HIDE DEF q
  <2> QED BY <1>1, <2>1, LastToldIsNewer
<1>3. c.seq <= a.seq /\ c.snap.rev <= a.rev
  <2>1. c.seq + n <= a.seq /\ LastTold(c, q).rev <= a.rev
    BY <1>1
  <2> HIDE DEF n, q
  <2> QED BY <1>2, <2>1
<1>4. /\ ProjectionOf(hand, a) \in Projections /\ ProjectionOf(hand, a).hand = hand
      /\ ProjectionOf(hand, a).rev = a.rev
  BY ProjectionFits
<1>5. /\ r \in Screens /\ r.conn = "Connected" /\ r.snap = ProjectionOf(hand, a) /\ r.seq = a.seq
  <2> DEFINE ask == [id |-> OwnCommand, expected |-> c.snap.rev, acts |-> TRUE]
  <2>1. ask # Null /\ ask.id = OwnCommand
    <3>1. ask \in [id : Nat, expected : Nat, acts : BOOLEAN]
      BY <1>2 DEF OwnCommand
    <3> HIDE DEF ask
    <3>2. ask # Null
      BY <3>1, PracticeAssumption
    <3> QED BY <3>2 DEF ask
  <2>2. request = [conn |-> c.conn, snap |-> c.snap, pending |-> ask, seq |-> c.seq, broadcast |-> c.broadcast]
    <3>1. request = [c EXCEPT !.pending = ask]
      BY DEF Prepared
    <3>2. c = [conn |-> c.conn, snap |-> c.snap, pending |-> c.pending, seq |-> c.seq, broadcast |-> c.broadcast]
      BY <1>1 DEF Screens
    <3> HIDE DEF ask, request
    <3> QED BY <3>1, <3>2
  <2> HIDE DEF ask, request
  <2>3. answer.snap.hand = hand /\ answer.id = OwnCommand /\ answer.seq = a.seq /\ answer.snap = ProjectionOf(hand, a)
        /\ answer.snap.rev = a.rev
    BY <1>4
  <2>4. SameHand(request, answer.snap) /\ request.pending # Null /\ request.pending.id = answer.id
    BY <1>1, <2>1, <2>2, <2>3 DEF SameHand
  <2>5. answer.snap.rev >= request.snap.rev
    BY <1>2, <1>3, <2>2, <2>3
  <2>6. r = [request EXCEPT !.snap = IF answer.snap.rev >= request.snap.rev THEN answer.snap ELSE request.snap,
                          !.seq = IF answer.seq > request.seq THEN answer.seq ELSE request.seq, !.pending = Null]
    BY <2>2, <2>4 DEF ApplyResponse, request
  <2> HIDE DEF r
  <2>7. (IF answer.seq > request.seq THEN answer.seq ELSE request.seq) = a.seq
    BY <1>2, <1>3, <2>2, <2>3
  <2>8. (IF answer.snap.rev >= request.snap.rev THEN answer.snap ELSE request.snap) = answer.snap
    BY <2>5
  <2>9. r = [request EXCEPT !.snap = answer.snap, !.seq = a.seq, !.pending = Null]
    BY <2>6, <2>7, <2>8
  <2>10. r = [conn |-> c.conn, snap |-> answer.snap, pending |-> Null, seq |-> a.seq, broadcast |-> c.broadcast]
    BY <2>2, <2>9
  <2>11. c.broadcast \in BOOLEAN
    BY <1>1 DEF Screens
  <2> QED BY <1>2, <1>4, <2>3, <2>10, <2>11 DEF Screens
<1> HIDE DEF r
<1>6. PICK f : /\ f[0] = r
               /\ \A k \in 1 .. n : f[k] = ApplyUpdate(f[k - 1], q[k])
               /\ Drained(r, s) = IF s.ended /\ f[n].conn # "Failed" THEN MarkDisconnected(f[n]) ELSE f[n]
  <2>1. Len(s.queue) \in Nat
    BY <1>2
  <2> QED BY <2>1, DrainedStepwise
<1>7. f[n] = r
  <2>1. ASSUME NEW i \in 1 .. n PROVE q[i].seq <= r.seq /\ q[i].snap.hand = r.snap.hand
    <3>1. q[i].seq = c.seq + i /\ q[i].snap.hand = c.snap.hand
      BY <1>1 DEF CarriesOn
    <3>2. c.seq + n <= a.seq
      BY <1>1
    <3> HIDE DEF q, n
    <3> QED BY <1>1, <1>2, <1>4, <1>5, <3>1, <3>2
  <2> HIDE DEF q
  <2> QED BY <1>2, <1>6, <2>1, NothingIsNew
<1> DEFINE e == IF s.ended /\ r.conn # "Failed" THEN MarkDisconnected(r) ELSE r
<1>8. /\ e \in Screens /\ e.snap = r.snap /\ e.seq = r.seq
      /\ e.conn = IF s.ended THEN "Disconnected" ELSE "Connected"
  BY <1>2, <1>5, ReadToTheEnd
<1>9. Drained(r, s) = e
  BY <1>6, <1>7
<1> HIDE DEF e
<1>10. ScreenFits(e, Emptied(s), hand, a)
  <2>1. /\ e.snap.hand = hand /\ e.seq <= a.seq /\ e.snap.rev <= a.rev
        /\ ~s.ended => e.conn = "Connected" /\ e.seq = a.seq /\ e.snap = ProjectionOf(hand, a)
    BY <1>2, <1>4, <1>5, <1>8
  <2> QED BY <1>1, <1>8, <2>1, NothingQueued
<1> QED BY <1>9, <1>10 DEF r

(* The chairs and the chips of a session. *)
LEMMA ChairsAreNumbered ==
  /\ Len(SeatNames) \in Nat \ {0} /\ PracticeSeats = 1 .. Len(SeatNames) /\ IsFiniteSet(PracticeSeats)
  /\ Cardinality(PracticeSeats) = Len(SeatNames) /\ Me \in PracticeSeats /\ Total \in Nat
<1>1. Len(SeatNames) \in Nat \ {0} /\ PracticeSeats = 1 .. Len(SeatNames)
  BY PracticeAssumption DEF PracticeSeats
<1>2. IsFiniteSet(PracticeSeats) /\ Cardinality(PracticeSeats) = Len(SeatNames)
  BY <1>1, FS_Interval
<1>3. Total \in Nat
  BY <1>1, <1>2, PracticeAssumption DEF Total
<1> QED BY <1>1, <1>2, <1>3 DEF Me

(* The chairs from the button on are counted around the table. *)
LEMMA AroundTheTable ==
  ASSUME NEW n \in Nat \ {0}, NEW s \in 1 .. n, NEW from \in 1 .. n
  PROVE  /\ ((s - from) % n) \in Nat /\ ((s - from - 1) % n) \in Nat
         /\ ((s - from) % n) >= 1 => ((s - from - 1) % n) = ((s - from) % n) - 1
<1> DEFINE x == s - from
<1>1. x \in Int /\ x < n /\ -n < x /\ x - 1 >= -n
  OBVIOUS
<1>2. CASE x > 0
  <2>1. (x % n) = x /\ ((x - 1) % n) = x - 1
    <3> HIDE DEF x
    <3> QED BY <1>1, <1>2
  <2> QED BY <1>1, <1>2, <2>1
<1>3. CASE x = 0
  <2>1. (x % n) = 0 /\ ((x - 1) % n) = n - 1
    <3> HIDE DEF x
    <3> QED BY <1>1, <1>3
  <2> QED BY <1>1, <1>3, <2>1
<1>4. CASE x < 0
  <2>1. (x % n) = x + n /\ ((x - 1) % n) = x - 1 + n
    <3> HIDE DEF x
    <3> QED BY <1>1, <1>4
  <2> QED BY <1>1, <1>4, <2>1
<1> QED BY <1>1, <1>2, <1>3, <1>4

(* complete_hand: the button goes to the first seat after it that has chips. *)
LEMMA ButtonPassesNobody ==
  ASSUME NEW final \in ChipStacks, NEW from \in PracticeSeats, final[Me] > 0
  PROVE  LET to == NextButton(final, from) IN
         /\ to \in PracticeSeats /\ final[to] > 0
         /\ \A s \in PracticeSeats : ChairAfter(from, s, to) => final[s] = 0
<1> DEFINE N == Cardinality(PracticeSeats)
           steps(c) == (c - from - 1) % N
           Able == {c \in PracticeSeats : final[c] > 0}
           Ways == {steps(c) : c \in Able}
           First(c) == /\ HasChips(final, c)
                       /\ \A d \in PracticeSeats : HasChips(final, d) => steps(c) <= steps(d)
           to == NextButton(final, from)
<1>1. N \in Nat \ {0} /\ PracticeSeats = 1 .. N /\ Me \in PracticeSeats
  BY ChairsAreNumbered
<1>2. \A c \in PracticeSeats : steps(c) \in Nat
  <2> HIDE DEF N
  <2> QED BY <1>1, AroundTheTable
<1>3. \E c \in PracticeSeats : First(c)
  <2>1. Ways # {} /\ Ways \subseteq Nat
    BY <1>1, <1>2
  <2>2. PICK w \in Ways : \A v \in Ways : w <= v
    <3> HIDE DEF Ways
    <3> QED BY <2>1, LeastOf
  <2>3. PICK c \in Able : w = steps(c)
    BY <2>2
  <2>4. \A d \in Able : steps(c) <= steps(d)
    BY <2>2, <2>3
  <2> QED BY <2>3, <2>4 DEF HasChips
<1>4. to = CHOOSE c \in PracticeSeats : First(c)
  BY DEF NextButton
<1> HIDE DEF to
<1>5. to \in PracticeSeats /\ First(to)
  BY <1>3, <1>4
<1>6. ASSUME NEW s \in PracticeSeats, ChairAfter(from, s, to), final[s] # 0 PROVE FALSE
  <2>1. final[s] > 0
    BY <1>6 DEF ChipStacks
  <2>2. steps(to) <= steps(s)
    BY <1>5, <2>1 DEF HasChips
  <2>3. ((s - from) % N) \in 1 .. steps(to)
    BY <1>6 DEF ChairAfter
  <2>4. steps(to) \in Nat /\ steps(s) \in Nat
    BY <1>2, <1>5
  <2>5. ((s - from) % N) \in Nat /\ (((s - from) % N) >= 1 => steps(s) = ((s - from) % N) - 1)
    <3> HIDE DEF N
    <3> QED BY <1>1, AroundTheTable
  <2> HIDE DEF steps, N
  <2> QED BY <2>2, <2>3, <2>4, <2>5
<1> QED BY <1>5, <1>6 DEF to, HasChips

(* LocalPractice::from_stacks: a new hand is where its runtime is. *)
LEMMA NewHandFits ==
  ASSUME NEW stacks \in ChipStacks, SumFunctionOnSet(stacks, PracticeSeats) = Total,
         NEW turn \in NextTurns(stacks), NEW hand \in Nat
  PROVE  LET a == FreshRuntime(stacks, turn) IN RuntimeFits(a) /\ ScreenFits(Watching(hand, a), Quiet, hand, a)
<1> DEFINE a == FreshRuntime(stacks, turn)
           c == Watching(hand, a)
<1>1. a \in Runtimes /\ a.stacks = stacks /\ a.seq = 0 /\ a.rev = 0
  <2>1. turn \in RuntimeTurns
    BY DEF NextTurns, RuntimeTurns, DealtIn
  <2> QED BY <2>1 DEF FreshRuntime, Runtimes
<1> HIDE DEF a
<1>2. /\ ProjectionOf(hand, a) \in Projections /\ ProjectionOf(hand, a).hand = hand
      /\ ProjectionOf(hand, a).rev = a.rev
  BY <1>1, ProjectionFits
<1>3. c = [conn |-> "Connected", snap |-> ProjectionOf(hand, a), pending |-> Null, seq |-> 0, broadcast |-> FALSE]
  BY DEF Watching, Bootstrap, UpdateOf
<1> HIDE DEF c
<1>4. c \in Screens /\ c.conn = "Connected" /\ c.snap = ProjectionOf(hand, a) /\ c.seq = a.seq
  BY <1>1, <1>2, <1>3 DEF Screens
<1> DEFINE s == Quiet
<1>5. s \in [queue : Seq(Notices), ended : BOOLEAN] /\ Emptied(s) = s /\ ~s.ended
  BY DEF Quiet, Emptied
<1>6. c.seq <= a.seq /\ c.snap.rev <= a.rev
  BY <1>1, <1>2, <1>4
<1> HIDE DEF s
<1>7. ScreenFits(c, Emptied(s), hand, a)
  BY <1>1, <1>2, <1>4, <1>5, <1>6, NothingQueued
<1>8. RuntimeFits(a)
  BY <1>1 DEF RuntimeFits
<1> QED BY <1>5, <1>7, <1>8 DEF a, c, s

(* The session is as it was while a hand is played. *)
LEMMA SessionKept ==
  ASSUME SessionInv, step # "over", practice' = practice
  PROVE  SessionInv'
BY DEF SessionInv

(* Where a session begins. *)
LEMMA PracticeBegins ==
  ASSUME PracticeInit
  PROVE  PracticeInv
<1> DEFINE stacks == [s \in PracticeSeats |-> QuickStack]
<1>1. stacks \in ChipStacks /\ SumFunctionOnSet(stacks, PracticeSeats) = Total /\ stacks[Me] > 0
  <2>1. QuickStack \in Nat /\ QuickStack > 0 /\ IsFiniteSet(PracticeSeats) /\ Me \in PracticeSeats
        /\ Cardinality(PracticeSeats) \in Nat
    BY ChairsAreNumbered, PracticeAssumption
  <2>2. \A s \in PracticeSeats : stacks[s] = QuickStack
    OBVIOUS
  <2>3. stacks \in ChipStacks /\ stacks[Me] > 0
    BY <2>1 DEF ChipStacks
  <2> HIDE DEF stacks
  <2>4. SumFunctionOnSet(stacks, PracticeSeats) = QuickStack * Cardinality(PracticeSeats)
    BY <2>1, <2>2, SumConst
  <2>5. QuickStack * Cardinality(PracticeSeats) = Cardinality(PracticeSeats) * QuickStack
    BY <2>1
  <2> QED BY <2>3, <2>4, <2>5 DEF Total
<1>2. /\ practice = [hand |-> 1, button |-> Me, opening |-> stacks, histories |-> <<>>]
      /\ \E turn \in NextTurns(stacks) : authority = FreshRuntime(stacks, turn)
      /\ app = Watching(1, authority) /\ stream = Quiet
  BY DEF PracticeInit
<1> HIDE DEF stacks
<1>3. SessionInv
  <2>1. Me \in PracticeSeats
    BY ChairsAreNumbered
  <2> QED BY <1>1, <1>2, <2>1 DEF SessionInv
<1>4. RuntimeFits(authority) /\ ScreenFits(app, stream, practice.hand, authority)
  <2>1. PICK turn \in NextTurns(stacks) : authority = FreshRuntime(stacks, turn)
    BY <1>2
  <2>2. RuntimeFits(authority) /\ ScreenFits(Watching(1, authority), Quiet, 1, authority)
    BY <1>1, <2>1, NewHandFits
  <2> QED BY <1>2, <2>2
<1> QED BY <1>3, <1>4 DEF PracticeInv

(* The runtime's clock. *)
LEMMA ClockFits ==
  ASSUME PracticeInv, Clock
  PROVE  PracticeInv'
<1>1. /\ SessionInv /\ RuntimeFits(authority) /\ ScreenFits(app, stream, practice.hand, authority)
      /\ practice.hand \in Nat
  BY DEF PracticeInv, SessionInv
<1>2. SessionInv' /\ practice' = practice /\ app' = app
  BY <1>1, SessionKept DEF Clock, Playing
<1>3. CASE authority' \in Advances(authority) /\ stream' = Announce("TimeoutAction", Anonymous, authority')
  <2>1. /\ RuntimeFits(authority') /\ authority' \in Runtimes /\ authority \in Runtimes
        /\ authority'.seq = authority.seq + 1 /\ authority'.rev = authority.rev + 1
    BY <1>1, <1>3, AdvanceFits DEF RuntimeFits
  <2>2. authority'.rev >= authority.rev /\ Anonymous \in Nat \cup {Null}
    BY <2>1 DEF Anonymous, Runtimes
  <2>3. ScreenFits(app, Announce("TimeoutAction", Anonymous, authority'), practice.hand, authority')
    BY <1>1, <2>1, <2>2, AnnounceFits
  <2> QED BY <1>2, <1>3, <2>1, <2>3 DEF PracticeInv
<1>4. CASE /\ authority' = [authority EXCEPT !.seq = @ + 1]
           /\ stream' = Announce("DeadlineWarning", Null, authority')
  <2>1. /\ authority \in Runtimes /\ authority.seq \in Nat /\ authority.rev \in Nat
    BY <1>1 DEF RuntimeFits, Runtimes
  <2>2. /\ authority' \in Runtimes /\ authority'.seq = authority.seq + 1 /\ authority'.rev = authority.rev
        /\ authority'.stacks = authority.stacks
    BY <1>4, <2>1 DEF Runtimes
  <2>3. RuntimeFits(authority')
    BY <1>1, <2>2 DEF RuntimeFits
  <2>4. authority'.rev >= authority.rev
    BY <2>1, <2>2
  <2>5. ScreenFits(app, Announce("DeadlineWarning", Null, authority'), practice.hand, authority')
    BY <1>1, <2>2, <2>4, AnnounceFits
  <2> QED BY <1>2, <1>4, <2>3, <2>5 DEF PracticeInv
<1> QED BY <1>3, <1>4 DEF Clock

(* apply_updates *)
LEMMA PollFits ==
  ASSUME PracticeInv, PollUpdates
  PROVE  PracticeInv'
<1>1. /\ SessionInv /\ RuntimeFits(authority) /\ ScreenFits(app, stream, practice.hand, authority)
      /\ practice.hand \in Nat /\ authority \in Runtimes
  BY DEF PracticeInv, SessionInv, RuntimeFits
<1>2. SessionInv' /\ practice' = practice /\ authority' = authority
  BY <1>1, SessionKept DEF PollUpdates
<1>3. ScreenFits(Drained(app, stream), Emptied(stream), practice.hand, authority)
  BY <1>1, DrainFits
<1> QED BY <1>1, <1>2, <1>3 DEF PracticeInv, PollUpdates

(* step_bot *)
LEMMA BotFits ==
  ASSUME PracticeInv, BotActs
  PROVE  PracticeInv'
<1>1. /\ SessionInv /\ RuntimeFits(authority) /\ ScreenFits(app, stream, practice.hand, authority)
      /\ practice.hand \in Nat /\ authority \in Runtimes
  BY DEF PracticeInv, SessionInv, RuntimeFits
<1>2. SessionInv' /\ practice' = practice
  BY <1>1, SessionKept DEF BotActs
<1>3. CASE UNCHANGED <<authority, stream, app>>
  BY <1>1, <1>2, <1>3 DEF PracticeInv
<1>4. CASE /\ authority' \in Advances(authority)
           /\ LET sent == Announce("ActionAccepted", Anonymous, authority')
              IN  app' = Drained(app, sent) /\ stream' = Emptied(sent)
  <2> DEFINE sent == Announce("ActionAccepted", Anonymous, authority')
  <2>1. /\ RuntimeFits(authority') /\ authority' \in Runtimes
        /\ authority'.seq = authority.seq + 1 /\ authority'.rev = authority.rev + 1
    BY <1>1, <1>4, AdvanceFits DEF RuntimeFits
  <2>2. authority'.rev >= authority.rev /\ Anonymous \in Nat \cup {Null}
    BY <1>1, <2>1 DEF Anonymous, Runtimes
  <2>3. ScreenFits(app, sent, practice.hand, authority')
    BY <1>1, <2>1, <2>2, AnnounceFits
  <2>4. app' = Drained(app, sent) /\ stream' = Emptied(sent)
    BY <1>4
  <2> HIDE DEF sent
  <2>5. ScreenFits(Drained(app, sent), Emptied(sent), practice.hand, authority')
    BY <1>1, <2>1, <2>3, DrainFits
  <2> QED BY <1>2, <2>1, <2>4, <2>5 DEF PracticeInv
<1> QED BY <1>3, <1>4 DEF BotActs

(* submit_local *)
LEMMA LearnerFits ==
  ASSUME PracticeInv, LearnerActs
  PROVE  PracticeInv'
<1>1. /\ SessionInv /\ RuntimeFits(authority) /\ ScreenFits(app, stream, practice.hand, authority)
      /\ practice.hand \in Nat /\ authority \in Runtimes /\ app.conn = "Connected"
  BY DEF PracticeInv, SessionInv, RuntimeFits, LearnerActs, ControlsEnabled
<1>2. SessionInv' /\ practice' = practice
  BY <1>1, SessionKept DEF LearnerActs
<1>3. CASE /\ authority' \in Advances(authority)
           /\ LET sent == Announce("ActionAccepted", OwnCommand, authority')
              IN  /\ app' = Drained(ApplyResponse(Submitted, ResponseOf(authority')), sent)
                  /\ stream' = Emptied(sent)
  <2> DEFINE sent == Announce("ActionAccepted", OwnCommand, authority')
             answer == ResponseOf(authority')
  <2>1. /\ RuntimeFits(authority') /\ authority' \in Runtimes
        /\ authority'.seq = authority.seq + 1 /\ authority'.rev = authority.rev + 1
    BY <1>1, <1>3, AdvanceFits DEF RuntimeFits
  <2>2. authority'.rev >= authority.rev /\ OwnCommand \in Nat \cup {Null}
    BY <1>1, <2>1 DEF OwnCommand, Runtimes
  <2>3. ScreenFits(app, sent, practice.hand, authority')
    BY <1>1, <2>1, <2>2, AnnounceFits
  <2>4. app' = Drained(ApplyResponse(Prepared(app, OwnCommand, TRUE), answer), sent) /\ stream' = Emptied(sent)
    BY <1>3 DEF Submitted
  <2>5. answer = [kind |-> "Response", id |-> OwnCommand, seq |-> authority'.seq,
                  snap |-> ProjectionOf(practice.hand, authority')]
    BY DEF ResponseOf
  <2> HIDE DEF sent, answer
  <2>6. ScreenFits(Drained(ApplyResponse(Prepared(app, OwnCommand, TRUE), answer), sent), Emptied(sent),
                   practice.hand, authority')
    BY <1>1, <2>1, <2>3, <2>5, AnswerFits
  <2> QED BY <1>2, <2>1, <2>4, <2>6 DEF PracticeInv
<1>4. CASE /\ authority' = authority /\ stream' = Emptied(stream)
           /\ app' = Drained(ApplyResponse(Submitted, ResponseOf(authority)), stream)
  <2> DEFINE answer == ResponseOf(authority)
  <2>1. answer = [kind |-> "Response", id |-> OwnCommand, seq |-> authority.seq,
                  snap |-> ProjectionOf(practice.hand, authority)]
    BY DEF ResponseOf
  <2>2. app' = Drained(ApplyResponse(Prepared(app, OwnCommand, TRUE), answer), stream)
    BY <1>4 DEF Submitted
  <2> HIDE DEF answer
  <2>3. ScreenFits(Drained(ApplyResponse(Prepared(app, OwnCommand, TRUE), answer), stream), Emptied(stream),
                   practice.hand, authority)
    BY <1>1, <2>1, AnswerFits
  <2> QED BY <1>1, <1>2, <1>4, <2>2, <2>3 DEF PracticeInv
<1> QED BY <1>3, <1>4 DEF LearnerActs

(* complete_hand: the hand is written down, and the next one dealt if there is one. *)
LEMMA CompleteFits ==
  ASSUME PracticeInv, CompletePractice
  PROVE  PracticeInv'
<1> DEFINE final == authority.stacks
           record == [hand |-> practice.hand, button |-> practice.button, opening |-> practice.opening, final |-> final]
           log == Append(practice.histories, record)
           m == Len(practice.histories)
           hand == practice.hand
           button == NextButton(final, practice.button)
<1>1. /\ SessionInv /\ RuntimeFits(authority) /\ ScreenFits(app, stream, hand, authority)
      /\ hand \in Nat \ {0} /\ practice.button \in PracticeSeats /\ practice.opening \in ChipStacks
      /\ practice.histories \in Seq(HandRecords) /\ practice.opening[practice.button] > 0
      /\ m = hand - 1 /\ m \in Nat
      /\ practice = [hand |-> hand, button |-> practice.button, opening |-> practice.opening,
                     histories |-> practice.histories]
  BY DEF PracticeInv, SessionInv, CompletePractice
<1>2. final \in ChipStacks /\ SumFunctionOnSet(final, PracticeSeats) = Total
  BY <1>1 DEF RuntimeFits, Runtimes
<1>3. record \in HandRecords
  BY <1>1, <1>2 DEF HandRecords
<1>4. /\ log \in Seq(HandRecords) /\ Len(log) = m + 1 /\ log[m + 1] = record
      /\ \A n \in 1 .. m : log[n] = practice.histories[n]
  <2> HIDE DEF record
  <2> QED BY <1>1, <1>3
<1> DEFINE Good(n) == LET h == log[n]
                      IN  /\ h.hand = n /\ h.opening[h.button] > 0
                          /\ SumFunctionOnSet(h.final, PracticeSeats) = Total
                          /\ n > 1 => HandFollows(log[n - 1], h.opening, h.button)
<1>5. ASSUME NEW n \in 1 .. m + 1 PROVE Good(n)
  <2> HIDE DEF log
  <2>1. CASE n \in 1 .. m
    <3>1. log[n] = practice.histories[n] /\ (n > 1 => log[n - 1] = practice.histories[n - 1])
      <4>1. n > 1 => n - 1 \in 1 .. m
        BY <1>1, <2>1
      <4> QED BY <1>4, <2>1, <4>1
    <3>2. LET h == practice.histories[n]
          IN  /\ h.hand = n /\ h.opening[h.button] > 0
              /\ SumFunctionOnSet(h.final, PracticeSeats) = Total
              /\ n > 1 => HandFollows(practice.histories[n - 1], h.opening, h.button)
      BY <1>1, <2>1 DEF SessionInv
    <3> QED BY <3>1, <3>2
  <2>2. CASE n = m + 1
    <3>1. n = hand /\ log[n] = record
      <4> HIDE DEF m
      <4> QED BY <1>1, <1>4, <2>2
    <3>2. n > 1 => log[n - 1] = practice.histories[hand - 1] /\ hand > 1
      <4>1. n > 1 => n - 1 \in 1 .. m /\ n - 1 = hand - 1
        <5> HIDE DEF m
        <5> QED BY <1>1, <2>2, <3>1
      <4> QED BY <1>4, <3>1, <4>1
    <3>3. step # "over"
      BY DEF CompletePractice
    <3>4. n > 1 => HandFollows(log[n - 1], practice.opening, practice.button)
      BY <1>1, <3>2, <3>3 DEF SessionInv
    <3> QED BY <1>1, <1>2, <3>1, <3>4
  <2>3. n \in 1 .. m \/ n = m + 1
    <3> HIDE DEF m
    <3> QED BY <1>1
  <2> QED BY <2>1, <2>2, <2>3
<1>6. CASE /\ final[Me] > 0
           /\ practice' = [hand |-> hand + 1, opening |-> final, histories |-> log, button |-> button]
           /\ \E turn \in NextTurns(final) : authority' = FreshRuntime(final, turn)
           /\ app' = Watching(hand + 1, authority') /\ stream' = Quiet
  <2>1. /\ button \in PracticeSeats /\ final[button] > 0
        /\ \A s \in PracticeSeats : ChairAfter(practice.button, s, button) => final[s] = 0
    <3> HIDE DEF final
    <3> QED BY <1>1, <1>2, <1>6, ButtonPassesNobody
  <2>2. HandFollows(record, final, button)
    BY <1>6, <2>1 DEF HandFollows
  <2>3. RuntimeFits(authority') /\ ScreenFits(app', stream', hand + 1, authority')
    <3>1. PICK turn \in NextTurns(final) : authority' = FreshRuntime(final, turn)
      BY <1>6
    <3>2. hand + 1 \in Nat
      BY <1>1
    <3> HIDE DEF final, hand
    <3> QED BY <1>2, <1>6, <3>1, <3>2, NewHandFits
  <2>4. SessionInv'
    <3> HIDE DEF final, log, button, record, m, hand
    <3>1. /\ practice'.hand = hand + 1 /\ practice'.opening = final /\ practice'.histories = log
          /\ practice'.button = button
      BY <1>6
    <3>2. practice' \in [hand : Nat \ {0}, button : PracticeSeats, opening : ChipStacks, histories : Seq(HandRecords)]
      BY <1>1, <1>2, <1>4, <1>6, <2>1
    <3>3. practice'.opening[practice'.button] > 0
      BY <2>1, <3>1
    <3>4. \A n \in 1 .. Len(practice'.histories) : Good(n)
      BY <1>4, <1>5, <3>1
    <3>5. Len(practice'.histories) = practice'.hand - 1 /\ practice'.histories[practice'.hand - 1] = record
      BY <1>1, <1>4, <3>1
    <3>6. HandFollows(practice'.histories[practice'.hand - 1], practice'.opening, practice'.button)
      BY <2>2, <3>1, <3>5
    <3> QED BY <3>1, <3>2, <3>3, <3>4, <3>5, <3>6 DEF SessionInv
  <2> QED BY <1>6, <2>3, <2>4 DEF PracticeInv
<1>7. CASE /\ practice' = [practice EXCEPT !.histories = log] /\ step' = "over"
           /\ UNCHANGED <<authority, stream, app>>
  <2>1. SessionInv'
    <3> HIDE DEF final, log, button, record, m, hand
    <3>1. /\ practice'.hand = practice.hand /\ practice'.opening = practice.opening /\ practice'.histories = log
          /\ practice'.button = practice.button
      BY <1>1, <1>7
    <3>2. practice' \in [hand : Nat \ {0}, button : PracticeSeats, opening : ChipStacks, histories : Seq(HandRecords)]
      BY <1>1, <1>4, <1>7 DEF SessionInv
    <3>3. \A n \in 1 .. Len(practice'.histories) : Good(n)
      BY <1>4, <1>5, <3>1
    <3> QED BY <1>1, <1>7, <3>1, <3>2, <3>3 DEF SessionInv
  <2>2. practice'.hand = practice.hand
    BY <1>1, <1>7
  <2> QED BY <1>1, <1>7, <2>1, <2>2 DEF PracticeInv
<1> QED BY <1>6, <1>7 DEF CompletePractice

(* Whatever else happens changes nothing that is counted here. *)
LEMMA OtherStepsFit ==
  ASSUME PracticeInv, BotWaits \/ NothingTyped \/ IllegalAllIn \/ LeaveTable
  PROVE  PracticeInv'
<1>1. SessionInv /\ step # "over" /\ UNCHANGED <<practice, authority, stream, app>>
  BY DEF PracticeInv, BotWaits, NothingTyped, IllegalAllIn, LeaveTable
<1>2. SessionInv'
  BY <1>1, SessionKept
<1> QED BY <1>1, <1>2 DEF PracticeInv

(* What is kept, and what follows. *)
LEMMA PracticeInvariant == PracticeSpec => []PracticeInv
<1>1. PracticeInv /\ UNCHANGED practiceVars => PracticeInv'
  BY DEF PracticeInv, practiceVars, SessionInv
<1>2. PracticeInv /\ [PracticeNext]_practiceVars => PracticeInv'
  BY <1>1, ClockFits, PollFits, BotFits, LearnerFits, CompleteFits, OtherStepsFit DEF PracticeNext
<1> QED BY <1>2, PracticeBegins, PTL DEF PracticeSpec

(* For any seating, stacks, buffer and number of hands, events and         *)
(* warnings: the hands of a session are numbered without gaps, each is     *)
(* dealt from what the last one paid, no chip is lost, the button skips no *)
(* seat that is dealt in, and a screen with nothing more to be told shows  *)
(* its runtime unless it was too slow for its buffer                       *)
(* (src/local_practice.rs complete_hand, apply_updates, submit_local).     *)
THEOREM PracticeAlwaysAddsUp == PracticeSpec => []PracticeAddsUp
<1>1. ASSUME PracticeInv PROVE PracticeAddsUp
  <2>1. /\ SessionInv /\ ScreenFits(app, stream, practice.hand, authority)
    BY <1>1 DEF PracticeInv
  <2>2. practice.histories \in Seq(HandRecords) /\ DOMAIN practice.histories = 1 .. Len(practice.histories)
        /\ Len(practice.histories) \in Nat
    BY <2>1 DEF SessionInv
  <2>3. ASSUME NEW n \in DOMAIN practice.histories
        PROVE  LET h == practice.histories[n]
               IN  /\ h.hand = n /\ h.opening[h.button] > 0
                   /\ SumFunctionOnSet(h.final, PracticeSeats) = Total
                   /\ n > 1 => LET before == practice.histories[n - 1]
                               IN  /\ h.opening = before.final /\ h.opening[Me] > 0
                                   /\ \A s \in PracticeSeats :
                                        ChairAfter(before.button, s, h.button) => h.opening[s] = 0
    BY <2>1, <2>2 DEF SessionInv, HandFollows
  <2>4. /\ app.pending = Null /\ app.conn \in {"Connected", "Disconnected"}
        /\ app.conn = "Disconnected" => stream.ended
    BY <2>1 DEF ScreenFits, Screens
  <2>5. ASSUME stream = Quiet PROVE app.snap = ProjectionOf(practice.hand, authority)
    <3>1. stream.queue = <<>> /\ ~stream.ended
      BY <2>5 DEF Quiet
    <3> QED BY <2>1, <3>1 DEF ScreenFits, LastTold
  <2> QED BY <2>3, <2>4, <2>5 DEF PracticeAddsUp
<1> QED BY <1>1, PracticeInvariant, PTL
=============================================================================
