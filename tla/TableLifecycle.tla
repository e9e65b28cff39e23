--------------------------- MODULE TableLifecycle ---------------------------
(***************************************************************************)
(* The roster of a table around its hands: TableLifecycle of               *)
(* src/src/game/lifecycle.rs over TableSeats (src/src/game/table.rs) and   *)
(* the seat ring (src/src/game/seat.rs).  Identities reserve and take      *)
(* seats, sit out, return and leave; a hand is dealt from a snapshot of    *)
(* the eligible seats and reconciled when it ends; what is requested       *)
(* during a hand waits for the boundary.                                   *)
(*                                                                         *)
(* An operation that returns an error changes nothing, except begin_hand   *)
(* with too few players, which is an action of its own.                    *)
(***************************************************************************)
EXTENDS Integers, FiniteSets, FiniteSetsExt, Functions

CONSTANTS
  TableSize,    \* seats of the table
  Players,      \* identities
  BuyIns,       \* stacks a player may bring
  Droppable,    \* players whose connection may change
  Bookers,      \* players who reserve a seat before they take it
  MissedBlinds, \* blinds a seated player may be recorded to have missed
  ChipCap,      \* bound: nobody brings chips beyond this total
  HandCap,      \* bound: hand numbers are counted up to this bound; the code only
                \* asks whether a hand was ever started
  Vacant,       \* an empty seat, or a seat nobody reserved
  NoHand        \* active_hand = None

Seats  == 0 .. TableSize - 1
NoSeat == -1

Participations == {"Active", "WaitingForBlind", "SittingOut"}
Obligations    == {"Clear", "OwesSmallBlind", "OwesBigBlind", "OwesBoth"}
Transitions    == {"SitOut", "Return", "Leave"}
RunStates      == {"Waiting", "Running", "Paused", "Closed"}
Entries        == {"WaitForBigBlind", "PostLiveBigBlind"}
SeatStates == [player : Players, stack : Nat, connected : BOOLEAN,
               part : Participations, owed : Obligations, dealt : BOOLEAN]
(* HandStart, the snapshot a hand is dealt from. *)
HandStarts == [button : Seats, stacks : UNION {[S -> Nat] : S \in SUBSET Seats},
               smallPosts : SUBSET Seats, bigPosts : SUBSET Seats]

ASSUME LifecycleAssumption ==
  /\ TableSize \in 2 .. 9
  /\ BuyIns \subseteq Nat \ {0}
  /\ Droppable \subseteq Players /\ Bookers \subseteq Players
  /\ MissedBlinds \subseteq {"OwesSmallBlind", "OwesBigBlind"}
  /\ ChipCap \in Nat
  /\ HandCap \in Nat /\ HandCap >= 2
  /\ Vacant \notin Players \cup SeatStates /\ NoHand \notin HandStarts

VARIABLES
  seats,       \* Seats -> SeatStates or Vacant
  reserved,    \* reservations: Seats -> Players or Vacant
  pending,     \* Players -> transition or "None"
  state,       \* TableRunState
  start,       \* active_hand: the HandStart snapshot, or NoHand
  lastButton,
  nextHand     \* next_hand_number
vars == <<seats, reserved, pending, state, start, lastButton, nextHand>>

Init ==
  /\ seats = [s \in Seats |-> Vacant]
  /\ reserved = [s \in Seats |-> Vacant]
  /\ pending = [p \in Players |-> "None"]
  /\ state = "Waiting"
  /\ start = NoHand
  /\ lastButton = NoSeat
  /\ nextHand = 1

-----------------------------------------------------------------------------
(* Reading the roster. *)

HandActive == start # NoHand
Open == state # "Closed"

Occupied(t) == {s \in Seats : t[s] # Vacant}
SeatsOf(t, p) == {s \in Occupied(t) : t[s].player = p}
SeatedIn(t, p) == SeatsOf(t, p) # {}
SeatOf(p) == CHOOSE s \in SeatsOf(seats, p) : TRUE

(* eligible_for_next_hand *)
Eligible(t) == {s \in Occupied(t) : t[s].stack > 0 /\ t[s].part = "Active"}

(* identity_present *)
IdentityPresent(p) == SeatedIn(seats, p) \/ \E s \in Seats : reserved[s] = p

(* TableSize::next_eligible: clockwise after a, a itself excluded. *)
Offset(a, s) == (s - a + TableSize) % TableSize
NextEligible(a, S) ==
  IF S \ {a} = {} THEN NoSeat
  ELSE CHOOSE s \in S \ {a} : \A t \in S \ {a} : Offset(a, s) <= Offset(a, t)

(* next_button over the seats that would be dealt. *)
ButtonOver(S) == IF lastButton = NoSeat THEN Min(S) ELSE NextEligible(lastButton, S)

(* TableSeats::positions. *)
SmallBlindOver(button, S) ==
  IF Cardinality(S) = 2 THEN button ELSE NextEligible(button, S)
BigBlindOver(button, S) ==
  IF Cardinality(S) = 2 THEN NextEligible(button, S)
  ELSE NextEligible(NextEligible(button, S), S)

Stacks(t) == [s \in Occupied(t) |-> t[s].stack]
TableChips(t) == SumFunction(Stacks(t))

(* refresh_between_hand_state, for a table without an active hand. *)
Refresh(t, s) ==
  IF s = "Closed" THEN "Closed"
  ELSE IF Occupied(t) = {} THEN "Waiting"
  ELSE IF s \in {"Running", "Paused"}
    THEN IF Cardinality(Eligible(t)) >= 2 THEN "Running" ELSE "Paused"
  ELSE "Waiting"

-----------------------------------------------------------------------------
(* Reservations and seating. *)

CanReserve(p, s) ==
  /\ Open /\ ~IdentityPresent(p)
  /\ seats[s] = Vacant /\ reserved[s] = Vacant

Reserve(p, s) ==
  /\ CanReserve(p, s)
  /\ reserved' = [reserved EXCEPT ![s] = p]
  /\ UNCHANGED <<seats, pending, state, start, lastButton, nextHand>>

CancelReservation(p, s) ==
  /\ Open /\ reserved[s] = p
  /\ reserved' = [reserved EXCEPT ![s] = Vacant]
  /\ UNCHANGED <<seats, pending, state, start, lastButton, nextHand>>

(* SeatState::active *)
NewSeat(p, stack) ==
  [player |-> p, stack |-> stack, connected |-> TRUE, part |-> "Active",
   owed |-> "Clear", dealt |-> FALSE]

Occupy(p, s, stack) ==
  /\ Open /\ ~HandActive
  /\ ~SeatedIn(seats, p)
  /\ reserved[s] = p
  /\ seats' = [seats EXCEPT ![s] = NewSeat(p, stack)]
  /\ reserved' = [reserved EXCEPT ![s] = Vacant]
  /\ state' = Refresh(seats', state)
  /\ UNCHANGED <<pending, start, lastButton, nextHand>>

(* join: a reservation taken up at once, or undone. *)
Join(p, s, stack) ==
  /\ CanReserve(p, s) /\ ~HandActive
  /\ seats' = [seats EXCEPT ![s] = NewSeat(p, stack)]
  /\ state' = Refresh(seats', state)
  /\ UNCHANGED <<reserved, pending, start, lastButton, nextHand>>

(* join_with_entry: after the first hand a newcomer owes a big blind.  The
   intermediate refresh of join is visible in the run state. *)
JoinWithEntry(p, s, stack, entry) ==
  LET joined == [seats EXCEPT ![s] = NewSeat(p, stack)]
      owing  == [joined EXCEPT
                   ![s].owed = "OwesBigBlind",
                   ![s].part = IF entry = "WaitForBigBlind" THEN "WaitingForBlind"
                               ELSE "Active"]
  IN  /\ CanReserve(p, s) /\ ~HandActive
      /\ IF nextHand > 1
         THEN /\ seats' = owing
              /\ state' = Refresh(owing, Refresh(joined, state))
         ELSE /\ seats' = joined
              /\ state' = Refresh(joined, state)
      /\ UNCHANGED <<reserved, pending, start, lastButton, nextHand>>

-----------------------------------------------------------------------------
(* Blind debts, connections and boundary requests. *)

AddDebt(owed, missed) ==
  CASE owed = "Clear" -> missed
    [] owed = "OwesSmallBlind" /\ missed = "OwesBigBlind" -> "OwesBoth"
    [] owed = "OwesBigBlind" /\ missed = "OwesSmallBlind" -> "OwesBoth"
    [] OTHER -> owed

RecordMissedBlind(p, missed) ==
  /\ Open /\ ~HandActive /\ SeatedIn(seats, p)
  /\ seats' = [seats EXCEPT ![SeatOf(p)].owed = AddDebt(@, missed)]
  /\ UNCHANGED <<reserved, pending, state, start, lastButton, nextHand>>

ReturnWithEntry(p, entry) ==
  /\ Open /\ ~HandActive /\ SeatedIn(seats, p)
  /\ LET s == SeatOf(p) IN
     seats' = [seats EXCEPT ![s].part =
                 IF seats[s].owed # "Clear" /\ entry = "WaitForBigBlind"
                 THEN "WaitingForBlind" ELSE "Active"]
  /\ state' = Refresh(seats', state)
  /\ UNCHANGED <<reserved, pending, start, lastButton, nextHand>>

SetConnection(p, connected) ==
  /\ SeatedIn(seats, p)
  /\ seats' = [seats EXCEPT ![SeatOf(p)].connected = connected]
  /\ UNCHANGED <<reserved, pending, state, start, lastButton, nextHand>>

(* apply_transition on the seat of a player. *)
ApplyTransition(t, s, transition) ==
  CASE transition = "SitOut" -> [t EXCEPT ![s].part = "SittingOut"]
    [] transition = "Return" ->
         [t EXCEPT ![s].part = IF t[s].owed = "Clear" THEN "Active" ELSE "WaitingForBlind"]
    [] transition = "Leave"  -> [t EXCEPT ![s] = Vacant]

(* Mutant: the last request wins. *)
QueueLatest(p, transition) == [pending EXCEPT ![p] = transition]

(* A queued departure is not replaced. *)
Queue(p, transition) ==
  IF pending[p] = "Leave" THEN pending ELSE [pending EXCEPT ![p] = transition]

(* request_sit_out, request_return and request_leave *)
RequestTransition(p, transition) ==
  /\ Open /\ SeatedIn(seats, p)
  /\ IF HandActive
     THEN /\ pending' = Queue(p, transition)
          /\ UNCHANGED <<seats, state>>
     ELSE /\ seats' = ApplyTransition(seats, SeatOf(p), transition)
          /\ state' = Refresh(seats', state)
          /\ UNCHANGED pending
  /\ UNCHANGED <<reserved, start, lastButton, nextHand>>

-----------------------------------------------------------------------------
(* Hands. *)

(* promote_natural_big_blind_waiter: would the waiting seat c be the big blind
   if it were dealt in? *)
NaturalBigBlind(c) ==
  LET prospective == Eligible(seats) \cup {c}
      button == ButtonOver(prospective)
  IN  /\ Cardinality(prospective) >= 2
      /\ button # NoSeat
      /\ BigBlindOver(button, prospective) = c

Promotable == {c \in Occupied(seats) :
                 seats[c].part = "WaitingForBlind" /\ NaturalBigBlind(c)}

Promoted ==
  IF Promotable = {} THEN seats
  ELSE [seats EXCEPT ![Min(Promotable)].part = "Active", ![Min(Promotable)].owed = "Clear"]

(* The forced posts of the seats S dealt from roster t. *)
SmallPosts(t, button, S) ==
  {s \in S : t[s].owed \in {"OwesSmallBlind", "OwesBoth"} /\ s # SmallBlindOver(button, S)}
BigPosts(t, button, S) ==
  {s \in S : t[s].owed \in {"OwesBigBlind", "OwesBoth"} /\ s # BigBlindOver(button, S)}

HandStart(t, S) ==
  LET button == ButtonOver(S) IN
  [ button |-> button,
    stacks |-> [s \in S |-> t[s].stack],
    smallPosts |-> SmallPosts(t, button, S),
    bigPosts   |-> BigPosts(t, button, S) ]

(* Mutant: one eligible seat is enough. *)
EnoughPlayersOne(t) == Cardinality(Eligible(t)) >= 1

EnoughPlayers(t) == Cardinality(Eligible(t)) >= 2

BeginHand ==
  LET dealt == Eligible(Promoted) IN
  /\ Open /\ ~HandActive /\ EnoughPlayers(Promoted)
  /\ start' = HandStart(Promoted, dealt)
  /\ seats' = [s \in Seats |-> IF s \in dealt
                               THEN [Promoted[s] EXCEPT !.owed = "Clear", !.dealt = TRUE]
                               ELSE Promoted[s]]
  /\ lastButton' = start'.button
  /\ nextHand' = Min({nextHand + 1, HandCap})
  /\ state' = "Running"
  /\ UNCHANGED <<reserved, pending>>

BeginHandTooFew ==
  /\ Open /\ ~HandActive /\ ~EnoughPlayers(Promoted)
  /\ seats' = Promoted
  /\ state' = IF Occupied(seats) = {} THEN "Waiting" ELSE "Paused"
  /\ UNCHANGED <<reserved, pending, start, lastButton, nextHand>>

(* Mutant: a report of the right seats is taken as it is. *)
ReconcilesAnyTotal(final) == DOMAIN final = DOMAIN start.stacks

(* The report covers exactly the seats dealt and conserves their chips. *)
Reconciles(final) ==
  /\ DOMAIN final = DOMAIN start.stacks
  /\ SumFunction(final) = SumFunction(start.stacks)

(* The queue after std::mem::take. *)
QueueTaken == [p \in Players |-> "None"]

(* apply_pending: every queued transition, on reconciled seats. *)
ApplyPending(t) ==
  [s \in Seats |->
     IF t[s] = Vacant \/ pending[t[s].player] = "None" THEN t[s]
     ELSE ApplyTransition(t, s, pending[t[s].player])[s]]

CompleteHand(final) ==
  /\ HandActive
  /\ Reconciles(final)
  /\ LET settled == [s \in Seats |-> IF s \in DOMAIN final
                                     THEN [seats[s] EXCEPT !.stack = final[s], !.dealt = FALSE]
                                     ELSE seats[s]]
     IN  seats' = ApplyPending(settled)
  /\ pending' = QueueTaken
  /\ start' = NoHand
  /\ state' = Refresh(seats', state)
  /\ UNCHANGED <<reserved, lastButton, nextHand>>

(* What the hand may report: any division of the chips that were dealt in. *)
FinalStacks == [DOMAIN start.stacks -> 0 .. SumFunction(start.stacks)]

Close ==
  /\ Open /\ ~HandActive
  /\ state' = "Closed"
  /\ reserved' = [s \in Seats |-> Vacant]
  /\ pending' = [p \in Players |-> "None"]
  /\ UNCHANGED <<seats, start, lastButton, nextHand>>

-----------------------------------------------------------------------------
(* Checkpoint and restart between hands. *)

(* between_hand_checkpoint gives an image; restore_between_hand accepts it. *)
Checkpointable == ~HandActive /\ \A p \in Players : pending[p] = "None"

RestorableState ==
  CASE state = "Waiting" -> Occupied(seats) = {} \/ nextHand = 1
    [] state = "Running" -> Cardinality(Eligible(seats)) >= 2
    [] state = "Paused"  -> Occupied(seats) # {} /\ Cardinality(Eligible(seats)) < 2
    [] state = "Closed"  -> FALSE

(* A restart at the boundary: connections, reservations and hand participation
   are not part of the image. *)
Restart ==
  /\ Checkpointable /\ RestorableState
  /\ seats' = [s \in Seats |-> IF seats[s] = Vacant THEN Vacant
                               ELSE [seats[s] EXCEPT !.connected = FALSE, !.dealt = FALSE]]
  /\ reserved' = [s \in Seats |-> Vacant]
  /\ UNCHANGED <<pending, state, start, lastButton, nextHand>>

-----------------------------------------------------------------------------
(* The stacks that may still be brought to the table. *)
Affordable == {stack \in BuyIns : TableChips(seats) + stack <= ChipCap}

Seating == \E p \in Players, s \in Seats :
  \/ p \in Bookers /\ Reserve(p, s)
  \/ CancelReservation(p, s)
  \/ \E stack \in Affordable : Occupy(p, s, stack) \/ Join(p, s, stack)
  \/ \E stack \in Affordable, entry \in Entries : JoinWithEntry(p, s, stack, entry)

Requests == \E p \in Players :
  \/ \E missed \in MissedBlinds : RecordMissedBlind(p, missed)
  \/ \E entry \in Entries : ReturnWithEntry(p, entry)
  \/ p \in Droppable /\ \E connected \in BOOLEAN : SetConnection(p, connected)
  \/ \E transition \in Transitions : RequestTransition(p, transition)

FinishHand == HandActive /\ \E final \in FinalStacks : CompleteHand(final)

Next == Seating \/ Requests \/ BeginHand \/ BeginHandTooFew \/ FinishHand \/ Close \/ Restart

Spec == Init /\ [][Next]_vars

(* A dealt hand ends (MultiwayHand!HandEnds). *)
FairSpec == Spec /\ WF_vars(FinishHand)

-----------------------------------------------------------------------------
(* Properties. *)

(* TypeOK: the fields have their types. *)
TypeOK ==
  /\ seats \in [Seats -> SeatStates \cup {Vacant}]
  /\ reserved \in [Seats -> Players \cup {Vacant}]
  /\ pending \in [Players -> Transitions \cup {"None"}]
  /\ state \in RunStates
  /\ lastButton \in Seats \cup {NoSeat}
  /\ nextHand \in 1 .. HandCap

(* HandRosterIntact: while a hand runs, the seats it was dealt to are occupied,
   hold the snapshotted stacks, are the only ones marked as dealt, and number
   at least two with the button among them (complete_hand's "active hand seats
   remain occupied until boundary"). *)
HandRosterIntact ==
  IF HandActive
  THEN /\ state = "Running"
       /\ Cardinality(DOMAIN start.stacks) >= 2
       /\ start.button \in DOMAIN start.stacks
       /\ \A s \in Seats :
            s \in DOMAIN start.stacks <=>
              seats[s] # Vacant /\ seats[s].dealt /\ seats[s].stack = start.stacks[s]
  ELSE \A s \in Occupied(seats) : ~seats[s].dealt

(* ChipsMoveOnlyWithSeats: as long as the same players hold the same seats, the
   chips on the table add up to the same total. *)
ChipsMoveOnlyWithSeats ==
  [][ (/\ Occupied(seats') = Occupied(seats)
       /\ \A s \in Occupied(seats) : seats'[s].player = seats[s].player)
      => TableChips(seats') = TableChips(seats) ]_vars

(* LeaveHappens: a queued departure is carried out. *)
LeaveHappens == \A p \in Players : pending[p] = "Leave" ~> ~SeatedIn(seats, p)

=============================================================================
