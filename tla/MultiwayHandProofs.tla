------------------------- MODULE MultiwayHandProofs -------------------------
(***************************************************************************)
(* What holds of the betting, the showdown and the settlement of every     *)
(* hand, for any number of seats, any stacks, blinds, antes, debts and     *)
(* cards: hands are tabled only when no betting is left, a seat that faces *)
(* a full raise may raise again, and the chips of a hand go, all of them,  *)
(* to the hands that earned them.                                          *)
(*                                                                         *)
(* HandInv says that a hand is always of one of three kinds: in betting,   *)
(* in its showdown, or over.  Worth says what the chips of each kind are:  *)
(* the stakes while it is bet on, the hands shown and beaten while it is   *)
(* shown down, and what its pots paid when it is over.  The lemmas are     *)
(* about the operators on hand records: which kind of hand they return,    *)
(* and what they do to its chips.                                          *)
(***************************************************************************)
EXTENDS HandViews, ChipSums, FiniteSetTheorems, TLAPS

(* The fields of the MultiwayHand struct. *)
Fields == {"phase", "board", "button", "sb", "bb", "blinds", "initial", "stack",
           "street", "total", "part", "last", "toAct", "wager", "raise",
           "aggressor", "alwaysShow", "revealed", "mucked", "deal", "progress",
           "pots", "returned", "awards", "settled"}
ProgressFields == {"active", "allIn", "order", "cursor"}
Shape(h) ==
  /\ DOMAIN h = Fields /\ h = [f \in Fields |-> h[f]]
  /\ DOMAIN h.progress = ProgressFields
  /\ h.progress = [f \in ProgressFields |-> h.progress[f]]

(* No seat has acted against a wager higher than the present one. *)
Chips(h) ==
  /\ Occupied(h) \subseteq Seats
  /\ h.stack \in [Occupied(h) -> Nat]
  /\ h.street \in [Occupied(h) -> Nat]
  /\ h.part \in [Occupied(h) -> {"Live", "Folded", "AllIn"}]
  /\ h.last \in [Occupied(h) -> Nat \cup {NoWager}]
  /\ h.wager \in Nat /\ h.raise \in Nat /\ h.blinds.bb \in Nat \ {0}
  /\ \A s \in Occupied(h) : h.last[s] <= h.wager

BoardFits(h) ==
  \/ h.phase = "Preflop" /\ h.board = 0
  \/ h.phase = "Flop" /\ h.board = 3
  \/ h.phase = "Turn" /\ h.board = 4
  \/ h.phase = "River" /\ h.board = 5

(* The three kinds of hands. *)
InBetting(h) ==
  /\ Shape(h) /\ Chips(h) /\ BoardFits(h)
  /\ h.progress.active = FALSE /\ h.revealed = {} /\ h.mucked = {}

InShowdown(h) ==
  /\ Shape(h) /\ Chips(h) /\ BoardFits(h)
  /\ h.progress.active = TRUE /\ h.toAct = NoSeat
  /\ BettingRoundComplete(h)
  /\ Cardinality(Live(h)) > 1 => h.board = 5
  /\ Cardinality(Eligible(h)) # 1

Over(h) ==
  /\ Settled(h) /\ h.progress.active = FALSE
  /\ h.revealed \cup h.mucked # {} => h.phase = "Showdown"

(* FullRaiseReopens of any hand and any set of seats. *)
Reopens(h, faced) ==
  \A s \in faced \cap Occupied(h) : CanAct(h, s) => RaiseReopened(h, s)

Sound(h, faced) ==
  \/ (InBetting(h) \/ InShowdown(h)) /\ Reopens(h, faced)
  \/ Over(h) /\ faced = {}

(* The inductive invariant. *)
HandInv == Sound(hand, fullRaise)

(* Two hands in which the same bets stand. *)
SameBets(h, k) ==
  /\ k.phase = h.phase /\ k.wager = h.wager /\ k.raise = h.raise
  /\ k.stack = h.stack /\ k.street = h.street /\ k.part = h.part /\ k.last = h.last

(* g is h after seat s has paid or folded: the other seats are as they were,
   and a full raise is remembered by its size. *)
Answer(h, g, s, full) ==
  /\ InBetting(g) /\ g.phase = h.phase
  /\ Occupied(g) = Occupied(h)
  /\ \A t \in Occupied(h) \ {s} :
       g.stack[t] = h.stack[t] /\ g.part[t] = h.part[t] /\ g.last[t] = h.last[t]
  /\ IF full THEN g.raise = g.wager - h.wager
             ELSE g.raise = h.raise /\ g.wager >= h.wager

-----------------------------------------------------------------------------
(* Lemmas about numbers and finite sets. *)

(* The larger and the smaller of two numbers. *)
LEMMA MaxOfTwo ==
  ASSUME NEW a \in Int, NEW b \in Int
  PROVE  Max({a, b}) = IF a >= b THEN a ELSE b
<1>1. PICK m \in {a, b} : \A y \in {a, b} : m >= y
  OBVIOUS
<1>2. /\ Max({a, b}) \in {a, b}
      /\ \A y \in {a, b} : Max({a, b}) >= y
  BY <1>1 DEF Max
<1> QED BY <1>2

(* The smaller of two numbers. *)
LEMMA MinOfTwo ==
  ASSUME NEW a \in Int, NEW b \in Int
  PROVE  Min({a, b}) = IF a <= b THEN a ELSE b
<1>1. PICK m \in {a, b} : \A y \in {a, b} : m <= y
  OBVIOUS
<1>2. /\ Min({a, b}) \in {a, b}
      /\ \A y \in {a, b} : Min({a, b}) <= y
  BY <1>1 DEF Min
<1> QED BY <1>2

(* A bounded set of natural numbers has a largest element. *)
LEMMA MaxOfBounded ==
  ASSUME NEW S, NEW bound \in Nat, S # {}, \A x \in S : x \in Nat /\ x <= bound
  PROVE  Max(S) \in S
<1> DEFINE D == {bound - x : x \in S}
<1>1. D \subseteq Nat /\ D # {}
  OBVIOUS
<1>2. PICK d \in D : \A y \in D : d <= y
  <2> HIDE DEF D
  <2> QED BY <1>1, LeastOf
<1>3. PICK m \in S : d = bound - m
  OBVIOUS
<1>4. \A y \in S : m >= y
  BY <1>2, <1>3
<1> QED BY <1>4 DEF Max

(* The largest of them is not below any. *)
LEMMA MaxIsGreatest ==
  ASSUME NEW S, NEW bound \in Nat, S # {}, \A x \in S : x \in Nat /\ x <= bound
  PROVE  \A x \in S : Max(S) >= x
<1> DEFINE D == {bound - x : x \in S}
<1>1. D \subseteq Nat /\ D # {}
  OBVIOUS
<1>2. PICK d \in D : \A y \in D : d <= y
  <2> HIDE DEF D
  <2> QED BY <1>1, LeastOf
<1>3. PICK m \in S : d = bound - m
  OBVIOUS
<1>4. \A y \in S : m >= y
  BY <1>2, <1>3
<1> QED BY <1>4 DEF Max

(* The length of a sequence. *)
LEMMA LengthOf ==
  ASSUME NEW n \in Nat, NEW S, NEW order \in [1 .. n -> S]
  PROVE  Len(order) = n
OBVIOUS

(* A set of seats is finite. *)
LEMMA SeatsFinite ==
  ASSUME NEW S, S \subseteq Seats
  PROVE  IsFiniteSet(S) /\ Cardinality(S) \in Nat
<1>1. IsFiniteSet(Seats)
  BY FS_Interval, HandAssumption DEF Seats
<1> QED BY <1>1, FS_Subset, FS_CardinalityType

-----------------------------------------------------------------------------
(* Lemmas about chips. *)

(* What an update of the four chip fields returns. *)
LEMMA ChipFields ==
  ASSUME NEW h, Shape(h), NEW stack, NEW street, NEW total, NEW part, NEW g,
         g = WithChips(h, stack, street, total, part)
  PROVE  /\ Shape(g)
         /\ g.stack = stack /\ g.street = street /\ g.part = part
         /\ g.last = h.last /\ g.wager = h.wager /\ g.raise = h.raise
         /\ g.phase = h.phase /\ g.board = h.board /\ g.blinds = h.blinds
         /\ g.progress = h.progress /\ g.revealed = h.revealed /\ g.mucked = h.mucked
BY DEF Shape, Fields, WithChips

(* Giving the turn to a seat changes nothing else. *)
LEMMA TurnKeeps ==
  ASSUME NEW h, InBetting(h), NEW s, NEW g, g = [h EXCEPT !.toAct = s]
  PROVE  InBetting(g) /\ SameBets(h, g)
<1>1. Shape(h) /\ Chips(h) /\ BoardFits(h)
  BY DEF InBetting
<1>2. /\ Shape(g) /\ SameBets(h, g)
      /\ g.board = h.board /\ g.blinds = h.blinds /\ g.progress = h.progress
      /\ g.revealed = h.revealed /\ g.mucked = h.mucked
  BY <1>1 DEF Shape, Fields, SameBets
<1>3. Chips(g) /\ BoardFits(g)
  BY <1>1, <1>2 DEF Chips, BoardFits, SameBets, Occupied
<1> QED BY <1>2, <1>3 DEF InBetting

(* A commitment of requested chips leaves a hand in betting in betting,
   touches only the seat that pays, and raises its street total by no more
   than what was requested. *)
LEMMA CommitKeeps ==
  ASSUME NEW h, InBetting(h), NEW s \in Occupied(h),
         NEW r \in Int, h.street[s] + r \in Nat,
         NEW g, g = Commit(h, s, r)
  PROVE  /\ InBetting(g)
         /\ Occupied(g) = Occupied(h)
         /\ \A t \in Occupied(h) \ {s} :
              g.stack[t] = h.stack[t] /\ g.part[t] = h.part[t] /\ g.street[t] = h.street[t]
         /\ g.street[s] <= h.street[s] + (IF r >= 0 THEN r ELSE 0)
         /\ g.blinds = h.blinds /\ g.last = h.last /\ g.wager = h.wager
         /\ g.raise = h.raise /\ g.phase = h.phase
<1> DEFINE Occ == Occupied(h)
           a == Min({r, h.stack[s]})
<1>1. Shape(h) /\ Chips(h) /\ BoardFits(h)
  BY DEF InBetting
<1>2. /\ h.stack \in [Occ -> Nat] /\ h.street \in [Occ -> Nat]
      /\ h.part \in [Occ -> {"Live", "Folded", "AllIn"}]
  BY <1>1 DEF Chips
<1>3. a = IF r <= h.stack[s] THEN r ELSE h.stack[s]
  BY <1>2, MinOfTwo
<1>4. /\ Shape(g)
      /\ g.stack = [h.stack EXCEPT ![s] = @ - a]
      /\ g.street = [h.street EXCEPT ![s] = @ + a]
      /\ g.part = IF h.stack[s] = a THEN [h.part EXCEPT ![s] = "AllIn"] ELSE h.part
      /\ g.last = h.last /\ g.wager = h.wager /\ g.raise = h.raise
      /\ g.phase = h.phase /\ g.board = h.board /\ g.blinds = h.blinds
      /\ g.progress = h.progress /\ g.revealed = h.revealed /\ g.mucked = h.mucked
  BY <1>1, ChipFields DEF Commit
<1>5. a \in Int /\ h.stack[s] - a \in Nat /\ h.street[s] + a \in Nat
      /\ h.street[s] + a <= h.street[s] + (IF r >= 0 THEN r ELSE 0)
  <2> HIDE DEF a
  <2> QED BY <1>2, <1>3
<1> HIDE DEF a
<1>6. /\ g.stack \in [Occ -> Nat] /\ g.street \in [Occ -> Nat]
      /\ g.part \in [Occ -> {"Live", "Folded", "AllIn"}]
  BY <1>2, <1>4, <1>5
<1>7. Occupied(g) = Occ
  BY <1>6 DEF Occupied
<1>8. Chips(g)
  BY <1>1, <1>4, <1>6, <1>7 DEF Chips
<1>9. InBetting(g)
  BY <1>1, <1>4, <1>8 DEF InBetting, BoardFits
<1>10. \A t \in Occ \ {s} :
         g.stack[t] = h.stack[t] /\ g.part[t] = h.part[t] /\ g.street[t] = h.street[t]
  BY <1>2, <1>4
<1>11. g.street[s] <= h.street[s] + (IF r >= 0 THEN r ELSE 0)
  BY <1>2, <1>4, <1>5
<1> QED BY <1>4, <1>7, <1>9, <1>10, <1>11

(* BlindPosted: a posted blind puts no more than its amount before its seat. *)
LEMMA BlindPosted ==
  ASSUME NEW h, InBetting(h), NEW s \in Occupied(h), NEW r \in Nat,
         NEW g, g = Commit(h, s, r)
  PROVE  /\ InBetting(g) /\ Occupied(g) = Occupied(h) /\ g.wager = h.wager
         /\ \A t \in Occupied(h) \ {s} : g.street[t] = h.street[t]
         /\ g.street[s] <= h.street[s] + r
<1>1. h.street[s] + r \in Nat
  BY DEF InBetting, Chips
<1>2. /\ InBetting(g) /\ Occupied(g) = Occupied(h) /\ g.wager = h.wager
      /\ \A t \in Occupied(h) \ {s} : g.street[t] = h.street[t]
      /\ g.street[s] <= h.street[s] + (IF r >= 0 THEN r ELSE 0)
  BY <1>1, CommitKeeps
<1> QED BY <1>2

(* The same when every seat pays: no street total rises by more than the
   seat's due. *)
LEMMA CommitAllKeeps ==
  ASSUME NEW h, InBetting(h), NEW due \in [Occupied(h) -> Nat],
         NEW g, g = CommitAll(h, due)
  PROVE  /\ InBetting(g)
         /\ Occupied(g) = Occupied(h)
         /\ \A s \in Occupied(h) : g.street[s] <= h.street[s] + due[s]
         /\ g.blinds = h.blinds /\ g.wager = h.wager
<1> DEFINE Occ == Occupied(h)
           paid == Paid(h, due)
<1>1. Shape(h) /\ Chips(h) /\ BoardFits(h)
  BY DEF InBetting
<1>2. /\ h.stack \in [Occ -> Nat] /\ h.street \in [Occ -> Nat]
      /\ h.part \in [Occ -> {"Live", "Folded", "AllIn"}]
  BY <1>1 DEF Chips
<1>3. /\ Shape(g)
      /\ g.stack = StackLess(h, paid) /\ g.part = PartAfter(h, paid)
      /\ g.street = StreetPlus(h, paid)
      /\ g.last = h.last /\ g.wager = h.wager /\ g.raise = h.raise
      /\ g.phase = h.phase /\ g.board = h.board /\ g.blinds = h.blinds
      /\ g.progress = h.progress /\ g.revealed = h.revealed /\ g.mucked = h.mucked
  BY <1>1, ChipFields DEF CommitAll
<1>4. \A s \in Occ : /\ paid[s] \in Nat /\ paid[s] <= due[s]
                     /\ h.stack[s] - paid[s] \in Nat
  BY <1>2, MinOfTwo DEF Paid
<1> HIDE DEF paid
<1>5. /\ g.stack \in [Occ -> Nat] /\ g.street \in [Occ -> Nat]
      /\ g.part \in [Occ -> {"Live", "Folded", "AllIn"}]
  BY <1>2, <1>3, <1>4 DEF StackLess, StreetPlus, PartAfter
<1>6. Occupied(g) = Occ
  BY <1>5 DEF Occupied
<1>7. Chips(g)
  BY <1>1, <1>3, <1>5, <1>6 DEF Chips
<1>8. InBetting(g)
  BY <1>1, <1>3, <1>7 DEF InBetting, BoardFits
<1>9. \A s \in Occupied(h) : g.street[s] <= h.street[s] + due[s]
  BY <1>2, <1>3, <1>4 DEF StreetPlus
<1> QED BY <1>3, <1>6, <1>8, <1>9

(* Dead posts leave the street totals alone. *)
LEMMA CommitDeadKeeps ==
  ASSUME NEW h, InBetting(h), NEW due \in [Occupied(h) -> Nat],
         NEW g, g = CommitDead(h, due)
  PROVE  /\ InBetting(g)
         /\ Occupied(g) = Occupied(h)
         /\ g.street = h.street
         /\ g.blinds = h.blinds /\ g.wager = h.wager
<1> DEFINE Occ == Occupied(h)
           paid == Paid(h, due)
<1>1. Shape(h) /\ Chips(h) /\ BoardFits(h)
  BY DEF InBetting
<1>2. /\ h.stack \in [Occ -> Nat] /\ h.street \in [Occ -> Nat]
      /\ h.part \in [Occ -> {"Live", "Folded", "AllIn"}]
  BY <1>1 DEF Chips
<1>3. /\ Shape(g)
      /\ g.stack = StackLess(h, paid) /\ g.part = PartAfter(h, paid)
      /\ g.street = h.street
      /\ g.last = h.last /\ g.wager = h.wager /\ g.raise = h.raise
      /\ g.phase = h.phase /\ g.board = h.board /\ g.blinds = h.blinds
      /\ g.progress = h.progress /\ g.revealed = h.revealed /\ g.mucked = h.mucked
  BY <1>1, ChipFields DEF CommitDead
<1>4. \A s \in Occ : /\ paid[s] \in Nat /\ paid[s] <= due[s]
                     /\ h.stack[s] - paid[s] \in Nat
  BY <1>2, MinOfTwo DEF Paid
<1> HIDE DEF paid
<1>5. /\ g.stack \in [Occ -> Nat] /\ g.street \in [Occ -> Nat]
      /\ g.part \in [Occ -> {"Live", "Folded", "AllIn"}]
  BY <1>2, <1>3, <1>4 DEF StackLess, StreetPlus, PartAfter
<1>6. Occupied(g) = Occ
  BY <1>5 DEF Occupied
<1>7. Chips(g)
  BY <1>1, <1>3, <1>5, <1>6 DEF Chips
<1>8. InBetting(g)
  BY <1>1, <1>3, <1>7 DEF InBetting, BoardFits
<1>9. g.street = h.street
  BY <1>2, <1>3, <1>4 DEF StreetPlus
<1> QED BY <1>3, <1>6, <1>8, <1>9

-----------------------------------------------------------------------------
(* Lemmas about the end of a street. *)

(* An award by folds ends a hand that tabled nothing. *)
LEMMA FoldEnds ==
  ASSUME NEW h, InBetting(h), NEW k, k = AwardFold(h)
  PROVE  Over(k)
<1>1. Shape(h) /\ h.revealed = {} /\ h.mucked = {}
  BY DEF InBetting
<1>2. /\ k.phase = "HandComplete" /\ k.progress.active = FALSE
      /\ k.revealed = h.revealed /\ k.mucked = h.mucked
  BY <1>1 DEF AwardFold, ClearContributions, Shape, Fields, ProgressFields
<1> QED BY <1>1, <1>2 DEF Over, Settled

(* A completed round that leaves at most one seat to bet, or the river,
   begins the showdown and moves no chip. *)
LEMMA ShowdownBegins ==
  ASSUME NEW h, InBetting(h), BettingRoundComplete(h), Cardinality(Eligible(h)) # 1,
         h.phase = "River" \/ BettingLocked(h),
         NEW allIn \in BOOLEAN, NEW k, k = BeginShowdown(h, allIn)
  PROVE  InShowdown(k) /\ SameBets(h, k)
<1>1. Shape(h) /\ Chips(h) /\ BoardFits(h)
  BY DEF InBetting
<1>2. /\ Shape(k) /\ k.toAct = NoSeat /\ k.progress.active = TRUE
      /\ SameBets(h, k) /\ k.board = h.board /\ k.blinds = h.blinds
  BY ZenonT(60), <1>1 DEF BeginShowdown, Shape, Fields, ProgressFields, SameBets
<1>3. Occupied(k) = Occupied(h) /\ Live(k) = Live(h) /\ Eligible(k) = Eligible(h)
  BY <1>2 DEF SameBets, Occupied, Live, Eligible, CanAct
<1>4. Chips(k) /\ BoardFits(k)
  BY <1>1, <1>2, <1>3 DEF Chips, BoardFits, SameBets
<1>5. BettingRoundComplete(k)
  BY <1>2, <1>3 DEF BettingRoundComplete, NeedsAction, CanAct, SameBets
<1>6. Cardinality(Live(k)) > 1 => k.board = 5
  <2>1. Live(h) \subseteq Seats
    BY <1>1 DEF Chips, Live
  <2>2. Cardinality(Live(h)) \in Nat
    BY <2>1, SeatsFinite
  <2> QED BY <1>1, <1>2, <1>3, <2>2 DEF BettingLocked, BoardFits
<1> QED BY <1>2, <1>3, <1>4, <1>5, <1>6 DEF InShowdown

(* A new street opens with nothing bet, a full blind as the raise. *)
LEMMA StreetOpens ==
  ASSUME NEW h, InBetting(h), h.phase # "River",
         NEW k, k = [h EXCEPT !.street = Zero(h),
                              !.last = [s \in Occupied(h) |-> NoWager],
                              !.wager = 0,
                              !.raise = h.blinds.bb,
                              !.board = IF h.phase = "Preflop" THEN 3 ELSE @ + 1,
                              !.phase = NextPhase(h.phase)]
  PROVE  InBetting(k) /\ k.phase # h.phase
<1>1. Shape(h) /\ Chips(h) /\ BoardFits(h)
  BY DEF InBetting
<1>2. /\ Shape(k) /\ k.street = Zero(h) /\ k.wager = 0 /\ k.raise = h.blinds.bb
      /\ k.last = [s \in Occupied(h) |-> NoWager]
      /\ k.board = (IF h.phase = "Preflop" THEN 3 ELSE h.board + 1)
      /\ k.phase = NextPhase(h.phase)
      /\ k.stack = h.stack /\ k.part = h.part /\ k.blinds = h.blinds
      /\ k.progress = h.progress /\ k.revealed = h.revealed /\ k.mucked = h.mucked
  BY ZenonT(60), <1>1 DEF Shape, Fields
<1>3. Occupied(k) = Occupied(h)
  BY <1>2 DEF Occupied
<1>4. Chips(k)
  BY <1>1, <1>2, <1>3 DEF Chips, Zero, NoWager
<1>5. BoardFits(k) /\ k.phase # h.phase
  BY <1>1, <1>2 DEF BoardFits, NextPhase
<1> QED BY <1>1, <1>2, <1>4, <1>5 DEF InBetting

(* advance_street: the hand ends, shows down or goes on to a new street. *)
LEMMA AdvanceStreetKinds ==
  ASSUME NEW h, InBetting(h), BettingRoundComplete(h), NEW k, k = AdvanceStreet(h)
  PROVE  \/ Over(k)
         \/ InShowdown(k) /\ SameBets(h, k)
         \/ InBetting(k) /\ k.phase # h.phase
<1> DEFINE allIn == \E s \in Occupied(h) : h.part[s] = "AllIn"
<1>1. CASE Cardinality(Eligible(h)) = 1
  BY <1>1, FoldEnds DEF AdvanceStreet
<1>2. CASE Cardinality(Eligible(h)) # 1 /\ (h.phase = "River" \/ (BettingLocked(h) /\ allIn))
  <2>1. k = BeginShowdown(h, allIn) /\ allIn \in BOOLEAN
    BY <1>2 DEF AdvanceStreet
  <2> HIDE DEF allIn
  <2> QED BY <1>2, <2>1, ShowdownBegins
<1>3. CASE Cardinality(Eligible(h)) # 1 /\ ~ (h.phase = "River" \/ (BettingLocked(h) /\ allIn))
  <2>1. PICK o : o = [h EXCEPT !.street = Zero(h),
                               !.last = [s \in Occupied(h) |-> NoWager],
                               !.wager = 0,
                               !.raise = h.blinds.bb,
                               !.board = IF h.phase = "Preflop" THEN 3 ELSE @ + 1,
                               !.phase = NextPhase(h.phase)]
    OBVIOUS
  <2>2. k = [o EXCEPT !.toAct = FirstAfter(h.button, Live(h))]
    BY <1>3, <2>1, Zenon DEF AdvanceStreet
  <2>3. InBetting(o) /\ o.phase # h.phase
    <3> HIDE DEF allIn
    <3> QED BY <1>3, <2>1, StreetOpens
  <2> HIDE DEF allIn
  <2>4. InBetting(k) /\ SameBets(o, k)
    BY <2>2, <2>3, TurnKeeps
  <2> QED BY <2>3, <2>4 DEF SameBets
<1> QED BY <1>1, <1>2, <1>3

-----------------------------------------------------------------------------
(* Lemmas about the tail of an action. *)

(* apply_validated_action, after the chips have moved. *)
LEMMA AfterActionKinds ==
  ASSUME NEW h, InBetting(h), NEW s, NEW k, k = AfterAction(h, s)
  PROVE  \/ Over(k)
         \/ (InShowdown(k) \/ InBetting(k)) /\ SameBets(h, k)
         \/ InBetting(k) /\ k.phase # h.phase
<1>1. CASE Cardinality(Eligible(h)) = 1
  BY <1>1, FoldEnds DEF AfterAction
<1>2. CASE Cardinality(Eligible(h)) # 1 /\ BettingRoundComplete(h)
  <2>1. k = AdvanceStreet(h)
    BY <1>2 DEF AfterAction
  <2> QED BY <1>2, <2>1, AdvanceStreetKinds
<1>3. CASE Cardinality(Eligible(h)) # 1 /\ ~ BettingRoundComplete(h)
  <2>1. k = [h EXCEPT !.toAct = FirstAfter(s, {t \in Occupied(h) : NeedsAction(h, t)})]
    BY <1>3, Zenon DEF AfterAction
  <2> QED BY <2>1, TurnKeeps
<1> QED BY <1>1, <1>2, <1>3

(* A seat that remembers the wager it acted against. *)
LEMMA RememberKeeps ==
  ASSUME NEW h, InBetting(h), NEW s \in Occupied(h),
         NEW g, g = [h EXCEPT !.last[s] = IF h.part[s] = "Live" THEN h.wager ELSE @]
  PROVE  /\ InBetting(g) /\ Occupied(g) = Occupied(h)
         /\ g.stack = h.stack /\ g.part = h.part /\ g.wager = h.wager
         /\ g.raise = h.raise /\ g.phase = h.phase
         /\ \A t \in Occupied(h) \ {s} : g.last[t] = h.last[t]
<1>1. Shape(h) /\ Chips(h) /\ BoardFits(h)
  BY DEF InBetting
<1>2. /\ Shape(g)
      /\ g.last = [h.last EXCEPT ![s] = IF h.part[s] = "Live" THEN h.wager ELSE @]
      /\ g.stack = h.stack /\ g.street = h.street /\ g.part = h.part
      /\ g.wager = h.wager /\ g.raise = h.raise
      /\ g.phase = h.phase /\ g.board = h.board /\ g.blinds = h.blinds
      /\ g.progress = h.progress /\ g.revealed = h.revealed /\ g.mucked = h.mucked
  BY <1>1 DEF Shape, Fields
<1>3. Occupied(g) = Occupied(h)
  BY <1>2 DEF Occupied
<1>4. Chips(g)
  <2>1. h.last \in [Occupied(h) -> Nat \cup {NoWager}] /\ h.wager \in Nat
    BY <1>1 DEF Chips
  <2>2. g.last \in [Occupied(h) -> Nat \cup {NoWager}]
    BY <1>2, <2>1
  <2>3. \A t \in Occupied(h) : g.last[t] <= h.wager
    BY <1>1, <1>2, <2>1 DEF Chips
  <2> QED BY <1>1, <1>2, <1>3, <2>2, <2>3 DEF Chips
<1>5. InBetting(g)
  BY <1>1, <1>2, <1>4 DEF InBetting, BoardFits
<1>6. \A t \in Occupied(h) \ {s} : g.last[t] = h.last[t]
  BY <1>1, <1>2 DEF Chips
<1> QED BY <1>2, <1>3, <1>5, <1>6

(* Whatever a seat does, the others who face a full raise may raise again: a
   short raise lowers neither what they owe nor the size that reopens it. *)
LEMMA ActionKeeps ==
  ASSUME NEW h, InBetting(h), NEW faced, Reopens(h, faced),
         NEW s \in Occupied(h), NEW full \in BOOLEAN,
         NEW g, Answer(h, g, s, full),
         NEW k, k = Acted(g, s),
         NEW faces, faces = IF AcceptsActions(k) /\ k.phase = h.phase
                            THEN (IF full THEN Occupied(h) ELSE faced) \ {s}
                            ELSE {}
  PROVE  Sound(k, faces)
<1>1. PICK m : m = [g EXCEPT !.last[s] = IF g.part[s] = "Live" THEN g.wager ELSE @]
  OBVIOUS
<1>2. k = AfterAction(m, s)
  BY <1>1 DEF Acted
<1>3. InBetting(g) /\ Occupied(g) = Occupied(h) /\ g.phase = h.phase
  BY DEF Answer
<1>4. /\ InBetting(m) /\ Occupied(m) = Occupied(h)
      /\ m.stack = g.stack /\ m.part = g.part /\ m.wager = g.wager
      /\ m.raise = g.raise /\ m.phase = h.phase
      /\ \A t \in Occupied(h) \ {s} : m.last[t] = g.last[t]
  BY <1>1, <1>3, RememberKeeps
<1>5. \/ Over(k)
      \/ (InShowdown(k) \/ InBetting(k)) /\ SameBets(m, k)
      \/ InBetting(k) /\ k.phase # m.phase
  BY <1>2, <1>4, AfterActionKinds
<1>6. CASE Over(k)
  BY <1>6 DEF Over, Settled, AcceptsActions, Sound
<1>7. CASE InBetting(k) /\ k.phase # m.phase
  <2>1. faces = {}
    BY <1>4, <1>7
  <2> QED BY <1>7, <2>1 DEF Sound, Reopens
<1>8. CASE (InShowdown(k) \/ InBetting(k)) /\ SameBets(m, k)
  <2>1. Occupied(k) = Occupied(h)
    BY <1>4, <1>8 DEF SameBets, Occupied
  <2>2. /\ h.last \in [Occupied(h) -> Nat \cup {NoWager}]
        /\ h.wager \in Nat /\ h.raise \in Nat
        /\ \A t \in Occupied(h) : h.last[t] <= h.wager
    BY DEF InBetting, Chips
  <2>3. g.wager \in Nat /\ g.raise \in Nat
    BY <1>3 DEF InBetting, Chips
  <2>4. ASSUME NEW t \in faces \cap Occupied(k), CanAct(k, t)
        PROVE  RaiseReopened(k, t)
    <3>1. t \in Occupied(h) \ {s} /\ (full \/ t \in faced)
      BY <2>1, <2>4
    <3>2. k.stack[t] = h.stack[t] /\ k.part[t] = h.part[t] /\ k.last[t] = h.last[t]
      BY <1>4, <1>8, <3>1 DEF SameBets, Answer
    <3>3. k.wager = g.wager /\ k.raise = g.raise
      BY <1>4, <1>8 DEF SameBets
    <3>4. h.last[t] \in Nat \cup {NoWager} /\ h.last[t] <= h.wager
      BY <2>2, <3>1
    <3>5. CASE full
      <4>1. k.raise = k.wager - h.wager
        BY <3>3, <3>5 DEF Answer
      <4>2. k.wager - h.last[t] >= k.raise
        BY <2>2, <2>3, <3>3, <3>4, <4>1 DEF NoWager
      <4> QED BY <3>2, <4>2 DEF RaiseReopened
    <3>6. CASE ~ full
      <4>1. k.raise = h.raise /\ k.wager >= h.wager
        BY <3>3, <3>6 DEF Answer
      <4>2. CanAct(h, t)
        BY <2>4, <3>2 DEF CanAct
      <4>3. RaiseReopened(h, t)
        BY <3>1, <3>6, <4>2 DEF Reopens
      <4>4. CASE h.last[t] = NoWager
        BY <3>2, <4>4 DEF RaiseReopened
      <4>5. CASE h.last[t] # NoWager
        <5>1. h.wager - h.last[t] >= h.raise
          BY <4>3, <4>5 DEF RaiseReopened
        <5>2. k.wager - h.last[t] >= k.raise
          BY <2>2, <2>3, <3>3, <3>4, <4>1, <5>1 DEF NoWager
        <5> QED BY <3>2, <5>2 DEF RaiseReopened
      <4> QED BY <4>4, <4>5
    <3> QED BY <3>5, <3>6
  <2> QED BY <1>8, <2>4 DEF Sound, Reopens
<1> QED BY <1>5, <1>6, <1>7, <1>8

-----------------------------------------------------------------------------
(* Each action of the seat to act is an Answer. *)

(* A fold takes the seat out and leaves every bet standing. *)
LEMMA FoldAnswers ==
  ASSUME NEW h, InBetting(h), NEW s \in Occupied(h),
         NEW g, g = [h EXCEPT !.part[s] = "Folded"]
  PROVE  Answer(h, g, s, FALSE)
<1>1. Shape(h) /\ Chips(h) /\ BoardFits(h)
  BY DEF InBetting
<1>2. /\ Shape(g) /\ g.part = [h.part EXCEPT ![s] = "Folded"]
      /\ g.stack = h.stack /\ g.street = h.street /\ g.last = h.last
      /\ g.wager = h.wager /\ g.raise = h.raise
      /\ g.phase = h.phase /\ g.board = h.board /\ g.blinds = h.blinds
      /\ g.progress = h.progress /\ g.revealed = h.revealed /\ g.mucked = h.mucked
  BY <1>1 DEF Shape, Fields
<1>3. Occupied(g) = Occupied(h)
  BY <1>2 DEF Occupied
<1>4. g.part \in [Occupied(h) -> {"Live", "Folded", "AllIn"}]
  BY <1>1, <1>2 DEF Chips
<1>5. InBetting(g)
  BY <1>1, <1>2, <1>3, <1>4 DEF InBetting, Chips, BoardFits
<1>6. \A t \in Occupied(h) \ {s} : g.part[t] = h.part[t]
  BY <1>1, <1>2 DEF Chips
<1>7. g.wager >= h.wager
  BY <1>1, <1>2 DEF Chips
<1> QED BY <1>2, <1>3, <1>5, <1>6, <1>7 DEF Answer

(* A check changes nothing. *)
LEMMA CheckAnswers ==
  ASSUME NEW h, InBetting(h), NEW s \in Occupied(h)
  PROVE  Answer(h, h, s, FALSE)
BY DEF Answer, InBetting, Chips

(* A call pays and leaves the wager. *)
LEMMA CallAnswers ==
  ASSUME NEW h, InBetting(h), NEW s \in Occupied(h), NEW r \in Nat,
         NEW g, g = Commit(h, s, r)
  PROVE  Answer(h, g, s, FALSE)
<1>1. h.street[s] + r \in Nat /\ h.wager \in Nat
  BY DEF InBetting, Chips
<1>2. /\ InBetting(g) /\ Occupied(g) = Occupied(h)
      /\ \A t \in Occupied(h) \ {s} : g.stack[t] = h.stack[t] /\ g.part[t] = h.part[t]
      /\ g.last = h.last /\ g.wager = h.wager /\ g.raise = h.raise /\ g.phase = h.phase
  BY <1>1, CommitKeeps
<1> QED BY <1>1, <1>2 DEF Answer

(* g is h with another wager and raise size, and perhaps another aggressor. *)
Wagers(h, g, wager, raise) ==
  /\ Shape(g) /\ g.wager = wager /\ g.raise = raise
  /\ g.stack = h.stack /\ g.street = h.street /\ g.part = h.part /\ g.last = h.last
  /\ g.phase = h.phase /\ g.board = h.board /\ g.blinds = h.blinds
  /\ g.progress = h.progress /\ g.revealed = h.revealed /\ g.mucked = h.mucked

(* What the assignments of an all-in return. *)
LEMMA AllInFields ==
  ASSUME NEW h, Shape(h), NEW wager, NEW raise,
         NEW g, g = [h EXCEPT !.wager = wager, !.raise = raise]
  PROVE  Wagers(h, g, wager, raise)
BY DEF Shape, Fields, Wagers

(* What the assignments of a bet or a raise return. *)
LEMMA RaiseFields ==
  ASSUME NEW h, Shape(h), NEW wager, NEW raise, NEW aggressor,
         NEW g, g = [h EXCEPT !.wager = wager, !.raise = raise, !.aggressor = aggressor]
  PROVE  Wagers(h, g, wager, raise)
BY DEF Shape, Fields, Wagers

(* A higher wager leaves a hand in betting in betting. *)
LEMMA WagerKeeps ==
  ASSUME NEW h, InBetting(h), NEW wager \in Nat, wager >= h.wager, NEW raise \in Nat,
         NEW g, Wagers(h, g, wager, raise)
  PROVE  InBetting(g) /\ Occupied(g) = Occupied(h)
<1>1. Chips(h) /\ BoardFits(h)
  BY DEF InBetting
<1>2. Occupied(g) = Occupied(h)
  BY DEF Occupied, Wagers
<1>3. \A s \in Occupied(h) : h.last[s] <= wager
  BY <1>1 DEF Chips, NoWager
<1>4. Chips(g)
  BY <1>1, <1>2, <1>3 DEF Chips, Wagers
<1> QED BY <1>1, <1>2, <1>4 DEF InBetting, BoardFits, Wagers

(* A bet, a raise and an all-in pay and may raise the wager. *)
LEMMA WagerAnswers ==
  ASSUME NEW h, InBetting(h), NEW s \in Occupied(h),
         NEW r \in Int, h.street[s] + r \in Nat, NEW full \in BOOLEAN,
         NEW wager \in Nat, wager >= h.wager, NEW raise \in Nat,
         raise = IF full THEN wager - h.wager ELSE h.raise,
         NEW c, c = Commit(h, s, r),
         NEW g, Wagers(c, g, wager, raise)
  PROVE  Answer(h, g, s, full)
<1>1. /\ InBetting(c) /\ Occupied(c) = Occupied(h)
      /\ \A t \in Occupied(h) \ {s} : c.stack[t] = h.stack[t] /\ c.part[t] = h.part[t]
      /\ c.last = h.last /\ c.wager = h.wager /\ c.raise = h.raise /\ c.phase = h.phase
  BY CommitKeeps
<1>2. InBetting(g) /\ Occupied(g) = Occupied(c)
  BY <1>1, WagerKeeps
<1> QED BY <1>1, <1>2 DEF Answer, Wagers

-----------------------------------------------------------------------------
(* Lemmas about the steps of a hand. *)

(* The always-show preference is no part of the betting. *)
LEMMA PreferenceKeeps ==
  ASSUME NEW h, InBetting(h), NEW faced, Reopens(h, faced), NEW shown,
         NEW k, k = [h EXCEPT !.alwaysShow = shown]
  PROVE  Sound(k, faced)
<1>1. Shape(h) /\ Chips(h) /\ BoardFits(h)
  BY DEF InBetting
<1>2. /\ Shape(k) /\ SameBets(h, k)
      /\ k.board = h.board /\ k.blinds = h.blinds /\ k.progress = h.progress
      /\ k.revealed = h.revealed /\ k.mucked = h.mucked
  BY <1>1 DEF Shape, Fields, SameBets
<1>3. Occupied(k) = Occupied(h)
  BY <1>2 DEF Occupied, SameBets
<1>4. Chips(k) /\ BoardFits(k)
  BY <1>1, <1>2, <1>3 DEF Chips, BoardFits, SameBets
<1>5. InBetting(k)
  BY <1>2, <1>4 DEF InBetting
<1>6. Reopens(k, faced)
  BY <1>2, <1>3 DEF Reopens, CanAct, RaiseReopened, SameBets
<1> QED BY <1>5, <1>6 DEF Sound

(* A showdown keeps the bets its hand was left with. *)
LEMMA ShowdownKeeps ==
  ASSUME NEW h, InShowdown(h), NEW k, Shape(k), BoardFits(k),
         k.stack = h.stack, k.street = h.street, k.part = h.part, k.last = h.last,
         k.wager = h.wager, k.raise = h.raise, k.blinds = h.blinds, k.toAct = h.toAct,
         k.progress.active = h.progress.active,
         k.board = h.board \/ Cardinality(Live(h)) <= 1
  PROVE  InShowdown(k)
<1>1. Chips(h) /\ BettingRoundComplete(h)
  BY DEF InShowdown
<1>2. Occupied(k) = Occupied(h) /\ Live(k) = Live(h) /\ Eligible(k) = Eligible(h)
  BY DEF Occupied, Live, Eligible, CanAct
<1>3. Chips(k)
  BY <1>1, <1>2 DEF Chips
<1>4. BettingRoundComplete(k)
  BY <1>1, <1>2 DEF BettingRoundComplete, NeedsAction, CanAct
<1>5. Cardinality(Live(k)) > 1 => k.board = 5
  <2>1. Live(h) \subseteq Seats
    BY <1>1 DEF Chips, Live
  <2>2. Cardinality(Live(h)) \in Nat
    BY <2>1, SeatsFinite
  <2> QED BY <1>2, <2>2 DEF InShowdown
<1> QED BY <1>2, <1>3, <1>4, <1>5 DEF InShowdown

(* A runout deals a street to hands that can no longer bet. *)
LEMMA RunOutKeeps ==
  ASSUME NEW h, InShowdown(h), h.board < 5, NEW k, k = RunOut(h)
  PROVE  InShowdown(k)
<1>1. Shape(h) /\ BoardFits(h) /\ Chips(h)
  BY DEF InShowdown
<1> DEFINE board == IF h.board = 0 THEN 3 ELSE h.board + 1
           phase == CASE board = 3 -> "Flop" [] board = 4 -> "Turn" [] OTHER -> "River"
<1>2. /\ Shape(k) /\ k.board = board /\ k.phase = phase
      /\ k.stack = h.stack /\ k.street = h.street /\ k.part = h.part /\ k.last = h.last
      /\ k.wager = h.wager /\ k.raise = h.raise /\ k.blinds = h.blinds /\ k.toAct = h.toAct
      /\ k.progress.active = h.progress.active
  <2>1. k = [h EXCEPT !.board = board, !.phase = phase]
    BY Zenon DEF RunOut
  <2> HIDE DEF board, phase
  <2> QED BY ZenonT(60), <1>1, <2>1 DEF Shape, Fields
<1>3. BoardFits(k)
  BY <1>1, <1>2 DEF BoardFits
<1>4. Cardinality(Live(h)) <= 1
  <2>1. Live(h) \subseteq Seats
    BY <1>1 DEF Chips, Live
  <2>2. Cardinality(Live(h)) \in Nat
    BY <2>1, SeatsFinite
  <2> QED BY <1>1, <2>2 DEF InShowdown, BoardFits
<1> HIDE DEF board, phase
<1> QED BY <1>2, <1>3, <1>4, ShowdownKeeps

(* The settlement ends the hand as a showdown. *)
LEMMA SettlementEnds ==
  ASSUME NEW h, Shape(h), NEW deal, NEW k, k = ResolveShowdown(h, deal)
  PROVE  Over(k)
<1>1. k.phase = "Showdown" /\ k.progress.active = FALSE
  BY SMTT(40) DEF ResolveShowdown, ClearContributions, Shape, Fields, ProgressFields
<1> QED BY <1>1 DEF Over, Settled

(* A reveal tables or mucks hands and moves no chip. *)
LEMMA RevealKeeps ==
  ASSUME NEW h, InShowdown(h), NEW deal, NEW k, k = TableNextHand(h, deal)
  PROVE  InShowdown(k) \/ Over(k)
<1>1. Shape(h) /\ BoardFits(h)
  BY DEF InShowdown
<1>2. \E beaten, cursor, s :
        \/ k = ResolveShowdown(Pass(h, deal, beaten, cursor), deal)
        \/ k = Reveal(Pass(h, deal, beaten, cursor), s)
  BY DEF TableNextHand
<1>3. PICK beaten, cursor, s, passed :
        /\ passed = Pass(h, deal, beaten, cursor)
        /\ k = ResolveShowdown(passed, deal) \/ k = Reveal(passed, s)
  BY <1>2
<1>4. /\ Shape(passed) /\ passed.board = h.board /\ passed.phase = h.phase
      /\ passed.stack = h.stack /\ passed.street = h.street /\ passed.part = h.part
      /\ passed.last = h.last /\ passed.wager = h.wager /\ passed.raise = h.raise
      /\ passed.blinds = h.blinds /\ passed.toAct = h.toAct
      /\ passed.progress.active = h.progress.active
  BY <1>1, <1>3 DEF Pass, Shape, Fields, ProgressFields
<1>5. CASE k = ResolveShowdown(passed, deal)
  BY <1>4, <1>5, SettlementEnds
<1>6. CASE k = Reveal(passed, s)
  <2>1. /\ Shape(k) /\ k.board = h.board /\ k.phase = h.phase
        /\ k.stack = h.stack /\ k.street = h.street /\ k.part = h.part
        /\ k.last = h.last /\ k.wager = h.wager /\ k.raise = h.raise
        /\ k.blinds = h.blinds /\ k.toAct = h.toAct
        /\ k.progress.active = h.progress.active
    BY <1>4, <1>6 DEF Reveal, Shape, Fields
  <2>2. BoardFits(k)
    BY <1>1, <2>1 DEF BoardFits
  <2> QED BY <2>1, <2>2, ShowdownKeeps
<1> QED BY <1>3, <1>5, <1>6

(* What is left to call is a number of chips. *)
LEMMA ToCallIsNat ==
  ASSUME NEW h, InBetting(h), NEW s \in Occupied(h)
  PROVE  ToCall(h, s) \in Nat
<1>1. h.wager - h.street[s] \in Int
  BY DEF InBetting, Chips
<1>2. Max({0, h.wager - h.street[s]}) \in Nat
  BY <1>1, MaxOfTwo
<1> QED BY <1>2 DEF ToCall

(* The seat to act acts only while betting is going on. *)
LEMMA ActorBets ==
  ASSUME HandInv, NEW s \in Occupied(hand), ToAct(s)
  PROVE  InBetting(hand) /\ Reopens(hand, fullRaise)
<1>1. ~ Over(hand)
  BY DEF Over, Settled, ToAct, AcceptsActions
<1>2. ~ InShowdown(hand)
  <2> SUFFICES ASSUME InShowdown(hand) PROVE FALSE
    OBVIOUS
  <2>1. s \in Seats /\ s = NoSeat
    BY DEF InShowdown, Chips, ToAct
  <2> QED BY <2>1, HandAssumption DEF Seats, NoSeat
<1> QED BY <1>1, <1>2 DEF HandInv, Sound

(* One action: an answer, then the tail of apply_validated_action. *)
LEMMA AnswerStep ==
  ASSUME HandInv, NEW s \in Occupied(hand), ToAct(s), NEW full \in BOOLEAN,
         NEW g, Answer(hand, g, s, full), hand' = Acted(g, s), Faced(s, full)
  PROVE  HandInv'
<1>1. InBetting(hand) /\ Reopens(hand, fullRaise)
  BY ActorBets
<1>2. PICK k, faces : k = hand' /\ faces = fullRaise'
  OBVIOUS
<1>3. faces = IF AcceptsActions(k) /\ k.phase = hand.phase
              THEN (IF full THEN Occupied(hand) ELSE fullRaise) \ {s}
              ELSE {}
  BY <1>2, Zenon DEF Faced, AcceptsActions
<1>4. Sound(k, faces)
  BY <1>1, <1>2, <1>3, ActionKeeps
<1> QED BY <1>2, <1>4 DEF HandInv

(* A bet or a raise to a total of target. *)
LEMMA WagerStep ==
  ASSUME HandInv, NEW s \in Occupied(hand), ToAct(s),
         NEW target \in Nat, target >= hand.wager,
         hand' = Acted(WagerTo(s, target), s), Faced(s, TRUE)
  PROVE  HandInv'
<1> DEFINE street == hand.street[s]
<1>1. InBetting(hand)
  BY ActorBets
<1>2. street \in Nat /\ hand.wager \in Nat
  BY <1>1 DEF InBetting, Chips
<1>3. PICK r, c : r = target - street /\ c = Commit(hand, s, r)
  OBVIOUS
<1>4. r \in Int /\ street + r \in Nat
  BY <1>2, <1>3
<1>5. InBetting(c)
  BY <1>1, <1>3, <1>4, CommitKeeps
<1>6. PICK g, raise, aggressor :
        /\ g = [c EXCEPT !.wager = target, !.raise = raise, !.aggressor = aggressor]
        /\ raise = target - hand.wager
        /\ hand' = Acted(g, s)
  BY <1>3 DEF WagerTo
<1>7. raise \in Nat
  BY <1>2, <1>6
<1>8. Wagers(c, g, target, raise)
  BY <1>5, <1>6, RaiseFields DEF InBetting
<1>9. Answer(hand, g, s, TRUE)
  BY <1>1, <1>3, <1>4, <1>6, <1>7, <1>8, WagerAnswers
<1> QED BY <1>6, <1>9, AnswerStep

(* The six actions. *)
LEMMA ActStep ==
  ASSUME HandInv, NEW s \in Occupied(hand),
         Fold(s) \/ Check(s) \/ Call(s) \/ Bet(s) \/ Raise(s) \/ AllIn(s)
  PROVE  HandInv'
<1> DEFINE street == hand.street[s]
           stack  == hand.stack[s]
<1>1. ToAct(s)
  BY DEF Fold, Check, Call, Bet, Raise, AllIn
<1>2. InBetting(hand)
  BY <1>1, ActorBets
<1>3. /\ street \in Nat /\ stack \in Nat /\ hand.wager \in Nat /\ hand.raise \in Nat
      /\ hand.blinds.bb \in Nat
  BY <1>2 DEF InBetting, Chips
<1>4. CASE Fold(s)
  <2>1. PICK g : g = [hand EXCEPT !.part[s] = "Folded"] /\ hand' = Acted(g, s)
    BY <1>4 DEF Fold
  <2>2. Answer(hand, g, s, FALSE)
    BY <1>2, <2>1, FoldAnswers
  <2> QED BY <1>1, <1>4, <2>1, <2>2, AnswerStep DEF Fold
<1>5. CASE Check(s)
  <2>1. Answer(hand, hand, s, FALSE)
    BY <1>2, CheckAnswers
  <2> QED BY <1>1, <1>5, <2>1, AnswerStep DEF Check
<1>6. CASE Call(s)
  <2>1. PICK g : g = Commit(hand, s, ToCall(hand, s)) /\ hand' = Acted(g, s)
    BY <1>6 DEF Call
  <2>2. Answer(hand, g, s, FALSE)
    BY <1>2, <2>1, ToCallIsNat, CallAnswers
  <2> QED BY <1>1, <1>6, <2>1, <2>2, AnswerStep DEF Call
<1>7. CASE Bet(s)
  <2>1. PICK target \in hand.blinds.bb .. AllInTo(hand, s) - 1 :
          MayBet(hand, s, target) /\ hand' = Acted(WagerTo(s, target), s)
    BY <1>7 DEF Bet
  <2>2. target \in Nat /\ target >= hand.wager
    BY <1>3, <2>1 DEF MayBet, AllInTo
  <2>3. Faced(s, TRUE)
    BY <1>7 DEF Bet
  <2> QED BY <1>1, <2>1, <2>2, <2>3, WagerStep
<1>8. CASE Raise(s)
  <2>1. PICK target \in hand.wager + hand.raise .. AllInTo(hand, s) - 1 :
          MayRaise(hand, s, target) /\ hand' = Acted(WagerTo(s, target), s)
    BY <1>8 DEF Raise
  <2>2. target \in Nat /\ target >= hand.wager
    BY <1>3, <2>1 DEF AllInTo
  <2>3. Faced(s, TRUE)
    BY <1>8 DEF Raise
  <2> QED BY <1>1, <2>1, <2>2, <2>3, WagerStep
<1>9. CASE AllIn(s)
  <2> DEFINE target == AllInTo(hand, s)
  <2>1. target \in Nat
    BY <1>3 DEF AllInTo
  <2>2. PICK full : full = (target > hand.wager /\ IsFullRaise(hand, target))
    OBVIOUS
  <2>3. PICK c : c = Commit(hand, s, stack)
    OBVIOUS
  <2>4. InBetting(c) /\ c.wager = hand.wager /\ c.raise = hand.raise
    BY <1>2, <1>3, <2>3, CommitKeeps
  <2>5. PICK wager, raise : /\ wager = Max({hand.wager, target})
                            /\ raise = IF full THEN target - hand.wager ELSE hand.raise
    OBVIOUS
  <2>6. wager = IF hand.wager >= target THEN hand.wager ELSE target
    BY <1>3, <2>1, <2>5, MaxOfTwo
  <2>7. PICK g : g = [c EXCEPT !.wager = wager, !.raise = raise]
    OBVIOUS
  <2>8. hand' = Acted(g, s) /\ Faced(s, full)
    BY <1>9, <2>2, <2>3, <2>4, <2>5, <2>7 DEF AllIn
  <2> HIDE DEF target
  <2>9. full \in BOOLEAN /\ (full => target > hand.wager)
    BY <2>2
  <2>10. /\ wager \in Nat /\ wager >= hand.wager /\ raise \in Nat
         /\ raise = IF full THEN wager - hand.wager ELSE hand.raise
    <3>1. CASE full
      BY <1>3, <2>1, <2>5, <2>6, <2>9, <3>1
    <3>2. CASE ~ full
      BY <1>3, <2>1, <2>5, <2>6, <3>2
    <3> QED BY <3>1, <3>2
  <2>11. Wagers(c, g, wager, raise)
    BY <2>4, <2>7, AllInFields DEF InBetting
  <2>12. Answer(hand, g, s, full)
    BY <1>2, <1>3, <2>3, <2>9, <2>10, <2>11, WagerAnswers
  <2> QED BY <1>1, <2>8, <2>9, <2>12, AnswerStep
<1> QED BY <1>4, <1>5, <1>6, <1>7, <1>8, <1>9

(* The preference of a player. *)
LEMMA PreferenceStep ==
  ASSUME HandInv, NEW s \in Showers, SetAlwaysShow(s)
  PROVE  HandInv'
<1>1. InBetting(hand) /\ Reopens(hand, fullRaise)
  BY DEF HandInv, Sound, SetAlwaysShow, InShowdown, Over, Settled, AcceptsActions
<1>2. PICK shown, k, faces : /\ k = [hand EXCEPT !.alwaysShow = shown]
                             /\ k = hand' /\ faces = fullRaise' /\ faces = fullRaise
  BY DEF SetAlwaysShow
<1>3. Sound(k, faces)
  BY <1>1, <1>2, PreferenceKeeps
<1> QED BY <1>2, <1>3 DEF HandInv

(* A step of the showdown. *)
LEMMA ShowdownStep ==
  ASSUME HandInv, AdvanceShowdown
  PROVE  HandInv'
<1>1. InShowdown(hand)
  BY DEF HandInv, Sound, AdvanceShowdown, InBetting, Over
<1>2. PICK k, faces : k = hand' /\ faces = fullRaise' /\ faces = {}
  BY DEF AdvanceShowdown
<1>3. InShowdown(k) \/ Over(k)
  <2>1. Cardinality(Eligible(hand)) # 1
    BY <1>1 DEF InShowdown
  <2>2. CASE hand.progress.allIn /\ hand.board < 5
    BY <1>1, <1>2, <2>1, <2>2, RunOutKeeps DEF AdvanceShowdown
  <2>3. CASE ~ (hand.progress.allIn /\ hand.board < 5)
    <3>1. \E deal : hand' = TableNextHand(hand, deal)
      BY <2>1, <2>3 DEF AdvanceShowdown
    <3> QED BY <1>1, <1>2, <3>1, RevealKeeps
  <2> QED BY <2>2, <2>3
<1>4. Sound(k, faces)
  BY <1>2, <1>3 DEF Sound, Reopens
<1> QED BY <1>2, <1>4 DEF HandInv

-----------------------------------------------------------------------------
(* Lemmas about the construction of a hand. *)

(* The seat reached last from another one is one of the seats asked for. *)
LEMMA FirstAfterIn ==
  ASSUME NEW S, S \subseteq Seats, S # {}, NEW a \in Seats
  PROVE  FirstAfter(a, S) \in S
<1> DEFINE K == {AwardKey(a, s) : s \in S}
<1>1. \A s \in S : AwardKey(a, s) \in Nat
  BY HandAssumption DEF AwardKey, Offset, Seats
<1>2. K \subseteq Nat /\ K # {}
  BY <1>1
<1>3. PICK m \in K : \A y \in K : m <= y
  <2> HIDE DEF K
  <2> QED BY <1>2, LeastOf
<1>4. PICK s \in S : m = AwardKey(a, s)
  OBVIOUS
<1>5. \A t \in S : AwardKey(a, s) <= AwardKey(a, t)
  BY <1>3, <1>4
<1> HIDE DEF K
<1> QED BY <1>5, Zenon DEF FirstAfter

(* A seat that is reached last or first at all is one of those asked for. *)
LEMMA FirstAfterOf ==
  ASSUME NEW S, S \subseteq Seats, NEW a \in Seats, NEW s \in Seats, s = FirstAfter(a, S)
  PROVE  s \in S
<1>1. S # {}
  BY DEF FirstAfter, NoSeat, Seats
<1> QED BY <1>1, FirstAfterIn

(* The blinds are two of the seats dealt in. *)
LEMMA BlindsDealtIn ==
  ASSUME NEW occupied, occupied \subseteq Seats, NEW button \in occupied
  PROVE  /\ Positions(occupied, button).sb \in occupied
         /\ Positions(occupied, button).bb \in occupied
<1>1. \A s \in occupied : FirstAfter(s, occupied) \in occupied
  BY FirstAfterIn
<1> QED BY <1>1 DEF Positions

(* A hand is dealt in betting, with nothing bet. *)
LEMMA DealtBets ==
  ASSUME NEW occupied, occupied \subseteq Seats, NEW stacks \in [occupied -> StackChoices],
         NEW button \in occupied, NEW blinds \in BlindLevels,
         NEW h, h = Dealt(stacks, button, blinds)
  PROVE  /\ InBetting(h) /\ Occupied(h) = occupied /\ h.blinds = blinds
         /\ h.sb \in occupied /\ h.bb \in occupied
         /\ h.street = [s \in occupied |-> 0] /\ h.wager = 0
<1>1. /\ DOMAIN stacks = occupied
      /\ \A s \in occupied : stacks[s] \in Nat
      /\ blinds.bb \in Nat \ {0}
  <2>1. blinds.sb \in Nat \ {0} /\ blinds.bb \in Nat /\ blinds.sb < blinds.bb
    BY HandAssumption
  <2>2. \A x \in StackChoices : x \in Nat
    BY HandAssumption
  <2> QED BY <2>1, <2>2
<1>2. /\ Shape(h)
      /\ h.phase = "Preflop" /\ h.board = 0 /\ h.blinds = blinds
      /\ h.sb = Positions(occupied, button).sb /\ h.bb = Positions(occupied, button).bb
      /\ h.stack = stacks /\ h.street = [s \in occupied |-> 0]
      /\ h.part = [s \in occupied |-> "Live"]
      /\ h.last = [s \in occupied |-> NoWager]
      /\ h.wager = 0 /\ h.raise = blinds.bb
      /\ h.revealed = {} /\ h.mucked = {} /\ h.progress.active = FALSE
  BY <1>1 DEF Dealt, Shape, Fields, ProgressFields
<1>3. Occupied(h) = occupied
  BY <1>1, <1>2 DEF Occupied
<1>4. stacks \in [occupied -> Nat]
  BY <1>1
<1>5. Chips(h)
  BY <1>1, <1>2, <1>3, <1>4 DEF Chips, NoWager
<1> QED BY <1>2, <1>3, <1>5, BlindsDealtIn DEF InBetting, BoardFits

(* Antes, blinds and forced posts leave it in betting, with street totals that
   are bounded by the blinds. *)
LEMMA PostedBets ==
  ASSUME NEW occupied, occupied \subseteq Seats, NEW stacks \in [occupied -> StackChoices],
         NEW button \in occupied, NEW blinds \in BlindLevels, NEW debts,
         NEW g, g = Posted(Dealt(stacks, button, blinds), debts)
  PROVE  /\ InBetting(g) /\ Occupied(g) = occupied /\ g.wager = 0
         /\ \A s \in occupied : g.street[s] <= blinds.sb + blinds.bb + BigBlindPost
<1>1. PICK d : d = Dealt(stacks, button, blinds)
  OBVIOUS
<1>2. /\ InBetting(d) /\ Occupied(d) = occupied /\ d.blinds = blinds
      /\ d.sb \in occupied /\ d.bb \in occupied
      /\ d.street = [s \in occupied |-> 0] /\ d.wager = 0
  BY <1>1, DealtBets
<1>3. blinds.sb \in Nat /\ blinds.bb \in Nat /\ blinds.ante \in Nat
  BY HandAssumption
<1>4. PICK ante, small, big, antes, sb, bb, dead :
        /\ ante = [s \in occupied |-> blinds.ante]
        /\ small = SmallDebts(occupied, debts, d.sb)
        /\ big = BigDebts(occupied, debts, d.bb)
        /\ antes = CommitDead(d, ante)
        /\ sb = Commit(antes, d.sb, blinds.sb)
        /\ bb = Commit(sb, d.bb, blinds.bb)
        /\ dead = CommitDead(bb, small)
  OBVIOUS
<1>5. g = CommitAll(dead, big)
  BY <1>1, <1>2, <1>4 DEF Posted
<1>6. /\ ante \in [occupied -> Nat]
      /\ small \in [occupied -> Nat]
      /\ big \in [occupied -> Nat]
      /\ \A s \in occupied : big[s] <= BigBlindPost
  BY <1>3, <1>4 DEF SmallDebts, BigDebts, SmallBlindPost, BigBlindPost
<1>7. /\ InBetting(antes) /\ Occupied(antes) = occupied /\ antes.wager = 0
      /\ \A s \in occupied : antes.street[s] = 0
  BY <1>2, <1>4, <1>6, CommitDeadKeeps
<1>8. /\ InBetting(sb) /\ Occupied(sb) = occupied /\ sb.wager = 0
      /\ \A s \in occupied : sb.street[s] \in Nat /\ sb.street[s] <= blinds.sb
  <2>1. d.sb \in Occupied(antes) /\ antes.street[d.sb] = 0 /\ blinds.sb \in Nat
    BY <1>2, <1>3, <1>7
  <2>2. /\ InBetting(sb) /\ Occupied(sb) = occupied /\ sb.wager = antes.wager
        /\ \A s \in occupied \ {d.sb} : sb.street[s] = antes.street[s]
        /\ sb.street[d.sb] <= antes.street[d.sb] + blinds.sb
    <3>1. sb = Commit(antes, d.sb, blinds.sb)
      BY <1>4
    <3>2. InBetting(antes) /\ d.sb \in Occupied(antes) /\ blinds.sb \in Nat
      BY <1>7, <2>1
    <3>3. /\ InBetting(sb) /\ Occupied(sb) = Occupied(antes) /\ sb.wager = antes.wager
          /\ \A s \in Occupied(antes) \ {d.sb} : sb.street[s] = antes.street[s]
          /\ sb.street[d.sb] <= antes.street[d.sb] + blinds.sb
      BY <3>1, <3>2, BlindPosted
    <3> QED BY <1>7, <3>3
  <2>3. \A s \in occupied : sb.street[s] \in Nat
    BY <2>2 DEF InBetting, Chips
  <2> QED BY <1>3, <1>7, <2>1, <2>2, <2>3
<1>9. /\ InBetting(bb) /\ Occupied(bb) = occupied /\ bb.wager = 0
      /\ \A s \in occupied : bb.street[s] \in Nat /\ bb.street[s] <= blinds.sb + blinds.bb
  <2>1. d.bb \in Occupied(sb) /\ sb.street[d.bb] \in Nat /\ blinds.bb \in Nat
    BY <1>2, <1>3, <1>8
  <2>2. /\ InBetting(bb) /\ Occupied(bb) = occupied /\ bb.wager = sb.wager
        /\ \A s \in occupied \ {d.bb} : bb.street[s] = sb.street[s]
        /\ bb.street[d.bb] <= sb.street[d.bb] + blinds.bb
    <3>1. bb = Commit(sb, d.bb, blinds.bb)
      BY <1>4
    <3>2. InBetting(sb) /\ d.bb \in Occupied(sb) /\ blinds.bb \in Nat
      BY <1>8, <2>1
    <3>3. /\ InBetting(bb) /\ Occupied(bb) = Occupied(sb) /\ bb.wager = sb.wager
          /\ \A s \in Occupied(sb) \ {d.bb} : bb.street[s] = sb.street[s]
          /\ bb.street[d.bb] <= sb.street[d.bb] + blinds.bb
      BY <3>1, <3>2, BlindPosted
    <3> QED BY <1>8, <3>3
  <2>3. \A s \in occupied : bb.street[s] \in Nat
    BY <2>2 DEF InBetting, Chips
  <2> QED BY <1>2, <1>3, <1>8, <2>2, <2>3
<1>10. /\ InBetting(dead) /\ Occupied(dead) = occupied /\ dead.street = bb.street
       /\ dead.wager = 0
  BY <1>4, <1>6, <1>9, CommitDeadKeeps
<1>11. /\ InBetting(g) /\ Occupied(g) = occupied /\ g.wager = 0
       /\ \A s \in occupied : g.street[s] <= dead.street[s] + big[s]
  BY <1>5, <1>6, <1>10, CommitAllKeeps
<1>12. \A s \in occupied : g.street[s] <= blinds.sb + blinds.bb + BigBlindPost
  <2>1. \A s \in occupied : g.street[s] \in Nat
    BY <1>11 DEF InBetting, Chips
  <2> QED BY <1>3, <1>6, <1>9, <1>10, <1>11, <2>1 DEF BigBlindPost
<1> QED BY <1>11, <1>12

(* The wager a hand opens with is a number of chips. *)
LEMMA OpenedBets ==
  ASSUME NEW h, InBetting(h), h.wager = 0, Occupied(h) # {},
         NEW bound \in Nat, \A s \in Occupied(h) : h.street[s] <= bound,
         NEW first, NEW g, g = Opened(h, first)
  PROVE  InBetting(g)
<1>1. Shape(h) /\ h.street \in [Occupied(h) -> Nat] /\ h.raise \in Nat
  BY DEF InBetting, Chips
<1>2. PICK wager : wager = Max(Range(h.street))
  OBVIOUS
<1>3. wager \in Nat
  <2> DEFINE S == Range(h.street)
  <2>1. S # {} /\ \A x \in S : x \in Nat /\ x <= bound
    BY <1>1 DEF Range
  <2>2. Max(S) \in S
    <3> HIDE DEF S
    <3> QED BY <2>1, MaxOfBounded
  <2> HIDE DEF S
  <2>3. wager = Max(S)
    BY <1>2 DEF S
  <2> QED BY <2>1, <2>2, <2>3
<1>4. PICK w : w = [h EXCEPT !.wager = wager]
  OBVIOUS
<1>5. Wagers(h, w, wager, h.raise)
  BY <1>1, <1>4 DEF Shape, Fields, Wagers
<1>6. InBetting(w)
  BY <1>1, <1>3, <1>5, WagerKeeps
<1>7. \E s : g = [w EXCEPT !.toAct = s]
  BY <1>2, <1>4 DEF Opened
<1> QED BY <1>6, <1>7, TurnKeeps

(* A new hand is in betting, or its blinds leave nobody a decision and it is
   already shown down. *)
LEMMA NewHandSound ==
  ASSUME NEW occupied, occupied \subseteq Seats, NEW stacks \in [occupied -> StackChoices],
         NEW button \in occupied, NEW blinds \in BlindLevels, NEW debts,
         NEW k, k = NewHand(stacks, button, blinds, debts)
  PROVE  Sound(k, {})
<1>0. PICK p : p = Posted(Dealt(stacks, button, blinds), debts)
  OBVIOUS
<1>1. PICK o : /\ o = Opened(p, Positions(DOMAIN stacks, button).first)
               /\ k = IF BettingRoundComplete(o) THEN AdvanceStreet(o) ELSE o
  BY <1>0 DEF NewHand
<1>2. blinds.sb + blinds.bb + BigBlindPost \in Nat
  BY HandAssumption DEF BigBlindPost
<1>3. /\ InBetting(p) /\ Occupied(p) = occupied /\ p.wager = 0
      /\ \A s \in occupied : p.street[s] <= blinds.sb + blinds.bb + BigBlindPost
  BY <1>0, PostedBets
<1>4. InBetting(o)
  BY <1>1, <1>2, <1>3, OpenedBets
<1>5. CASE BettingRoundComplete(o)
  BY <1>1, <1>4, <1>5, AdvanceStreetKinds DEF Sound, Reopens
<1>6. CASE ~ BettingRoundComplete(o)
  BY <1>1, <1>4, <1>6 DEF Sound, Reopens
<1> QED BY <1>5, <1>6

-----------------------------------------------------------------------------
(* Lemmas about layers of contributions. *)

(* The contributions to a pot, by seat. *)
Contributions(total) == DOMAIN total \subseteq Seats /\ total \in [DOMAIN total -> Nat]

(* The layer below. *)
Below(total, l) == Max({0} \cup {k \in Layers(total) : k < l})

(* What a contributor of a layer put into it, and anyone into any. *)
Step(total)  == [l \in Layers(total) |-> l - Below(total, l)]
Slice(total, l, s) == IF l <= total[s] THEN Step(total)[l] ELSE 0

(* Layers are contributions. *)
LEMMA LayersFinite ==
  ASSUME NEW total, Contributions(total)
  PROVE  /\ IsFiniteSet(DOMAIN total) /\ IsFiniteSet(Layers(total))
         /\ \A l \in Layers(total) : l \in Nat /\ l > 0 /\ \E s \in DOMAIN total : total[s] = l
         /\ \A s \in DOMAIN total : total[s] \in Layers(total) \cup {0}
<1>1. IsFiniteSet(DOMAIN total)
  BY SeatsFinite DEF Contributions
<1>2. IsFiniteSet({total[s] : s \in DOMAIN total})
  BY <1>1, ImageFinite
<1>3. Layers(total) = {total[s] : s \in DOMAIN total} \ {0}
  BY DEF Layers, Range
<1>4. IsFiniteSet(Layers(total))
  BY <1>2, <1>3, FS_Subset
<1>5. \A s \in DOMAIN total : total[s] \in Nat
  BY DEF Contributions
<1> QED BY <1>1, <1>3, <1>4, <1>5

(* A layer lies on the one below it, or on the table. *)
LEMMA LayersAreStairs ==
  ASSUME NEW total, Contributions(total)
  PROVE  /\ \A l \in Layers(total) : Below(total, l) \in Nat /\ Step(total)[l] \in Nat
         /\ Stairs(Layers(total), [l \in Layers(total) |-> Below(total, l)], Step(total))
<1> DEFINE K == Layers(total)
<1>1. \A l \in K : l \in Nat /\ l > 0
  BY LayersFinite
<1>2. ASSUME NEW l \in K
      PROVE  /\ Below(total, l) \in K \cup {0} /\ Below(total, l) < l
             /\ \A k \in K : k < l => k <= Below(total, l)
  <2> DEFINE U == {0} \cup {k \in K : k < l}
  <2>1. l \in Nat /\ l > 0
    BY <1>1
  <2>2. \A x \in U : x \in Nat /\ x <= l
    BY <1>1, <2>1
  <2>3. Max(U) \in U
    <3>1. U # {}
      OBVIOUS
    <3> HIDE DEF U
    <3> QED BY <2>1, <2>2, <3>1, MaxOfBounded
  <2>4. \A x \in U : Max(U) >= x
    <3>1. U # {}
      OBVIOUS
    <3> HIDE DEF U
    <3> QED BY <2>1, <2>2, <3>1, MaxIsGreatest
  <2>5. Below(total, l) = Max(U)
    BY DEF Below
  <2> DEFINE m == Max(U)
  <2>6. m \in U /\ \A x \in U : m >= x
    BY <2>3, <2>4
  <2> HIDE DEF m
  <2>7. m \in K \cup {0} /\ m < l
    BY <2>1, <2>6
  <2>8. ASSUME NEW k \in K, k < l PROVE k <= m
    <3>1. k \in U /\ k \in Nat /\ m \in Nat
      BY <1>1, <2>2, <2>6, <2>8
    <3>2. m >= k
      BY <2>6, <3>1
    <3> QED BY <3>1, <3>2
  <2> QED BY <2>5, <2>7, <2>8 DEF m
<1>3. \A l \in K : Below(total, l) \in Nat /\ Step(total)[l] \in Nat
  <2> SUFFICES ASSUME NEW l \in K PROVE Below(total, l) \in Nat /\ Step(total)[l] \in Nat
    OBVIOUS
  <2>1. Below(total, l) \in Nat /\ Below(total, l) < l /\ l \in Nat
    BY <1>1, <1>2
  <2>2. Step(total)[l] = l - Below(total, l)
    BY DEF Step
  <2> QED BY <2>1, <2>2
<1>4. \A l \in K : Step(total)[l] = l - Below(total, l)
  BY DEF Step
<1> DEFINE p == [l \in K |-> Below(total, l)]
<1>5. \A l \in K : p[l] = Below(total, l)
  OBVIOUS
<1>6. Stairs(K, p, Step(total))
  <2> HIDE DEF p, K
  <2> QED BY <1>2, <1>4, <1>5 DEF Stairs
<1> QED BY <1>3, <1>6

(* Its height is a number of chips. *)
LEMMA StepIsNat ==
  ASSUME NEW total, Contributions(total), NEW l \in Layers(total)
  PROVE  Step(total)[l] \in Nat
BY LayersAreStairs

(* A layer is made of its slices. *)
LEMMA LayerIsSlices ==
  ASSUME NEW total, Contributions(total), NEW l \in Layers(total), NEW slices,
         \A s \in DOMAIN total : slices[s] = Slice(total, l, s)
  PROVE  /\ LayerAmount(total, l) \in Nat
         /\ LayerAmount(total, l) = SumFunctionOnSet(slices, DOMAIN total)
<1> DEFINE D == DOMAIN total
           C == Contributors(total, l)
           step == Step(total)[l]
<1>1. IsFiniteSet(D) /\ l \in Nat
  BY LayersFinite
<1>2. step \in Nat
  BY LayersAreStairs
<1>3. LayerAmount(total, l) = step * Cardinality(C)
  BY DEF LayerAmount, Step, Below
<1>4. \A s \in D : total[s] \in Nat
  BY DEF Contributions
<1>5. \A s \in D : slices[s] = IF s \in C THEN step ELSE 0
  BY <1>1, <1>4 DEF Slice, Contributors
<1>6. C \in SUBSET D
  BY DEF Contributors
<1>7. IsFiniteSet(C) /\ IsFiniteSet(D \ C) /\ Cardinality(C) \in Nat
  BY <1>1, <1>6, FS_Subset, FS_CardinalityType
<1> HIDE DEF D, C, step
<1>8. \A s \in D : slices[s] \in Int
  BY <1>2, <1>5
<1>9. SumFunctionOnSet(slices, D) = SumFunctionOnSet(slices, C) + SumFunctionOnSet(slices, D \ C)
  BY <1>1, <1>6, <1>8, SumSplit
<1>10. SumFunctionOnSet(slices, C) = step * Cardinality(C)
  <2>1. \A s \in C : slices[s] = step
    BY <1>5, <1>6
  <2> QED BY <1>2, <1>7, <2>1, SumConst
<1>11. SumFunctionOnSet(slices, D \ C) = 0
  <2>1. \A s \in D \ C : slices[s] = 0
    BY <1>5
  <2> QED BY <1>7, <2>1, SumZero
<1>12. step * Cardinality(C) \in Nat
  BY <1>2, <1>7
<1> QED BY <1>3, <1>9, <1>10, <1>11, <1>12 DEF D

(* The layers up to one hold what everybody put in up to there. *)
LEMMA LayersUpTo ==
  ASSUME NEW total, Contributions(total), NEW m \in Layers(total) \cup {0},
         NEW amounts, \A l \in Layers(total) : amounts[l] = LayerAmount(total, l),
         NEW caps, \A s \in DOMAIN total : caps[s] = Min({m, total[s]})
  PROVE  SumFunctionOnSet(amounts, UpTo(Layers(total), m))
           = SumFunctionOnSet(caps, DOMAIN total)
<1> DEFINE D == DOMAIN total
           K == Layers(total)
           U == UpTo(K, m)
           M == [l \in U |-> [s \in D |-> Slice(total, l, s)]]
           N == [s \in D |-> [l \in U |-> Slice(total, l, s)]]
<1>1. /\ IsFiniteSet(D) /\ IsFiniteSet(K)
      /\ \A l \in K : l \in Nat /\ l > 0
      /\ \A s \in D : total[s] \in K \cup {0}
  BY LayersFinite
<1>2. IsFiniteSet(U) /\ U \subseteq K
  BY <1>1, FS_Subset DEF UpTo
<1>3. m \in Nat /\ \A s \in D : total[s] \in Nat
  BY <1>1
<1>4. \A l \in U : \A s \in D : M[l][s] = Slice(total, l, s) /\ N[s][l] = M[l][s]
  OBVIOUS
<1>5. \A l \in K : \A s \in D : Slice(total, l, s) \in Int
  <2>1. ASSUME NEW l \in K PROVE Step(total)[l] \in Int
    <3>1. Step(total)[l] \in Nat
      BY StepIsNat
    <3> QED BY <3>1
  <2> QED BY <2>1 DEF Slice
<1>6. \A l \in U : amounts[l] = SumFunctionOnSet(M[l], D)
  <2> SUFFICES ASSUME NEW l \in U PROVE amounts[l] = SumFunctionOnSet(M[l], D)
    OBVIOUS
  <2>1. l \in Layers(total)
    BY <1>2
  <2>2. \A s \in DOMAIN total : M[l][s] = Slice(total, l, s)
    OBVIOUS
  <2> HIDE DEF M
  <2>3. LayerAmount(total, l) = SumFunctionOnSet(M[l], DOMAIN total)
    BY <2>1, <2>2, LayerIsSlices
  <2> QED BY <2>1, <2>3
<1>7. \A s \in D : caps[s] = SumFunctionOnSet(N[s], U)
  <2> SUFFICES ASSUME NEW s \in D PROVE caps[s] = SumFunctionOnSet(N[s], U)
    OBVIOUS
  <2> DEFINE low == IF m <= total[s] THEN m ELSE total[s]
             V == UpTo(K, low)
  <2>1. caps[s] = low
    <3>1. Min({m, total[s]}) = low
      BY <1>3, MinOfTwo
    <3> QED BY <3>1
  <2>2. low \in K \cup {0} /\ low \in Nat
    BY <1>1, <1>3
  <2>3. \A l \in K : l <= low <=> l <= m /\ l <= total[s]
    BY <1>1, <1>3
  <2> HIDE DEF low
  <2>4. V \in SUBSET U /\ \A l \in U \ V : ~ (l <= total[s])
    BY <2>3 DEF UpTo
  <2>5. \A l \in U : N[s][l] = IF l \in V THEN Step(total)[l] ELSE 0
    BY <2>3, <2>4 DEF Slice, UpTo
  <2>6. IsFiniteSet(V) /\ IsFiniteSet(U \ V)
    BY <1>2, <2>4, FS_Subset
  <2>7. \A l \in U : N[s][l] \in Int
    BY <1>2, <1>5
  <2>8. SumFunctionOnSet(Step(total), V) = low
    <3>1. \A l \in K : l \in Nat /\ l > 0
      BY <1>1
    <3>2. PICK p : Stairs(K, p, Step(total))
      BY LayersAreStairs
    <3>3. IsFiniteSet(K)
      BY <1>1
    <3> HIDE DEF K
    <3> QED BY <2>2, <3>1, <3>2, <3>3, SumSteps
  <2> HIDE DEF N, U, V
  <2>9. SumFunctionOnSet(N[s], U) = SumFunctionOnSet(N[s], V) + SumFunctionOnSet(N[s], U \ V)
    BY <1>2, <2>4, <2>7, SumSplit
  <2>10. SumFunctionOnSet(N[s], V) = SumFunctionOnSet(Step(total), V)
    <3>1. \A l \in V : N[s][l] = Step(total)[l]
      BY <2>4, <2>5
    <3> QED BY <2>6, <3>1, SumSame
  <2>11. SumFunctionOnSet(N[s], U \ V) = 0
    <3>1. \A l \in U \ V : N[s][l] = 0
      BY <2>5
    <3> QED BY <2>6, <3>1, SumZero
  <2> QED BY <2>1, <2>2, <2>8, <2>9, <2>10, <2>11
<1>8. \A l \in U : \A s \in D : M[l][s] \in Int /\ N[s][l] = M[l][s]
  BY <1>2, <1>4, <1>5
<1> HIDE DEF M, N, U, D
<1>9. Crossed(U, D, M, N, amounts, caps)
  BY <1>6, <1>7, <1>8 DEF Crossed
<1>10. IsFiniteSet(U) /\ IsFiniteSet(D)
  BY <1>1, <1>2
<1>11. SumFunctionOnSet(amounts, U) = SumFunctionOnSet(caps, D)
  BY <1>9, <1>10, SumSwap
<1> QED BY <1>11 DEF U, D

(* All the layers hold all that was put in. *)
LEMMA LayersAddUp ==
  ASSUME NEW total, Contributions(total),
         NEW amounts, \A l \in Layers(total) : amounts[l] = LayerAmount(total, l)
  PROVE  SumFunctionOnSet(amounts, Layers(total)) = SumFunctionOnSet(total, DOMAIN total)
<1> DEFINE D == DOMAIN total
           K == Layers(total)
<1>1. /\ IsFiniteSet(D) /\ IsFiniteSet(K)
      /\ \A l \in K : l \in Nat /\ l > 0
      /\ \A s \in D : total[s] \in K \cup {0}
  BY LayersFinite
<1>2. PICK m \in K \cup {0} : \A s \in D : total[s] <= m
  <2>1. CASE D = {}
    BY <2>1
  <2>2. CASE D # {}
    <3>1. \A s \in D : total[s] \in Int
      BY <1>1
    <3>2. PICK s \in D : \A t \in D : total[s] >= total[t]
      BY <1>1, <2>2, <3>1, StrongestOf
    <3>3. \A t \in D : total[t] <= total[s]
      BY <3>1, <3>2
    <3> QED BY <1>1, <3>3
  <2> QED BY <2>1, <2>2
<1>3. UpTo(K, m) = K
  <2>1. \A l \in K : \E s \in D : total[s] = l
    BY LayersFinite
  <2>2. \A l \in K : l <= m
    BY <1>2, <2>1
  <2> HIDE DEF K
  <2> QED BY <2>2 DEF UpTo
<1>4. \A s \in D : total[s] = Min({m, total[s]})
  <2> SUFFICES ASSUME NEW s \in D PROVE total[s] = Min({m, total[s]})
    OBVIOUS
  <2>1. m \in Int /\ total[s] \in Int /\ total[s] <= m
    BY <1>1, <1>2
  <2> DEFINE t == total[s]
  <2>2. t \in Int /\ t <= m
    BY <2>1
  <2> HIDE DEF t
  <2>3. Min({m, t}) = IF m <= t THEN m ELSE t
    BY <2>1, <2>2, MinOfTwo
  <2> QED BY <2>1, <2>2, <2>3 DEF t
<1>5. SumFunctionOnSet(amounts, UpTo(K, m)) = SumFunctionOnSet(total, D)
  BY <1>4, LayersUpTo
<1> QED BY <1>3, <1>5

-----------------------------------------------------------------------------
(* Lemmas about the order of the seats. *)

(* There are at most nine seats. *)
LEMMA AtMostNine ==
  ASSUME NEW S, S \subseteq Seats
  PROVE  IsFiniteSet(S) /\ Cardinality(S) \in 0 .. 9
<1>1. TableSize \in 2 .. 9
  BY HandAssumption
<1>2. IsFiniteSet(Seats) /\ Cardinality(Seats) = TableSize
  <2>1. 0 \in Int /\ TableSize - 1 \in Int
    BY <1>1
  <2>2. IsFiniteSet(0 .. TableSize - 1) /\ Cardinality(0 .. TableSize - 1) = TableSize
    <3>1. /\ IsFiniteSet(0 .. TableSize - 1)
          /\ Cardinality(0 .. TableSize - 1) = IF 0 > TableSize - 1 THEN 0 ELSE TableSize - 1 - 0 + 1
      BY <2>1, FS_Interval
    <3> QED BY <1>1, <3>1
  <2> QED BY <2>2 DEF Seats
<1>3. IsFiniteSet(S) /\ Cardinality(S) <= Cardinality(Seats)
  BY <1>2, FS_Subset
<1>4. Cardinality(S) \in Nat
  BY <1>3, FS_CardinalityType
<1> QED BY <1>1, <1>2, <1>3, <1>4

(* Every seat is met once on the way around the table. *)
LEMMA OffsetsDiffer ==
  ASSUME NEW a \in Seats
  PROVE  /\ \A s \in Seats : Offset(a, s) \in 0 .. TableSize - 1
         /\ \A s, t \in Seats : Offset(a, s) = Offset(a, t) => s = t
         /\ Offset(a, a) = 0
<1>1. TableSize \in 2 .. 9
  BY HandAssumption
<1>2. ASSUME NEW s \in Seats
      PROVE  Offset(a, s) = IF s >= a THEN s - a ELSE s - a + TableSize
  <2>1. a \in 0 .. TableSize - 1 /\ s \in 0 .. TableSize - 1
    BY DEF Seats
  <2>2. CASE TableSize = 2  BY <2>1, <2>2 DEF Offset
  <2>3. CASE TableSize = 3  BY <2>1, <2>3 DEF Offset
  <2>4. CASE TableSize = 4  BY <2>1, <2>4 DEF Offset
  <2>5. CASE TableSize = 5  BY <2>1, <2>5 DEF Offset
  <2>6. CASE TableSize = 6  BY <2>1, <2>6 DEF Offset
  <2>7. CASE TableSize = 7  BY <2>1, <2>7 DEF Offset
  <2>8. CASE TableSize = 8  BY <2>1, <2>8 DEF Offset
  <2>9. CASE TableSize = 9  BY <2>1, <2>9 DEF Offset
  <2>10. TableSize \in {2, 3, 4, 5, 6, 7, 8, 9}
    BY <1>1
  <2> QED BY <2>2, <2>3, <2>4, <2>5, <2>6, <2>7, <2>8, <2>9, <2>10
<1>3. \A s \in Seats : s \in 0 .. TableSize - 1
  BY DEF Seats
<1> QED BY <1>1, <1>2, <1>3

(* The first seat of a set is in it. *)
LEMMA FirstFromOf ==
  ASSUME NEW S, S \subseteq Seats, NEW a \in Seats, NEW s \in Seats, s = FirstFrom(a, S)
  PROVE  s \in S
<1> DEFINE K == {Offset(a, t) : t \in S}
<1>1. S # {}
  BY DEF FirstFrom, NoSeat, Seats
<1>2. \A t \in S : Offset(a, t) \in Nat
  BY OffsetsDiffer
<1>3. K \subseteq Nat /\ K # {}
  BY <1>1, <1>2
<1>4. PICK m \in K : \A y \in K : m <= y
  <2> HIDE DEF K
  <2> QED BY <1>3, LeastOf
<1>5. PICK t \in S : m = Offset(a, t)
  OBVIOUS
<1>6. \A u \in S : Offset(a, t) <= Offset(a, u)
  BY <1>4, <1>5
<1> HIDE DEF K
<1> QED BY <1>1, <1>6, Zenon DEF FirstFrom

(* The same with the button last. *)
LEMMA AwardKeysDiffer ==
  ASSUME NEW button \in Seats
  PROVE  /\ \A s \in Seats : AwardKey(button, s) \in Int
         /\ \A s, t \in Seats : AwardKey(button, s) = AwardKey(button, t) => s = t
<1>1. TableSize \in 2 .. 9
  BY HandAssumption
<1>2. /\ \A s \in Seats : Offset(button, s) \in 0 .. TableSize - 1
      /\ \A s, t \in Seats : Offset(button, s) = Offset(button, t) => s = t
  BY OffsetsDiffer
<1> QED BY <1>1, <1>2 DEF AwardKey

-----------------------------------------------------------------------------
(* Lemmas about pots. *)

(* Division with a remainder by at most nine. *)
LEMMA EqualParts ==
  ASSUME NEW a \in Nat, NEW n \in 1 .. 9
  PROVE  /\ a \div n \in Nat /\ a % n \in Nat /\ a % n <= n
         /\ (a \div n) * n + (a % n) = a
<1>1. CASE n = 1  BY <1>1
<1>2. CASE n = 2  BY <1>2
<1>3. CASE n = 3  BY <1>3
<1>4. CASE n = 4  BY <1>4
<1>5. CASE n = 5  BY <1>5
<1>6. CASE n = 6  BY <1>6
<1>7. CASE n = 7  BY <1>7
<1>8. CASE n = 8  BY <1>8
<1>9. CASE n = 9  BY <1>9
<1> QED BY <1>1, <1>2, <1>3, <1>4, <1>5, <1>6, <1>7, <1>8, <1>9

(* The winners of a pot share all of it, odd chips included. *)
LEMMA SharesAddUp ==
  ASSUME NEW pot, pot.amount \in Nat, NEW W, W \subseteq Seats, W # {},
         NEW button \in Seats,
         NEW f, \A s \in W : f[s] = Share(pot, W, button, s)
  PROVE  /\ SumFunctionOnSet(f, W) = pot.amount
         /\ \A s \in W : f[s] \in Nat /\ f[s] <= pot.amount
<1> DEFINE n == Cardinality(W)
           q == pot.amount \div n
           r == pot.amount % n
           key == [s \in W |-> AwardKey(button, s)]
           rank == [s \in W |-> Cardinality({w \in W : key[w] < key[s]})]
<1>1. IsFiniteSet(W) /\ n \in 1 .. 9
  <2>1. IsFiniteSet(W) /\ n \in 0 .. 9
    BY AtMostNine
  <2>2. n # 0
    BY <2>1, FS_EmptySet
  <2> QED BY <2>1, <2>2
<1>2. q \in Nat /\ r \in Nat /\ r <= n /\ q * n + r = pot.amount
  <2> HIDE DEF n
  <2> QED BY <1>1, EqualParts
<1>3. (\A s \in W : key[s] \in Int) /\ \A s, t \in W : key[s] = key[t] => s = t
  BY AwardKeysDiffer
<1>4. Ranks(W, key, rank)
  <2>1. \A s \in W : rank[s] = Cardinality({w \in W : key[w] < key[s]})
    OBVIOUS
  <2> HIDE DEF key, rank
  <2> QED BY <1>3, <2>1 DEF Ranks
<1>5. ASSUME NEW s \in W PROVE f[s] = q + (IF rank[s] < r THEN 1 ELSE 0)
  <2>1. {w \in W : key[w] < key[s]} = {w \in W : AwardKey(button, w) < AwardKey(button, s)}
    OBVIOUS
  <2>2. rank[s] = Cardinality({w \in W : AwardKey(button, w) < AwardKey(button, s)})
    BY <2>1
  <2>3. f[s] = q + (IF Cardinality({w \in W : AwardKey(button, w) < AwardKey(button, s)}) < r
                    THEN 1 ELSE 0)
    BY DEF Share
  <2> HIDE DEF rank, q, r
  <2> QED BY <2>2, <2>3
<1> HIDE DEF n, q, r, key, rank
<1>6. SumFunctionOnSet(f, W) = q * Cardinality(W) + r
  <2>1. q \in Int /\ r \in Nat /\ r <= Cardinality(W)
    BY <1>2 DEF n
  <2> QED BY <1>1, <1>4, <1>5, <2>1, SumShares
<1>7. SumFunctionOnSet(f, W) = pot.amount
  BY <1>2, <1>6 DEF n
<1>8. \A s \in W : f[s] \in Nat
  <2> SUFFICES ASSUME NEW s \in W PROVE f[s] \in Nat
    OBVIOUS
  <2>1. CASE rank[s] < r
    BY <1>2, <1>5, <2>1
  <2>2. CASE ~ (rank[s] < r)
    BY <1>2, <1>5, <2>2
  <2> QED BY <2>1, <2>2
<1>9. ASSUME NEW s \in W PROVE f[s] <= pot.amount
  <2>1. \A x \in W : f[x] \in Int
    BY <1>8
  <2>2. SumFunctionOnSet(f, W) = f[s] + SumFunctionOnSet(f, W \ {s})
    BY <1>1, <2>1, SumWithout
  <2>3. IsFiniteSet(W \ {s}) /\ \A x \in W \ {s} : f[x] \in Nat
    BY <1>1, <1>8, FS_Subset
  <2>4. SumFunctionOnSet(f, W \ {s}) \in Nat
    BY <2>3, SumIsNat
  <2>5. f[s] \in Nat
    BY <1>8
  <2> QED BY <1>7, <2>2, <2>4, <2>5
<1> QED BY <1>7, <1>8, <1>9

(* A pot that can be paid: its eligible seats have strengths, and nobody put
   in more than one of them. *)
Payable(total, eligible, deal, button) ==
  /\ Contributions(total) /\ button \in Seats
  /\ eligible \subseteq DOMAIN total
  /\ \A s \in eligible : deal[s] \in Int
  /\ \A s \in DOMAIN total : \E e \in eligible : total[e] >= total[s]

PotOf(total, eligible, l) ==
  [ amount |-> LayerAmount(total, l), level |-> l,
    eligible |-> Contributors(total, l) \cap eligible ]

(* What a seat gets from a layer: all of it back, or its share. *)
Gets(total, eligible, deal, button, l, s) ==
  IF Cardinality(Contributors(total, l)) = 1
  THEN IF s \in Contributors(total, l) THEN LayerAmount(total, l) ELSE 0
  ELSE LET winners == Winners(PotOf(total, eligible, l), deal)
       IN  IF s \in winners THEN Share(PotOf(total, eligible, l), winners, button, s) ELSE 0

(* A layer has contributors, one of them eligible. *)
LEMMA LayerContested ==
  ASSUME NEW total, NEW eligible, NEW deal, NEW button,
         Payable(total, eligible, deal, button), NEW l \in Layers(total)
  PROVE  /\ l \in Nat /\ LayerAmount(total, l) \in Nat
         /\ Contributors(total, l) \in SUBSET DOMAIN total
         /\ IsFiniteSet(Contributors(total, l)) /\ Cardinality(Contributors(total, l)) \in Nat \ {0}
         /\ Contributors(total, l) \cap eligible # {}
<1> DEFINE C == Contributors(total, l)
           slices == [s \in DOMAIN total |-> Slice(total, l, s)]
<1>1. Contributions(total)
  BY DEF Payable
<1>2. IsFiniteSet(DOMAIN total) /\ l \in Nat /\ \E s \in DOMAIN total : total[s] = l
  BY <1>1, LayersFinite
<1>3. PICK s \in DOMAIN total : total[s] = l
  BY <1>2
<1>4. PICK e \in eligible : total[e] >= total[s]
  BY DEF Payable
<1>5. e \in C \cap eligible
  BY <1>3, <1>4 DEF Contributors, Payable
<1>6. C \in SUBSET DOMAIN total
  BY DEF Contributors
<1>7. IsFiniteSet(C)
  BY <1>2, <1>6, FS_Subset
<1>8. Cardinality(C) \in Nat /\ Cardinality(C) # 0
  <2> HIDE DEF C
  <2> QED BY <1>5, <1>7, FS_CardinalityType, FS_EmptySet
<1>9. LayerAmount(total, l) \in Nat
  <2>1. \A x \in DOMAIN total : slices[x] = Slice(total, l, x)
    OBVIOUS
  <2> HIDE DEF slices
  <2> QED BY <1>1, <2>1, LayerIsSlices
<1> QED BY <1>2, <1>5, <1>6, <1>7, <1>8, <1>9

(* The winners of a layer are eligible contributors, at least one. *)
LEMMA LayerWinners ==
  ASSUME NEW total, NEW eligible, NEW deal, NEW button,
         Payable(total, eligible, deal, button), NEW l \in Layers(total),
         NEW W, W = Winners(PotOf(total, eligible, l), deal)
  PROVE  W # {} /\ W \subseteq Contributors(total, l) \cap eligible /\ W \subseteq Seats
<1> DEFINE C == Contributors(total, l)
           P == C \cap eligible
<1>1. C \in SUBSET DOMAIN total /\ IsFiniteSet(C) /\ P # {}
  BY LayerContested
<1>2. IsFiniteSet(P) /\ \A s \in P : deal[s] \in Int
  BY <1>1, FS_Subset DEF Payable
<1>3. W = {s \in P : \A t \in P : deal[s] >= deal[t]}
  BY DEF Winners, PotOf
<1>4. \E s \in P : \A t \in P : deal[s] >= deal[t]
  <2> HIDE DEF P
  <2> QED BY <1>1, <1>2, StrongestOf
<1>5. DOMAIN total \subseteq Seats
  BY DEF Payable, Contributions
<1> QED BY <1>1, <1>3, <1>4, <1>5

(* A layer is paid out, to its contributors only. *)
LEMMA LayerPaid ==
  ASSUME NEW total, NEW eligible, NEW deal, NEW button,
         Payable(total, eligible, deal, button), NEW l \in Layers(total),
         NEW gets, \A s \in DOMAIN total : gets[s] = Gets(total, eligible, deal, button, l, s)
  PROVE  /\ SumFunctionOnSet(gets, DOMAIN total) = LayerAmount(total, l)
         /\ \A s \in DOMAIN total :
              gets[s] \in Nat /\ gets[s] <= (IF l <= total[s] THEN LayerAmount(total, l) ELSE 0)
<1> DEFINE D == DOMAIN total
           C == Contributors(total, l)
           amount == LayerAmount(total, l)
           pot == PotOf(total, eligible, l)
           W == Winners(pot, deal)
<1>1. /\ l \in Nat /\ amount \in Nat
      /\ C \in SUBSET D /\ IsFiniteSet(C) /\ Cardinality(C) \in Nat \ {0}
  BY LayerContested
<1>2. /\ IsFiniteSet(D) /\ D \subseteq Seats /\ button \in Seats
      /\ \A s \in D : s \in C <=> l <= total[s]
  <2>1. Contributions(total) /\ button \in Seats
    BY DEF Payable
  <2>2. \A s \in D : total[s] \in Nat
    BY <2>1 DEF Contributions
  <2> QED BY <1>1, <2>1, <2>2, LayersFinite DEF Contributions, Contributors
<1>3. W # {} /\ W \subseteq C \cap eligible /\ W \subseteq Seats
  BY LayerWinners
<1>4. pot.amount = amount
  BY DEF PotOf
<1> HIDE DEF D, C, amount, pot, W
<1>5. ASSUME NEW P \in SUBSET C, IsFiniteSet(P), \A s \in D \ P : gets[s] = 0,
             \A s \in P : gets[s] \in Nat /\ gets[s] <= amount,
             SumFunctionOnSet(gets, P) = amount
      PROVE  /\ SumFunctionOnSet(gets, D) = amount
             /\ \A s \in D : gets[s] \in Nat /\ gets[s] <= (IF l <= total[s] THEN amount ELSE 0)
  <2>1. P \in SUBSET D /\ IsFiniteSet(D \ P) /\ \A s \in D : gets[s] \in Int
    BY <1>1, <1>2, <1>5, FS_Subset
  <2>2. SumFunctionOnSet(gets, D) = SumFunctionOnSet(gets, P) + SumFunctionOnSet(gets, D \ P)
    BY <1>2, <2>1, SumSplit
  <2>3. SumFunctionOnSet(gets, D \ P) = 0
    BY <1>5, <2>1, SumZero
  <2>4. SumFunctionOnSet(gets, D) = amount
    BY <1>1, <1>5, <2>2, <2>3
  <2>5. ASSUME NEW s \in D PROVE gets[s] \in Nat /\ gets[s] <= (IF l <= total[s] THEN amount ELSE 0)
    <3>1. CASE s \in P
      BY <1>2, <1>5, <3>1
    <3>2. CASE s \notin P
      BY <1>1, <1>5, <3>2
    <3> QED BY <3>1, <3>2
  <2> QED BY <2>4, <2>5
<1>6. CASE Cardinality(C) = 1
  <2>1. \A s \in D : gets[s] = IF s \in C THEN amount ELSE 0
    BY <1>6 DEF Gets, C, D, amount
  <2>2. SumFunctionOnSet(gets, C) = amount * Cardinality(C)
    BY <1>1, <2>1, SumConst
  <2>3. SumFunctionOnSet(gets, C) = amount
    BY <1>1, <1>6, <2>2
  <2> QED BY <1>1, <1>5, <2>1, <2>3 DEF D, amount
<1>7. CASE Cardinality(C) # 1
  <2>1. \A s \in D : gets[s] = IF s \in W THEN Share(pot, W, button, s) ELSE 0
    BY <1>7 DEF Gets, C, D, W, pot
  <2>2. \A s \in W : gets[s] = Share(pot, W, button, s)
    BY <1>1, <1>3, <2>1
  <2>3. pot.amount \in Nat
    BY <1>1, <1>4
  <2>4. /\ SumFunctionOnSet(gets, W) = amount
        /\ \A s \in W : gets[s] \in Nat /\ gets[s] <= amount
    BY <1>2, <1>3, <1>4, <2>2, <2>3, SharesAddUp
  <2>5. W \in SUBSET C /\ IsFiniteSet(W)
    BY <1>1, <1>3, FS_Subset
  <2>6. \A s \in D \ W : gets[s] = 0
    BY <2>1
  <2> QED BY <1>5, <2>4, <2>5, <2>6 DEF D, amount
<1> QED BY <1>6, <1>7

(* The strongest hand takes every layer it contributed to. *)
LEMMA StrongestTakesLayer ==
  ASSUME NEW total, NEW eligible, NEW deal, NEW button,
         Payable(total, eligible, deal, button), NEW l \in Layers(total),
         NEW s \in eligible, \A t \in eligible \ {s} : deal[s] > deal[t]
  PROVE  Gets(total, eligible, deal, button, l, s)
           = IF l <= total[s] THEN LayerAmount(total, l) ELSE 0
<1> DEFINE C == Contributors(total, l)
           pot == PotOf(total, eligible, l)
           W == Winners(pot, deal)
           amount == LayerAmount(total, l)
           gets == [t \in DOMAIN total |-> Gets(total, eligible, deal, button, l, t)]
<1>1. amount \in Nat /\ l \in Nat /\ s \in DOMAIN total
  BY LayerContested DEF Payable
<1>2. \A t \in DOMAIN total : gets[t] = Gets(total, eligible, deal, button, l, t)
  OBVIOUS
<1>3. gets[s] \in Nat /\ gets[s] <= (IF l <= total[s] THEN amount ELSE 0)
  <2> HIDE DEF gets
  <2> QED BY <1>1, <1>2, LayerPaid
<1>4. CASE ~ (l <= total[s])
  BY <1>1, <1>2, <1>3, <1>4
<1>5. CASE l <= total[s] /\ Cardinality(C) = 1
  <2>1. s \in C
    BY <1>1, <1>5 DEF Contributors
  <2> QED BY <1>5, <2>1 DEF Gets
<1>6. CASE l <= total[s] /\ Cardinality(C) # 1
  <2>1. s \in C \cap eligible
    BY <1>1, <1>6 DEF Contributors
  <2>2. W \subseteq C \cap eligible
    BY LayerWinners
  <2>3. W = {x \in C \cap eligible : \A y \in C \cap eligible : deal[x] >= deal[y]}
    BY DEF Winners, PotOf
  <2>4. \A x \in eligible : deal[x] \in Int
    BY DEF Payable
  <2>5. s \in W
    BY <2>1, <2>3, <2>4
  <2>6. \A x \in W : x = s
    <3> SUFFICES ASSUME NEW x \in W, x # s PROVE FALSE
      OBVIOUS
    <3>1. deal[x] >= deal[s] /\ x \in eligible
      BY <2>1, <2>3
    <3> QED BY <2>4, <3>1
  <2>7. W = {s}
    BY <2>5, <2>6
  <2> DEFINE f == [x \in {s} |-> Share(pot, W, button, x)]
  <2>8. \A x \in W : f[x] = Share(pot, W, button, x)
    BY <2>7
  <2>9. pot.amount = amount
    BY DEF PotOf
  <2>10. W # {} /\ W \subseteq Seats /\ button \in Seats
    BY LayerWinners DEF Payable
  <2>11. Gets(total, eligible, deal, button, l, s) = f[s]
    BY <1>6, <2>5, <2>8 DEF Gets
  <2> HIDE DEF f, W, pot, amount
  <2>12. SumFunctionOnSet(f, W) = amount /\ f[s] \in Nat
    BY <1>1, <2>5, <2>8, <2>9, <2>10, SharesAddUp
  <2>13. SumFunctionOnSet(f, {s}) = f[s] + SumFunctionOnSet(f, {s} \ {s})
    <3>1. IsFiniteSet({s})
      BY FS_Singleton
    <3>2. \A x \in {s} : f[x] \in Int
      BY <2>12
    <3>3. s \in {s}
      OBVIOUS
    <3> QED BY <3>1, <3>2, <3>3, SumWithout
  <2>14. SumFunctionOnSet(f, {s} \ {s}) = 0
    <3>1. {s} \ {s} = {}
      OBVIOUS
    <3> QED BY <3>1, SumOfNone
  <2>15. f[s] = amount
    BY <2>7, <2>12, <2>13, <2>14
  <2> QED BY <1>6, <2>11, <2>15 DEF amount
<1> QED BY <1>4, <1>5, <1>6

(* What a seat is paid is what it gets from the layers. *)
LEMMA ReceiptsByLayer ==
  ASSUME NEW total, NEW eligible, NEW deal, NEW button,
         Payable(total, eligible, deal, button), NEW s \in DOMAIN total,
         NEW k, k.returned = Returned(total),
         k.awards = {Award(p, deal, button) : p \in BuildPots(total, eligible)},
         NEW gets, \A l \in Layers(total) : gets[l] = Gets(total, eligible, deal, button, l, s)
  PROVE  Receipts(k, s) = SumFunctionOnSet(gets, Layers(total))
<1> DEFINE K == Layers(total)
           single == {l \in K : Cardinality(Contributors(total, l)) = 1}
           contested == {l \in K : Cardinality(Contributors(total, l)) > 1}
           award == [l \in K |-> Award(PotOf(total, eligible, l), deal, button)]
           back == [l \in single |-> IF s \in Contributors(total, l) THEN LayerAmount(total, l) ELSE 0]
           paid == [a \in k.awards |-> IF s \in DOMAIN a.payouts THEN a.payouts[s] ELSE 0]
<1>1. IsFiniteSet(K) /\ \A l \in K : gets[l] \in Int
  <2>1. Contributions(total)
    BY DEF Payable
  <2>2. ASSUME NEW l \in K PROVE gets[l] \in Int
    <3> DEFINE all == [t \in DOMAIN total |-> Gets(total, eligible, deal, button, l, t)]
    <3>1. \A t \in DOMAIN total : all[t] = Gets(total, eligible, deal, button, l, t)
      OBVIOUS
    <3> HIDE DEF all
    <3>2. all[s] \in Nat
      BY <3>1, LayerPaid
    <3> QED BY <3>1, <3>2
  <2> QED BY <2>1, <2>2, LayersFinite
<1>2. \A l \in K : Cardinality(Contributors(total, l)) \in Nat \ {0}
  BY LayerContested
<1>3. single \in SUBSET K /\ K \ single = contested /\ contested \subseteq K
  BY <1>2
<1>4. Receipts(k, s) = SumFunctionOnSet(back, single) + SumFunctionOnSet(paid, k.awards)
  <2>1. k.returned[s] = SumFunction(back)
    BY DEF Returned
  <2>2. SumFunction(back) = SumFunctionOnSet(back, single)
    BY DEF SumFunction
  <2>3. SumFunction(paid) = SumFunctionOnSet(paid, k.awards)
    BY DEF SumFunction
  <2>4. Receipts(k, s) = k.returned[s] + SumFunction(paid)
    BY DEF Receipts
  <2> QED BY <2>1, <2>2, <2>3, <2>4
<1>5. \A l \in single : back[l] = gets[l]
  BY DEF Gets
<1>6. k.awards = {award[l] : l \in contested}
  <2>1. BuildPots(total, eligible) = {PotOf(total, eligible, l) : l \in contested}
    BY DEF BuildPots, PotOf
  <2> QED BY <2>1
<1>7. \A x, y \in contested : award[x] = award[y] => x = y
  <2>1. \A l \in K : award[l].level = l
    BY DEF Award, PotOf
  <2> HIDE DEF award
  <2> QED BY <2>1
<1>8. ASSUME NEW l \in contested PROVE paid[award[l]] = gets[l]
  <2> DEFINE W == Winners(PotOf(total, eligible, l), deal)
  <2>1. award[l] \in k.awards
    BY <1>6
  <2>2. award[l].payouts = [t \in W |-> Share(PotOf(total, eligible, l), W, button, t)]
    BY DEF Award
  <2>3. Cardinality(Contributors(total, l)) # 1
    BY <1>2
  <2>4. gets[l] = IF s \in W THEN Share(PotOf(total, eligible, l), W, button, s) ELSE 0
    BY <2>3 DEF Gets
  <2>5. paid[award[l]] = IF s \in DOMAIN award[l].payouts THEN award[l].payouts[s] ELSE 0
    BY <2>1
  <2> HIDE DEF W, award, paid
  <2> QED BY <2>2, <2>4, <2>5
<1> HIDE DEF K, single, contested, award, back, paid
<1>9. IsFiniteSet(single) /\ IsFiniteSet(contested)
  BY <1>1, <1>3, FS_Subset
<1>10. SumFunctionOnSet(back, single) = SumFunctionOnSet(gets, single)
  BY <1>5, <1>9, SumSame
<1>11. SumFunctionOnSet(paid, k.awards) = SumFunctionOnSet(gets, contested)
  <2>1. \A l \in contested : gets[l] \in Int /\ paid[award[l]] = gets[l]
    BY <1>1, <1>3, <1>8
  <2>2. SumFunctionOnSet(paid, {award[l] : l \in contested}) = SumFunctionOnSet(gets, contested)
    BY <1>7, <1>9, <2>1, SumReindex
  <2> QED BY <1>6, <2>2
<1>12. SumFunctionOnSet(gets, K) = SumFunctionOnSet(gets, single) + SumFunctionOnSet(gets, K \ single)
  BY <1>1, <1>3, SumSplit
<1> QED BY <1>3, <1>4, <1>10, <1>11, <1>12 DEF K

(* Together the seats are paid what they put in. *)
LEMMA ReceiptsAddUp ==
  ASSUME NEW total, NEW eligible, NEW deal, NEW button,
         Payable(total, eligible, deal, button),
         NEW k, k.returned = Returned(total),
         k.awards = {Award(p, deal, button) : p \in BuildPots(total, eligible)},
         NEW receipts, \A s \in DOMAIN total : receipts[s] = Receipts(k, s)
  PROVE  /\ \A s \in DOMAIN total : receipts[s] \in Nat
         /\ SumFunctionOnSet(receipts, DOMAIN total) = SumFunctionOnSet(total, DOMAIN total)
<1> DEFINE D == DOMAIN total
           K == Layers(total)
           M == [s \in D |-> [l \in K |-> Gets(total, eligible, deal, button, l, s)]]
           N == [l \in K |-> [s \in D |-> Gets(total, eligible, deal, button, l, s)]]
           amounts == [l \in K |-> LayerAmount(total, l)]
<1>1. Contributions(total)
  BY DEF Payable
<1>2. /\ IsFiniteSet(D) /\ IsFiniteSet(K)
      /\ \A l \in K : l \in Nat /\ l > 0
      /\ \A s \in D : total[s] \in K \cup {0}
  BY <1>1, LayersFinite
<1>3. ASSUME NEW l \in K
      PROVE  /\ amounts[l] = SumFunctionOnSet(N[l], D)
             /\ \A s \in D : N[l][s] \in Nat
  <2>1. \A s \in D : N[l][s] = Gets(total, eligible, deal, button, l, s)
    OBVIOUS
  <2>2. amounts[l] = LayerAmount(total, l)
    OBVIOUS
  <2> HIDE DEF N, amounts
  <2> QED BY <2>1, <2>2, LayerPaid
<1>4. ASSUME NEW s \in D PROVE receipts[s] = SumFunctionOnSet(M[s], K)
  <2>1. \A l \in K : M[s][l] = Gets(total, eligible, deal, button, l, s)
    OBVIOUS
  <2>2. receipts[s] = Receipts(k, s)
    OBVIOUS
  <2> HIDE DEF M
  <2> QED BY <2>1, <2>2, ReceiptsByLayer
<1>5. \A s \in D : \A l \in K : M[s][l] \in Nat /\ N[l][s] = M[s][l]
  <2>1. \A s \in D : \A l \in K : N[l][s] = M[s][l]
    OBVIOUS
  <2> HIDE DEF M, N
  <2> QED BY <1>3, <2>1
<1>6. \A s \in D : receipts[s] \in Nat
  <2> SUFFICES ASSUME NEW s \in D PROVE receipts[s] \in Nat
    OBVIOUS
  <2>1. \A l \in K : M[s][l] \in Nat
    BY <1>5
  <2> HIDE DEF M
  <2>2. SumFunctionOnSet(M[s], K) \in Nat
    BY <1>2, <2>1, SumIsNat
  <2> QED BY <1>4, <2>2
<1>7. SumFunctionOnSet(receipts, D) = SumFunctionOnSet(amounts, K)
  <2> HIDE DEF M, N, amounts
  <2>1. Crossed(D, K, M, N, receipts, amounts)
    <3>1. \A s \in D : \A l \in K : M[s][l] \in Int /\ N[l][s] = M[s][l]
      BY <1>5
    <3>2. \A s \in D : receipts[s] = SumFunctionOnSet(M[s], K)
      BY <1>4
    <3>3. \A l \in K : amounts[l] = SumFunctionOnSet(N[l], D)
      BY <1>3
    <3> QED BY <3>1, <3>2, <3>3 DEF Crossed
  <2> QED BY <1>2, <2>1, SumSwap
<1>8. \A l \in Layers(total) : amounts[l] = LayerAmount(total, l)
  OBVIOUS
<1> HIDE DEF amounts
<1>9. SumFunctionOnSet(amounts, Layers(total)) = SumFunctionOnSet(total, DOMAIN total)
  BY <1>1, <1>8, LayersAddUp
<1> HIDE DEF K, D
<1>12. SumFunctionOnSet(receipts, D) = SumFunctionOnSet(total, D)
  BY <1>7, <1>9 DEF K, D
<1> QED BY <1>6, <1>12 DEF D

(* What is returned of a layer that a single seat reaches is the layer. *)
LEMMA SingleLayerReturned ==
  ASSUME NEW total, Contributions(total), NEW l \in Layers(total),
         Cardinality(Contributors(total, l)) = 1, LayerAmount(total, l) \in Nat,
         NEW backs, \A s \in DOMAIN total :
                      backs[s] = IF s \in Contributors(total, l) THEN LayerAmount(total, l) ELSE 0
  PROVE  SumFunctionOnSet(backs, DOMAIN total) = LayerAmount(total, l)
<1> DEFINE D == DOMAIN total
           C == Contributors(total, l)
           amount == LayerAmount(total, l)
<1>1. IsFiniteSet(D)
  BY LayersFinite
<1>2. C \in SUBSET D
  BY DEF Contributors
<1>3. IsFiniteSet(C) /\ IsFiniteSet(D \ C)
  BY <1>1, <1>2, FS_Subset
<1>4. amount \in Nat /\ Cardinality(C) = 1 /\ \A s \in D : backs[s] = IF s \in C THEN amount ELSE 0
  OBVIOUS
<1> HIDE DEF D, C, amount
<1>5. SumFunctionOnSet(backs, D) = SumFunctionOnSet(backs, C) + SumFunctionOnSet(backs, D \ C)
  BY <1>1, <1>2, <1>4, SumSplit
<1>6. SumFunctionOnSet(backs, C) = amount * Cardinality(C)
  <2>1. \A s \in C : backs[s] = amount
    BY <1>2, <1>4
  <2> QED BY <1>3, <1>4, <2>1, SumConst
<1>7. SumFunctionOnSet(backs, D \ C) = 0
  <2>1. \A s \in D \ C : backs[s] = 0
    BY <1>4
  <2> QED BY <1>3, <2>1, SumZero
<1> QED BY <1>4, <1>5, <1>6, <1>7 DEF D, amount

(* What is returned of the layers that a single seat reaches. *)
LEMMA ReturnsAddUp ==
  ASSUME NEW total, Contributions(total), NEW single,
         single = {l \in Layers(total) : Cardinality(Contributors(total, l)) = 1},
         NEW amounts, \A l \in Layers(total) : amounts[l] = LayerAmount(total, l) /\ amounts[l] \in Nat
  PROVE  SumFunction(Returned(total)) = SumFunctionOnSet(amounts, single)
<1> DEFINE D == DOMAIN total
           back(l, s) == IF s \in Contributors(total, l) THEN LayerAmount(total, l) ELSE 0
           M == [s \in D |-> [l \in single |-> back(l, s)]]
           N == [l \in single |-> [s \in D |-> back(l, s)]]
           returned == Returned(total)
<1>1. IsFiniteSet(D) /\ IsFiniteSet(single)
  BY LayersFinite, FS_Subset
<1>2. DOMAIN returned = D /\ \A s \in D : returned[s] = SumFunctionOnSet(M[s], single)
  BY DEF Returned, SumFunction
<1>3. \A s \in D : \A l \in single : M[s][l] \in Int /\ N[l][s] = M[s][l]
  OBVIOUS
<1>4. \A l \in single : amounts[l] = SumFunctionOnSet(N[l], D)
  <2> SUFFICES ASSUME NEW l \in single PROVE amounts[l] = SumFunctionOnSet(N[l], D)
    OBVIOUS
  <2>1. \A s \in DOMAIN total :
          N[l][s] = IF s \in Contributors(total, l) THEN LayerAmount(total, l) ELSE 0
    OBVIOUS
  <2> HIDE DEF N
  <2> QED BY <2>1, SingleLayerReturned
<1> HIDE DEF M, N, returned, D
<1>5. Crossed(D, single, M, N, returned, amounts)
  BY <1>2, <1>3, <1>4 DEF Crossed
<1>6. SumFunctionOnSet(returned, D) = SumFunctionOnSet(amounts, single)
  BY <1>1, <1>5, SumSwap
<1> QED BY <1>2, <1>6 DEF SumFunction, returned

(* The pots of some layers hold what these layers hold. *)
LEMMA PotsByLayer ==
  ASSUME NEW total, NEW eligible, NEW L, L \subseteq Layers(total), IsFiniteSet(L),
         NEW amounts, \A l \in L : amounts[l] = LayerAmount(total, l) /\ amounts[l] \in Nat,
         NEW pots, pots = {PotOf(total, eligible, l) : l \in L}
  PROVE  SumFunction([p \in pots |-> p.amount]) = SumFunctionOnSet(amounts, L)
<1> DEFINE f == [p \in pots |-> p.amount]
           b == [l \in L |-> PotOf(total, eligible, l)]
<1>1. pots = {b[l] : l \in L}
  OBVIOUS
<1>2. \A x, y \in L : b[x] = b[y] => x = y
  <2>1. \A l \in L : b[l].level = l
    BY DEF PotOf
  <2> HIDE DEF b
  <2> QED BY <2>1
<1>3. \A l \in L : amounts[l] \in Int /\ f[b[l]] = amounts[l]
  <2>1. \A l \in L : b[l].amount = amounts[l] /\ b[l] \in pots
    BY DEF PotOf
  <2> HIDE DEF b
  <2> QED BY <2>1
<1>4. SumFunction(f) = SumFunctionOnSet(f, pots)
  BY DEF SumFunction
<1> HIDE DEF f, b
<1>5. SumFunctionOnSet(f, {b[l] : l \in L}) = SumFunctionOnSet(amounts, L)
  BY <1>2, <1>3, SumReindex
<1> QED BY <1>1, <1>4, <1>5 DEF f

(* The pots and what is returned are what was put in. *)
LEMMA PotsAddUp ==
  ASSUME NEW total, NEW eligible, NEW deal, NEW button,
         Payable(total, eligible, deal, button),
         NEW pots, pots = BuildPots(total, eligible)
  PROVE  SumFunction([p \in pots |-> p.amount]) + SumFunction(Returned(total)) = SumFunction(total)
<1> DEFINE K == Layers(total)
           single == {l \in K : Cardinality(Contributors(total, l)) = 1}
           contested == {l \in K : Cardinality(Contributors(total, l)) > 1}
           amounts == [l \in K |-> LayerAmount(total, l)]
<1>1. Contributions(total) /\ IsFiniteSet(K)
  BY LayersFinite DEF Payable
<1>2. \A l \in K : LayerAmount(total, l) \in Nat /\ Cardinality(Contributors(total, l)) \in Nat \ {0}
  BY LayerContested
<1>3. contested \in SUBSET K /\ K \ contested = single /\ IsFiniteSet(contested)
  BY <1>1, <1>2, FS_Subset
<1>4. \A l \in Layers(total) : amounts[l] = LayerAmount(total, l) /\ amounts[l] \in Nat
  BY <1>2
<1> HIDE DEF amounts
<1>5. SumFunction(Returned(total)) = SumFunctionOnSet(amounts, single)
  BY <1>1, <1>4, ReturnsAddUp
<1>6. SumFunction([p \in pots |-> p.amount]) = SumFunctionOnSet(amounts, contested)
  <2>1. pots = {PotOf(total, eligible, l) : l \in contested}
    BY DEF BuildPots, PotOf
  <2> HIDE DEF contested
  <2> QED BY <1>3, <1>4, <2>1, PotsByLayer
<1>7. SumFunctionOnSet(amounts, K) = SumFunction(total)
  <2>1. SumFunctionOnSet(amounts, Layers(total)) = SumFunctionOnSet(total, DOMAIN total)
    BY <1>1, <1>4, LayersAddUp
  <2> QED BY <2>1 DEF SumFunction
<1> HIDE DEF K, contested, single
<1>8. SumFunctionOnSet(amounts, K) = SumFunctionOnSet(amounts, contested) + SumFunctionOnSet(amounts, K \ contested)
  <2>1. \A l \in K : amounts[l] \in Int
    BY <1>4 DEF K
  <2> QED BY <1>1, <1>3, <2>1, SumSplit
<1>9. SumFunctionOnSet(amounts, contested) \in Int /\ SumFunctionOnSet(amounts, single) \in Int
  <2>1. \A l \in K : amounts[l] \in Int
    BY <1>4 DEF K
  <2>2. IsFiniteSet(single) /\ single \subseteq K
    BY <1>1, <1>3, FS_Subset
  <2> QED BY <1>3, <2>1, <2>2, SumIsInt
<1> QED BY <1>3, <1>5, <1>6, <1>7, <1>8, <1>9

(* A seat is paid no more than it matched, and exactly that with the strongest
   hand. *)
LEMMA ReceiptsMatched ==
  ASSUME NEW total, NEW eligible, NEW deal, NEW button,
         Payable(total, eligible, deal, button),
         NEW k, k.returned = Returned(total),
         k.awards = {Award(p, deal, button) : p \in BuildPots(total, eligible)},
         NEW s \in eligible, NEW caps, \A t \in DOMAIN total : caps[t] = Min({total[s], total[t]})
  PROVE  /\ Receipts(k, s) <= SumFunctionOnSet(caps, DOMAIN total)
         /\ (\A t \in eligible \ {s} : deal[s] > deal[t]) =>
              Receipts(k, s) = SumFunctionOnSet(caps, DOMAIN total)
<1> DEFINE D == DOMAIN total
           K == Layers(total)
           U == UpTo(K, total[s])
           gets == [l \in K |-> Gets(total, eligible, deal, button, l, s)]
           amounts == [l \in K |-> LayerAmount(total, l)]
           reached == [l \in K |-> IF l <= total[s] THEN LayerAmount(total, l) ELSE 0]
<1>1. Contributions(total) /\ s \in D
  BY DEF Payable
<1>2. /\ IsFiniteSet(D) /\ IsFiniteSet(K)
      /\ total[s] \in K \cup {0}
  BY <1>1, LayersFinite
<1>3. Receipts(k, s) = SumFunctionOnSet(gets, K)
  <2>1. \A l \in K : gets[l] = Gets(total, eligible, deal, button, l, s)
    OBVIOUS
  <2> HIDE DEF gets
  <2> QED BY <1>1, <2>1, ReceiptsByLayer
<1>4. \A l \in K : amounts[l] = LayerAmount(total, l)
  OBVIOUS
<1>5. ASSUME NEW l \in K PROVE LayerAmount(total, l) \in Nat
  BY LayerContested
<1>6. ASSUME NEW l \in K PROVE gets[l] \in Int /\ reached[l] \in Int /\ gets[l] <= reached[l]
  <2> DEFINE all == [t \in DOMAIN total |-> Gets(total, eligible, deal, button, l, t)]
  <2>1. \A t \in DOMAIN total : all[t] = Gets(total, eligible, deal, button, l, t)
    OBVIOUS
  <2>2. gets[l] = all[s] /\ reached[l] = IF l <= total[s] THEN LayerAmount(total, l) ELSE 0
    BY <1>1
  <2> HIDE DEF all, gets, reached
  <2>3. all[s] \in Nat /\ all[s] <= (IF l <= total[s] THEN LayerAmount(total, l) ELSE 0)
    BY <1>1, <2>1, LayerPaid
  <2> QED BY <1>5, <2>2, <2>3
<1>7. SumFunctionOnSet(reached, K) = SumFunctionOnSet(caps, D)
  <2>1. U \in SUBSET K /\ (\A l \in U : reached[l] = amounts[l]) /\ \A l \in K \ U : reached[l] = 0
    BY DEF UpTo
  <2>2. \A l \in K : reached[l] \in Int
    BY <1>6
  <2> HIDE DEF reached, amounts
  <2>3. SumFunctionOnSet(amounts, U) = SumFunctionOnSet(caps, D)
    BY ZenonT(60), <1>1, <1>2, <1>4, LayersUpTo
  <2> HIDE DEF U, K, D
  <2>4. IsFiniteSet(U) /\ IsFiniteSet(K \ U)
    BY <1>2, <2>1, FS_Subset
  <2>5. SumFunctionOnSet(reached, K) = SumFunctionOnSet(reached, U) + SumFunctionOnSet(reached, K \ U)
    BY <1>2, <2>1, <2>2, SumSplit
  <2>6. SumFunctionOnSet(reached, U) = SumFunctionOnSet(amounts, U)
    BY <2>1, <2>4, SumSame
  <2>7. SumFunctionOnSet(reached, K \ U) = 0
    BY <2>1, <2>4, SumZero
  <2>8. SumFunctionOnSet(reached, U) \in Int
    BY <2>1, <2>2, <2>4, SumIsInt
  <2> QED BY <2>3, <2>5, <2>6, <2>7, <2>8
<1>8. Receipts(k, s) <= SumFunctionOnSet(caps, D)
  <2> HIDE DEF gets, reached
  <2>1. SumFunctionOnSet(gets, K) <= SumFunctionOnSet(reached, K)
    BY <1>2, <1>6, SumMono
  <2> QED BY <1>3, <1>7, <2>1
<1>9. ASSUME \A t \in eligible \ {s} : deal[s] > deal[t]
      PROVE  Receipts(k, s) = SumFunctionOnSet(caps, D)
  <2>1. ASSUME NEW l \in K PROVE gets[l] = reached[l]
    <3>1. Gets(total, eligible, deal, button, l, s)
            = IF l <= total[s] THEN LayerAmount(total, l) ELSE 0
      BY <1>9, StrongestTakesLayer
    <3> QED BY <3>1
  <2> HIDE DEF gets, reached
  <2>2. SumFunctionOnSet(gets, K) = SumFunctionOnSet(reached, K)
    BY <1>2, <2>1, SumSame
  <2> QED BY <1>3, <1>7, <2>2
<1> QED BY <1>8, <1>9

-----------------------------------------------------------------------------
(* What the chips of a hand are worth. *)

(* What is settled with, besides the bets. *)
Kept(h, k) == k.button = h.button /\ k.initial = h.initial /\ k.returned = h.returned

(* Two hands with the same chips before the same seats. *)
SameStakes(h, k) ==
  /\ k.stack = h.stack /\ k.street = h.street /\ k.total = h.total
  /\ k.part = h.part /\ k.wager = h.wager /\ Kept(h, k)

(* What a seat put in before the present street, or dead. *)
Base(h, s) == h.total[s] - h.street[s]

(* Who put in the whole wager. *)
Owners(h) == {w \in Eligible(h) : h.wager > 0 /\ h.street[w] = h.wager}

(* Before a hand is settled: the chips add up and none is returned; no seat has
   bet more than the wager, which somebody still in the hand has bet in full; who
   may yet bet has put in before the street what the others have, but for a dead
   small blind; who has folded is covered by somebody who has not; and who is
   all-in has nothing left. *)
Several(S) == \A s \in S : S \ {s} # {}
Typed(h)   == /\ Occupied(h) # {} /\ Several(Occupied(h))
              /\ h.button \in Seats /\ h.total \in [Occupied(h) -> Nat]
Unpaid(h)  == h.returned = Zero(h)
Level(h)   == \A s \in Occupied(h) : h.street[s] <= h.total[s] /\ h.street[s] <= h.wager
Owned(h)   == h.wager > 0 => Owners(h) # {}
Even(h)    == \A s \in Live(h) : \A t \in Live(h) \cup Owners(h) : Base(h, t) >= Base(h, s) - 1
Covered(h) == \A f \in Occupied(h) \ Eligible(h) : \E e \in Eligible(h) : h.total[e] >= h.total[f]
Spent(h)   == \A s \in Occupied(h) : h.part[s] = "AllIn" => h.stack[s] = 0
Stakes(h)  == /\ Typed(h) /\ Unpaid(h) /\ Balanced(h) /\ Level(h) /\ Owned(h)
              /\ Even(h) /\ Covered(h) /\ Spent(h)

(* While there is betting: whoever is to act has something to decide, and who
   has answered the wager has matched it. *)
Turn(h)     == h.toAct \in Occupied(h) => NeedsAction(h, h.toAct)
Honoured(h) == \A s \in Live(h) : h.last[s] = h.wager => h.street[s] = h.wager

(* In a showdown: the hands are shown or mucked in the show order, and what is
   mucked is beaten. *)
Showing(h) ==
  LET order == h.progress.order
      n == Cardinality(Eligible(h))
  IN  /\ order \in [1 .. n -> Eligible(h)]
      /\ \A s \in Eligible(h) : \E i \in 1 .. n : order[i] = s
      /\ \A i, j \in 1 .. n : order[i] = order[j] => i = j
      /\ h.progress.cursor \in 1 .. n
      /\ h.revealed \cup h.mucked = {order[i] : i \in 1 .. h.progress.cursor}
      /\ h.deal = NoDeal \/ h.deal \in [Eligible(h) -> Strengths]
      /\ h.deal = NoDeal => h.mucked = {}
      /\ \A s \in h.mucked : BeatenByTabledHands(h, h.deal, s)

(* AwardsEarned of any hand that is over, with what the record of it shows. *)
Booked(h) ==
  /\ Occupied(h) \subseteq Seats /\ \A s \in Occupied(h) : h.stack[s] \in Nat
  /\ SumFunction(h.total) = 0
  /\ PotTotal(h) + SumFunction(h.returned) = SumFunction(h.settled)
  /\ h.phase = "Showdown" => h.revealed \subseteq Eligible(h)
Earned(h) ==
  /\ Balanced(h) /\ Booked(h)
  /\ h.phase = "Showdown" => PaidToTabled(h) /\ PaidWhatMatched(h)

Worth(h) ==
  IF Settled(h) THEN Earned(h)
  ELSE Stakes(h) /\ (IF h.progress.active THEN Showing(h)
                     ELSE h.deal = NoDeal /\ Turn(h) /\ Honoured(h))

-----------------------------------------------------------------------------
(* Lemmas about what the chips add up to. *)

(* What an update of the four chip fields leaves alone. *)
LEMMA StakeFields ==
  ASSUME NEW h, Shape(h), NEW stack, NEW street, NEW total, NEW part, NEW g,
         g = WithChips(h, stack, street, total, part)
  PROVE  /\ g.total = total /\ g.deal = h.deal /\ g.last = h.last /\ g.board = h.board
         /\ Kept(h, g)
BY DEF Shape, Fields, WithChips, Kept

(* The same chips are the same stakes. *)
LEMMA StakesSame ==
  ASSUME NEW h, Stakes(h), NEW k, SameStakes(h, k)
  PROVE  Stakes(k)
<1>1. /\ Occupied(k) = Occupied(h) /\ Eligible(k) = Eligible(h) /\ Live(k) = Live(h)
      /\ Owners(k) = Owners(h)
  BY DEF SameStakes, Occupied, Eligible, Live, CanAct, Owners
<1>2. k.total = h.total /\ k.street = h.street /\ k.stack = h.stack /\ k.wager = h.wager
      /\ k.button = h.button /\ k.initial = h.initial /\ k.returned = h.returned
      /\ k.part = h.part
  BY DEF SameStakes, Kept
<1>3. Typed(k) /\ Unpaid(k) /\ Balanced(k) /\ Owned(k)
  BY <1>1, <1>2 DEF Stakes, Typed, Unpaid, Zero, Balanced, Owned
<1>4. Level(k) /\ Covered(k) /\ Spent(k)
  BY <1>1, <1>2 DEF Stakes, Level, Covered, Spent
<1>5. Even(k)
  BY <1>1, <1>2 DEF Stakes, Even, Base
<1> QED BY <1>3, <1>4, <1>5 DEF Stakes

(* Chips that each seat moves between its stack and the pot still add up. *)
LEMMA BalanceKept ==
  ASSUME NEW h, Balanced(h), IsFiniteSet(Occupied(h)),
         h.stack \in [Occupied(h) -> Int], h.total \in [Occupied(h) -> Int],
         NEW g, g.stack \in [Occupied(h) -> Int], g.total \in [Occupied(h) -> Int],
         g.initial = h.initial,
         \A s \in Occupied(h) : g.stack[s] + g.total[s] = h.stack[s] + h.total[s]
  PROVE  Balanced(g)
<1> DEFINE D == Occupied(h)
           sum == [s \in D |-> h.stack[s] + h.total[s]]
<1>1. DOMAIN h.stack = D /\ DOMAIN h.total = D /\ DOMAIN g.stack = D /\ DOMAIN g.total = D
  OBVIOUS
<1>2. \A s \in D : h.stack[s] \in Int /\ h.total[s] \in Int /\ sum[s] = h.stack[s] + h.total[s]
  OBVIOUS
<1>3. \A s \in D : g.stack[s] \in Int /\ g.total[s] \in Int /\ sum[s] = g.stack[s] + g.total[s]
  BY <1>2
<1> HIDE DEF sum
<1>4. SumFunctionOnSet(sum, D) = SumFunctionOnSet(h.stack, D) + SumFunctionOnSet(h.total, D)
  BY <1>2, SumPlus
<1>5. SumFunctionOnSet(sum, D) = SumFunctionOnSet(g.stack, D) + SumFunctionOnSet(g.total, D)
  BY <1>3, SumPlus
<1> QED BY <1>1, <1>4, <1>5 DEF Balanced, SumFunction

(* A settlement that pays out what was put in adds up. *)
LEMMA BalanceSettled ==
  ASSUME NEW h, Balanced(h), IsFiniteSet(Occupied(h)),
         h.stack \in [Occupied(h) -> Int], h.total \in [Occupied(h) -> Int],
         NEW receipts, \A s \in Occupied(h) : receipts[s] \in Int,
         SumFunctionOnSet(receipts, Occupied(h)) = SumFunctionOnSet(h.total, Occupied(h)),
         NEW g, DOMAIN g.stack = Occupied(h), g.total = Zero(h), g.initial = h.initial,
         \A s \in Occupied(h) : g.stack[s] = h.stack[s] + receipts[s]
  PROVE  Balanced(g)
<1> DEFINE D == Occupied(h)
<1>1. DOMAIN h.stack = D /\ DOMAIN h.total = D /\ DOMAIN g.stack = D /\ DOMAIN g.total = D
  BY DEF Zero
<1>2. \A s \in D : h.stack[s] \in Int /\ receipts[s] \in Int /\ g.stack[s] = h.stack[s] + receipts[s]
  OBVIOUS
<1>3. SumFunctionOnSet(g.stack, D) = SumFunctionOnSet(h.stack, D) + SumFunctionOnSet(receipts, D)
  BY <1>2, SumPlus
<1>4. SumFunctionOnSet(g.total, D) = 0
  <2>1. \A s \in D : g.total[s] = 0
    BY DEF Zero
  <2> QED BY <2>1, SumZero
<1>5. SumFunctionOnSet(h.stack, D) \in Int /\ SumFunctionOnSet(receipts, D) \in Int
  BY <1>2, SumIsInt
<1>6. SumFunctionOnSet(h.stack, D) + SumFunctionOnSet(h.total, D) = h.initial
  BY <1>1 DEF Balanced, SumFunction
<1>7. SumFunctionOnSet(receipts, D) = SumFunctionOnSet(h.total, D)
  OBVIOUS
<1> HIDE DEF D
<1>8. SumFunctionOnSet(g.stack, D) + SumFunctionOnSet(g.total, D) = g.initial
  BY <1>3, <1>4, <1>5, <1>6, <1>7
<1> QED BY <1>1, <1>8 DEF Balanced, SumFunction

(* Nothing adds up to nothing. *)
LEMMA NothingAddsUp ==
  ASSUME NEW h, IsFiniteSet(Occupied(h))
  PROVE  SumFunction(Zero(h)) = 0
<1>1. DOMAIN Zero(h) = Occupied(h) /\ \A s \in Occupied(h) : Zero(h)[s] = 0
  BY DEF Zero
<1>2. SumFunctionOnSet(Zero(h), Occupied(h)) = 0
  BY <1>1, SumZero
<1> QED BY <1>1, <1>2 DEF SumFunction

(* An award by folds adds up. *)
LEMMA FoldEarned ==
  ASSUME NEW h, Shape(h), Chips(h), Stakes(h), Cardinality(Eligible(h)) = 1,
         NEW k, k = AwardFold(h)
  PROVE  Worth(k)
<1> DEFINE winner == CHOOSE s \in Eligible(h) : TRUE
           amount == SumFunction(h.total)
           D == Occupied(h)
           receipts == [s \in D |-> IF s = winner THEN amount ELSE 0]
<1>1. /\ D \subseteq Seats /\ h.stack \in [D -> Nat] /\ h.total \in [D -> Nat] /\ Balanced(h)
  BY DEF Chips, Stakes, Typed
<1>2. IsFiniteSet(D)
  BY <1>1, SeatsFinite
<1>3. winner \in D
  <2>1. Eligible(h) # {}
    BY FS_EmptySet
  <2> QED BY <2>1 DEF Eligible
<1>4. DOMAIN h.stack = D /\ DOMAIN h.total = D
  BY <1>1
<1>5. amount = SumFunctionOnSet(h.total, D)
  BY <1>4 DEF SumFunction
<1>6. amount \in Nat
  <2>1. \A s \in D : h.total[s] \in Nat
    BY <1>1
  <2> HIDE DEF amount, D
  <2> QED BY <1>2, <1>5, <2>1, SumIsNat
<1>7. /\ k.stack = [h.stack EXCEPT ![winner] = @ + amount] /\ k.total = Zero(h)
      /\ k.initial = h.initial /\ k.phase = "HandComplete"
  BY SMTT(40) DEF AwardFold, ClearContributions, Zero, Occupied, Shape, Fields, ProgressFields
<1> DEFINE award == [ level |-> Max(Range(h.total)), amount |-> amount, eligible |-> {winner},
                      payouts |-> [s \in {winner} |-> amount] ]
<1>11. k.settled = h.total /\ k.returned = h.returned /\ k.awards = {award}
  BY DEF AwardFold, ClearContributions, Shape, Fields
<1>12. award.amount = amount
  OBVIOUS
<1> HIDE DEF award
<1> HIDE DEF amount, winner
<1>8. /\ \A s \in D : receipts[s] \in Int /\ receipts[s] \in Nat
      /\ DOMAIN k.stack = D
      /\ \A s \in D : k.stack[s] = h.stack[s] + receipts[s]
  BY <1>1, <1>3, <1>6, <1>7
<1>9. SumFunctionOnSet(receipts, D) = amount
  <2>1. \A s \in D \ {winner} : receipts[s] = 0
    OBVIOUS
  <2>2. receipts[winner] = amount
    BY <1>3
  <2> HIDE DEF receipts
  <2>3. SumFunctionOnSet(receipts, D) = receipts[winner] + SumFunctionOnSet(receipts, D \ {winner})
    BY <1>2, <1>3, <1>8, SumWithout
  <2>4. SumFunctionOnSet(receipts, D \ {winner}) = 0
    BY <1>2, <2>1, FS_RemoveElement, SumZero
  <2> QED BY <1>6, <2>2, <2>3, <2>4
<1> HIDE DEF receipts
<1>10. Balanced(k)
  <2>1. h.stack \in [D -> Int] /\ h.total \in [D -> Int]
    BY <1>1
  <2> QED BY <1>1, <1>2, <1>5, <1>7, <1>8, <1>9, <2>1, BalanceSettled
<1>13. PotTotal(k) = amount
  <2> DEFINE f == [a \in {award} |-> a.amount]
  <2>1. f[award] = amount /\ DOMAIN f = {award}
    BY <1>12
  <2>2. PotTotal(k) = SumFunction(f)
    BY <1>7, <1>11 DEF PotTotal
  <2> HIDE DEF f
  <2>3. SumFunctionOnSet(f, {award}) = amount
    BY <1>6, <2>1, SumOfOne
  <2> QED BY <2>1, <2>2, <2>3 DEF SumFunction
<1>14. SumFunction(Zero(h)) = 0
  BY <1>2, NothingAddsUp
<1>15. Booked(k)
  <2>1. Occupied(k) = D
    BY <1>8 DEF Occupied
  <2>2. k.returned = Zero(h)
    BY <1>11 DEF Stakes, Unpaid
  <2>3. SumFunction(h.total) = amount
    BY <1>4, <1>5 DEF SumFunction
  <2>4. \A s \in D : k.stack[s] \in Nat
    BY <1>1, <1>8
  <2> HIDE DEF D
  <2> QED BY <1>1, <1>6, <1>7, <1>11, <1>13, <1>14, <2>1, <2>2, <2>3, <2>4 DEF Booked
<1> QED BY <1>7, <1>10, <1>15 DEF Worth, Settled, Earned

-----------------------------------------------------------------------------
(* Lemmas about the settlement of a showdown. *)

(* The committed chips can be paid out. *)
LEMMA StakesPayable ==
  ASSUME NEW h, Chips(h), Stakes(h), NEW deal \in [Eligible(h) -> Strengths]
  PROVE  Payable(h.total, Eligible(h), deal, h.button)
<1> DEFINE D == Occupied(h)
           E == Eligible(h)
<1>1. D \subseteq Seats /\ h.total \in [D -> Nat] /\ h.button \in Seats /\ DOMAIN h.total = D
  BY DEF Chips, Stakes, Typed
<1>2. Contributions(h.total)
  BY <1>1 DEF Contributions
<1>3. E \subseteq D
  BY DEF Eligible
<1>4. \A s \in E : deal[s] \in Int
  <2>1. \A x \in Strengths : x \in Int
    BY HandAssumption
  <2> HIDE DEF E
  <2>2. \A s \in E : deal[s] \in Strengths
    BY DEF E
  <2> QED BY <2>1, <2>2
<1>5. ASSUME NEW s \in D PROVE \E e \in E : h.total[e] >= h.total[s]
  <2>1. CASE s \in E
    <3>1. h.total[s] >= h.total[s]
      BY <1>1
    <3> QED BY <2>1, <3>1
  <2>2. CASE s \notin E
    BY <2>2 DEF Stakes, Covered
  <2> QED BY <2>1, <2>2
<1> QED BY <1>1, <1>2, <1>3, <1>4, <1>5 DEF Payable

(* resolve_showdown pays every seat its receipts. *)
LEMMA ResolveFields ==
  ASSUME NEW h, Shape(h), NEW deal, NEW k, k = ResolveShowdown(h, deal)
  PROVE  /\ k.phase = "Showdown" /\ k.initial = h.initial /\ k.part = h.part
         /\ k.settled = h.total /\ k.total = Zero(h) /\ k.deal = deal
         /\ k.revealed = h.revealed /\ k.mucked = h.mucked
         /\ k.returned = Returned(h.total)
         /\ k.awards = {Award(p, deal, h.button) : p \in BuildPots(h.total, Eligible(h))}
         /\ k.stack = [s \in Occupied(h) |-> h.stack[s] + Receipts(k, s)]
         /\ k.pots = BuildPots(h.total, Eligible(h))
<1> DEFINE pots == BuildPots(h.total, Eligible(h))
           returned == Returned(h.total)
           awards == {Award(p, deal, h.button) : p \in pots}
           settled == [h EXCEPT !.settled = h.total, !.deal = deal, !.pots = pots,
                                !.returned = returned, !.awards = awards,
                                !.progress.active = FALSE, !.toAct = NoSeat,
                                !.phase = "Showdown"]
           stack == [s \in Occupied(h) |-> h.stack[s] + Receipts(settled, s)]
           paid == [settled EXCEPT !.stack = stack]
<1>1. awards = {Award(p, deal, h.button) : p \in BuildPots(h.total, Eligible(h))}
  OBVIOUS
<1>2. stack = [s \in Occupied(h) |-> h.stack[s] + Receipts(settled, s)]
  OBVIOUS
<1>5. k = ClearContributions(paid)
  BY DEF ResolveShowdown
<1> HIDE DEF pots, returned, awards, stack
<1>6. /\ paid.phase = "Showdown" /\ paid.initial = h.initial /\ paid.part = h.part
      /\ paid.settled = h.total /\ paid.deal = deal /\ paid.stack = stack
      /\ paid.revealed = h.revealed /\ paid.mucked = h.mucked
      /\ paid.returned = returned /\ paid.awards = awards
      /\ settled.returned = returned /\ settled.awards = awards
      /\ DOMAIN paid = Fields /\ paid = [f \in Fields |-> paid[f]]
  BY ZenonT(60) DEF Shape, Fields
<1>3. paid.pots = pots
  BY DEF Shape, Fields
<1> HIDE DEF settled, paid
<1>7. Occupied(paid) = Occupied(h)
  BY <1>2, <1>6 DEF Occupied
<1>8. Zero(paid) = Zero(h)
  BY <1>7 DEF Zero
<1>9. /\ k.phase = paid.phase /\ k.initial = paid.initial /\ k.part = paid.part
      /\ k.settled = paid.settled /\ k.total = Zero(paid) /\ k.deal = paid.deal
      /\ k.revealed = paid.revealed /\ k.mucked = paid.mucked
      /\ k.returned = paid.returned /\ k.awards = paid.awards /\ k.stack = paid.stack
      /\ k.pots = paid.pots
  BY <1>5, <1>6 DEF ClearContributions, Fields
<1>10. \A s \in Occupied(h) : Receipts(k, s) = Receipts(settled, s)
  BY <1>6, <1>9 DEF Receipts
<1>11. k.stack = [s \in Occupied(h) |-> h.stack[s] + Receipts(k, s)]
  BY <1>2, <1>6, <1>9, <1>10
<1> QED BY <1>1, <1>3, <1>6, <1>8, <1>9, <1>11 DEF returned, pots

(* The settlement of hands of which those that were mucked are beaten. *)
LEMMA SettlementEarned ==
  ASSUME NEW h, Shape(h), Chips(h), Stakes(h), NEW deal \in [Eligible(h) -> Strengths],
         h.revealed \cup h.mucked = Eligible(h),
         \A s \in h.mucked : BeatenByTabledHands(h, deal, s),
         NEW k, k = ResolveShowdown(h, deal)
  PROVE  Worth(k)
<1> DEFINE D == Occupied(h)
           E == Eligible(h)
           receipts == [s \in D |-> Receipts(k, s)]
<1>1. /\ k.phase = "Showdown" /\ k.initial = h.initial /\ k.part = h.part
      /\ k.settled = h.total /\ k.total = Zero(h) /\ k.deal = deal
      /\ k.revealed = h.revealed /\ k.mucked = h.mucked
      /\ k.returned = Returned(h.total)
      /\ k.awards = {Award(p, deal, h.button) : p \in BuildPots(h.total, E)}
      /\ k.stack = [s \in D |-> h.stack[s] + Receipts(k, s)]
      /\ k.pots = BuildPots(h.total, E)
  BY ResolveFields
<1>2. Payable(h.total, E, deal, h.button)
  BY StakesPayable
<1>3. D \subseteq Seats /\ h.stack \in [D -> Nat] /\ h.total \in [D -> Nat] /\ DOMAIN h.total = D
  BY DEF Chips, Stakes, Typed
<1>4. IsFiniteSet(D)
  BY <1>3, SeatsFinite
<1>5. Occupied(k) = D /\ Eligible(k) = E
  BY <1>1 DEF Occupied, Eligible
<1>6. \A s \in D : receipts[s] = Receipts(k, s)
  OBVIOUS
<1>7. /\ \A s \in D : receipts[s] \in Nat
      /\ SumFunctionOnSet(receipts, D) = SumFunctionOnSet(h.total, D)
  <2> HIDE DEF receipts
  <2>1. \A s \in DOMAIN h.total : receipts[s] = Receipts(k, s)
    BY <1>3, <1>6
  <2>2. /\ \A s \in DOMAIN h.total : receipts[s] \in Nat
        /\ SumFunctionOnSet(receipts, DOMAIN h.total) = SumFunctionOnSet(h.total, DOMAIN h.total)
    <3>1. k.returned = Returned(h.total)
          /\ k.awards = {Award(p, deal, h.button) : p \in BuildPots(h.total, E)}
      BY <1>1
    <3> HIDE DEF E
    <3> QED BY <1>2, <2>1, <3>1, ReceiptsAddUp
  <2> QED BY <1>3, <2>2
<1>8. Balanced(k)
  <2>1. h.stack \in [D -> Int] /\ h.total \in [D -> Int] /\ \A s \in D : receipts[s] \in Int
    BY <1>3, <1>7
  <2>2. DOMAIN k.stack = D /\ \A s \in D : k.stack[s] = h.stack[s] + receipts[s]
    BY <1>1
  <2>3. Balanced(h)
    BY DEF Stakes
  <2> HIDE DEF receipts
  <2> QED BY <1>1, <1>4, <1>7, <2>1, <2>2, <2>3, BalanceSettled
<1>9. PaidToTabled(k)
  <2> SUFFICES ASSUME NEW a \in k.awards
      PROVE  DOMAIN a.payouts \subseteq k.revealed /\ DOMAIN a.payouts \cap k.mucked = {}
    BY DEF PaidToTabled
  <2>1. PICK p \in BuildPots(h.total, E) : a = Award(p, deal, h.button)
    BY <1>1
  <2>2. DOMAIN a.payouts = Winners(p, deal)
    BY <2>1 DEF Award
  <2>3. Winners(p, deal) = {s \in p.eligible : \A t \in p.eligible : deal[s] >= deal[t]}
    BY DEF Winners
  <2>4. p.eligible \subseteq E
    BY DEF BuildPots
  <2>5. \A s \in E : deal[s] \in Int
    BY <1>2 DEF Payable
  <2>6. ASSUME NEW s \in Winners(p, deal), s \in h.mucked PROVE FALSE
    <3>1. \A q \in {q \in BuildPots(h.total, Eligible(h)) : s \in q.eligible} :
             \E t \in h.revealed : t \in q.eligible /\ deal[t] > deal[s]
      BY <2>6 DEF BeatenByTabledHands
    <3>2. s \in p.eligible
      BY <2>3
    <3>3. PICK t \in h.revealed : t \in p.eligible /\ deal[t] > deal[s]
      BY <3>1, <3>2
    <3>4. deal[s] >= deal[t] /\ deal[s] \in Int /\ deal[t] \in Int
      BY <2>3, <2>4, <2>5, <3>2, <3>3
    <3> QED BY <3>3, <3>4
  <2>7. Winners(p, deal) \subseteq E
    BY <2>3, <2>4
  <2> QED BY <1>1, <2>2, <2>6, <2>7
<1>10. PaidWhatMatched(k)
  <2> SUFFICES ASSUME NEW s \in E
      PROVE  /\ Receipts(k, s) <= MatchedCap(k, s)
             /\ (\A t \in E \ {s} : k.deal[s] > k.deal[t]) => Receipts(k, s) = MatchedCap(k, s)
    BY <1>5 DEF PaidWhatMatched
  <2> DEFINE caps == [t \in D |-> Min({h.total[s], h.total[t]})]
  <2>1. MatchedCap(k, s) = SumFunctionOnSet(caps, D)
    BY <1>1, <1>5 DEF MatchedCap, SumFunction
  <2>2. \A t \in DOMAIN h.total : caps[t] = Min({h.total[s], h.total[t]})
    BY <1>3
  <2>3. /\ k.returned = Returned(h.total) /\ k.deal = deal
        /\ k.awards = {Award(p, deal, h.button) : p \in BuildPots(h.total, E)}
    BY <1>1
  <2> HIDE DEF caps, E
  <2>4. /\ Receipts(k, s) <= SumFunctionOnSet(caps, DOMAIN h.total)
        /\ (\A t \in E \ {s} : deal[s] > deal[t]) =>
             Receipts(k, s) = SumFunctionOnSet(caps, DOMAIN h.total)
    BY SMTT(40), <1>2, <2>2, <2>3, ReceiptsMatched
  <2> QED BY <1>3, <2>1, <2>3, <2>4
<1>11. Booked(k)
  <2>1. SumFunction(k.total) = 0
    BY <1>1, <1>4, NothingAddsUp
  <2>2. PotTotal(k) + SumFunction(k.returned) = SumFunction(k.settled)
    <3>1. PotTotal(k) = SumFunction([p \in k.pots |-> p.amount])
      BY <1>1 DEF PotTotal
    <3>2. k.pots = BuildPots(h.total, E) /\ k.returned = Returned(h.total) /\ k.settled = h.total
      BY <1>1
    <3> HIDE DEF E
    <3> QED BY <1>2, <3>1, <3>2, PotsAddUp
  <2>3. k.revealed \subseteq Eligible(k)
    BY <1>1, <1>5
  <2>4. Occupied(k) \subseteq Seats
    BY <1>3, <1>5
  <2>5. \A s \in D : k.stack[s] \in Nat
    <3>1. \A s \in D : k.stack[s] = h.stack[s] + receipts[s]
      BY <1>1
    <3> HIDE DEF receipts
    <3> QED BY <1>3, <1>7, <3>1
  <2> QED BY <1>5, <2>1, <2>2, <2>3, <2>4, <2>5 DEF Booked
<1> QED BY <1>1, <1>8, <1>9, <1>10, <1>11 DEF Worth, Settled, Earned

-----------------------------------------------------------------------------
(* Lemmas about the steps of a showdown. *)

(* Somebody is still in the hand. *)
LEMMA SomebodyEligible ==
  ASSUME NEW h, Chips(h), Stakes(h)
  PROVE  /\ Eligible(h) # {} /\ Eligible(h) \subseteq Seats
         /\ IsFiniteSet(Eligible(h)) /\ Cardinality(Eligible(h)) \in Nat \ {0}
<1>1. PICK s \in Occupied(h) : TRUE
  BY DEF Stakes, Typed
<1>2. Eligible(h) # {}
  BY <1>1 DEF Stakes, Covered
<1>3. Eligible(h) \subseteq Seats
  BY DEF Eligible, Chips
<1>4. IsFiniteSet(Eligible(h)) /\ Cardinality(Eligible(h)) \in Nat
  BY <1>3, SeatsFinite
<1> QED BY <1>2, <1>3, <1>4, FS_EmptySet

(* The show order has every hand that is still in. *)
LEMMA OrderComplete ==
  ASSUME NEW h, Chips(h), Stakes(h), NEW n, n = Cardinality(Eligible(h))
  PROVE  /\ n \in Nat \ {0} /\ ShowOrder(h) \in [1 .. n -> Eligible(h)]
         /\ \A s \in Eligible(h) : \E i \in 1 .. n : ShowOrder(h)[i] = s
         /\ \A i, j \in 1 .. n : ShowOrder(h)[i] = ShowOrder(h)[j] => i = j
<1> DEFINE E == Eligible(h)
           first == IF h.aggressor \in E THEN h.aggressor ELSE FirstAfter(h.button, E)
           key == [s \in E |-> Offset(first, s)]
           rank == [s \in E |-> Cardinality({t \in E : key[t] < key[s]})]
<1>1. E # {} /\ E \subseteq Seats /\ IsFiniteSet(E) /\ n \in Nat \ {0}
  BY SomebodyEligible
<1>2. first \in Seats
  <2>1. h.button \in Seats
    BY DEF Stakes, Typed
  <2> HIDE DEF E
  <2>2. FirstAfter(h.button, E) \in E
    BY <1>1, <2>1, FirstAfterIn
  <2> QED BY <1>1, <2>2
<1>3. (\A s \in E : key[s] \in Int) /\ \A s, t \in E : key[s] = key[t] => s = t
  <2> HIDE DEF first
  <2>1. /\ \A s \in Seats : Offset(first, s) \in 0 .. TableSize - 1
        /\ \A s, t \in Seats : Offset(first, s) = Offset(first, t) => s = t
    BY <1>2, OffsetsDiffer
  <2>2. \A s \in E : Offset(first, s) \in Int
    BY <1>1, <2>1
  <2> HIDE DEF E
  <2> QED BY <1>1, <2>1, <2>2
<1>4. Ranks(E, key, rank)
  <2>1. \A s \in E : rank[s] = Cardinality({t \in E : key[t] < key[s]})
    OBVIOUS
  <2> HIDE DEF key, rank, E
  <2> QED BY <1>3, <2>1 DEF Ranks
<1>5. Numbered(E, n, rank)
  <2> HIDE DEF key, rank, E
  <2>1. Numbered(E, Cardinality(E), rank)
    BY <1>1, <1>4, RankOnto
  <2> QED BY <2>1 DEF E
<1>6. ShowOrder(h) = [i \in 1 .. n |-> CHOOSE s \in E : rank[s] = i - 1]
  <2>1. \A s \in E : rank[s] = Cardinality({t \in E : Offset(first, t) < Offset(first, s)})
    <3> SUFFICES ASSUME NEW s \in E
        PROVE  rank[s] = Cardinality({t \in E : Offset(first, t) < Offset(first, s)})
      OBVIOUS
    <3>1. {t \in E : key[t] < key[s]} = {t \in E : Offset(first, t) < Offset(first, s)}
      OBVIOUS
    <3> QED BY <3>1
  <2>2. ShowOrder(h) = [i \in 1 .. n |-> CHOOSE s \in E :
                          Cardinality({t \in E : Offset(first, t) < Offset(first, s)}) = i - 1]
    BY DEF ShowOrder
  <2>3. \A i \in 1 .. n :
          (CHOOSE s \in E : Cardinality({t \in E : Offset(first, t) < Offset(first, s)}) = i - 1)
            = CHOOSE s \in E : rank[s] = i - 1
    <3> HIDE DEF rank, key, first, E
    <3> QED BY <2>1
  <2> HIDE DEF rank, key, first, E
  <2> QED BY <2>2, <2>3
<1> HIDE DEF rank, key, first, E
<1>7. ASSUME NEW i \in 1 .. n PROVE ShowOrder(h)[i] \in E /\ rank[ShowOrder(h)[i]] = i - 1
  <2>1. i - 1 \in 0 .. n - 1
    BY <1>1
  <2>2. \E s \in E : rank[s] = i - 1
    BY <1>5, <2>1 DEF Numbered
  <2> QED BY <1>6, <2>2
<1>8. ASSUME NEW s \in E PROVE \E i \in 1 .. n : ShowOrder(h)[i] = s
  <2>1. rank[s] \in 0 .. n - 1
    BY <1>5 DEF Numbered
  <2>2. rank[s] + 1 \in 1 .. n /\ (rank[s] + 1) - 1 = rank[s]
    BY <1>1, <2>1
  <2>3. ShowOrder(h)[rank[s] + 1] \in E /\ rank[ShowOrder(h)[rank[s] + 1]] = rank[s]
    BY <1>7, <2>2
  <2>4. ShowOrder(h)[rank[s] + 1] = s
    BY <1>5, <2>3 DEF Numbered
  <2> QED BY <2>2, <2>4
<1>9. ShowOrder(h) \in [1 .. n -> E]
  BY <1>6, <1>7
<1>10. ASSUME NEW i \in 1 .. n, NEW j \in 1 .. n, ShowOrder(h)[i] = ShowOrder(h)[j]
       PROVE  i = j
  <2>1. i - 1 = j - 1
    BY <1>7, <1>10
  <2> QED BY <2>1
<1> QED BY <1>1, <1>8, <1>9, <1>10 DEF E

(* A showdown begins with the first hand shown, or with all of them. *)
LEMMA ShowdownStaked ==
  ASSUME NEW h, InBetting(h), Stakes(h), h.deal = NoDeal,
         NEW allIn \in BOOLEAN, NEW k, k = BeginShowdown(h, allIn)
  PROVE  Worth(k)
<1> DEFINE E == Eligible(h)
           n == Cardinality(E)
           order == ShowOrder(h)
<1>1. Shape(h) /\ Chips(h) /\ BoardFits(h) /\ h.revealed = {} /\ h.mucked = {}
  BY DEF InBetting
<1>2. /\ n \in Nat \ {0} /\ order \in [1 .. n -> E]
      /\ \A s \in E : \E i \in 1 .. n : order[i] = s
      /\ \A i, j \in 1 .. n : order[i] = order[j] => i = j
  BY <1>1, OrderComplete
<1>3. Len(order) = n
  BY <1>2, LengthOf
<1> HIDE DEF order
<1>4. PICK cursor, shown :
        /\ cursor = IF allIn THEN Len(order) ELSE 1
        /\ shown = IF allIn THEN E ELSE {order[1]}
  OBVIOUS
<1>5. k = [h EXCEPT !.toAct = NoSeat, !.revealed = @ \cup shown,
                    !.progress = [active |-> TRUE, allIn |-> allIn, order |-> order, cursor |-> cursor]]
  BY <1>4 DEF BeginShowdown, order
<1> HIDE DEF E
<1>6. /\ SameStakes(h, k) /\ k.phase = h.phase
      /\ k.revealed = h.revealed \cup shown /\ k.mucked = h.mucked /\ k.deal = h.deal
      /\ k.progress = [active |-> TRUE, allIn |-> allIn, order |-> order, cursor |-> cursor]
  <2>1. PICK progress, revealed :
          /\ progress = [active |-> TRUE, allIn |-> allIn, order |-> order, cursor |-> cursor]
          /\ revealed = h.revealed \cup shown
    OBVIOUS
  <2>2. k = [h EXCEPT !.toAct = NoSeat, !.revealed = revealed, !.progress = progress]
    BY <1>5, <2>1
  <2>3. DOMAIN h = Fields /\ h = [f \in Fields |-> h[f]]
    BY <1>1 DEF Shape
  <2>4. k.revealed = revealed /\ k.progress = progress
    BY <2>2, <2>3 DEF Fields
  <2>5. k.stack = h.stack /\ k.street = h.street /\ k.total = h.total
        /\ k.part = h.part /\ k.wager = h.wager
    BY <2>2, <2>3 DEF Fields
  <2>6. k.button = h.button /\ k.initial = h.initial /\ k.deal = h.deal /\ k.returned = h.returned
    BY <2>2, <2>3 DEF Fields
  <2>7. k.phase = h.phase /\ k.mucked = h.mucked
    BY <2>2, <2>3 DEF Fields
  <2> QED BY <2>1, <2>4, <2>5, <2>6, <2>7 DEF SameStakes, Kept
<1>7. Stakes(k)
  BY <1>6, StakesSame
<1>8. Eligible(k) = E
  BY <1>6 DEF Eligible, Occupied, SameStakes, E
<1>9. k.progress.order = order /\ k.progress.cursor = cursor /\ k.progress.active = TRUE
  BY <1>6
<1>10. cursor \in 1 .. n /\ shown = {order[i] : i \in 1 .. cursor}
  <2> HIDE DEF E, n
  <2>1. CASE allIn
    <3>1. cursor = n /\ shown = E
      BY <1>3, <1>4, <2>1
    <3> QED BY <1>2, <3>1
  <2>2. CASE ~ allIn
    <3>1. cursor = 1 /\ shown = {order[1]}
      BY <1>4, <2>2
    <3>2. 1 .. 1 = {1}
      OBVIOUS
    <3> QED BY <1>2, <3>1, <3>2
  <2> QED BY <2>1, <2>2
<1>11. Showing(k)
  <2> HIDE DEF E, n
  <2>1. k.revealed \cup k.mucked = {order[i] : i \in 1 .. cursor} /\ k.mucked = {} /\ k.deal = NoDeal
    BY <1>1, <1>6, <1>10
  <2>2. Cardinality(Eligible(k)) = n /\ Eligible(k) = E
    BY <1>8 DEF n
  <2> QED BY <1>2, <1>9, <1>10, <2>1, <2>2 DEF Showing
<1>12. ~ Settled(k)
  BY <1>1, <1>6 DEF BoardFits, Settled
<1> QED BY <1>7, <1>9, <1>11, <1>12 DEF Worth

(* A hand that is beaten stays beaten when more hands are tabled. *)
LEMMA BeatenStays ==
  ASSUME NEW h, NEW deal, NEW s, BeatenByTabledHands(h, deal, s),
         NEW k, k.total = h.total, Eligible(k) = Eligible(h), h.revealed \subseteq k.revealed
  PROVE  BeatenByTabledHands(k, deal, s)
<1> DEFINE pots == BuildPots(h.total, Eligible(h))
<1>1. BuildPots(k.total, Eligible(k)) = pots
  OBVIOUS
<1> HIDE DEF pots
<1>2. /\ {p \in pots : s \in p.eligible} # {}
      /\ \A p \in {p \in pots : s \in p.eligible} :
           \E t \in h.revealed : t \in p.eligible /\ deal[t] > deal[s]
  BY DEF BeatenByTabledHands, pots
<1>3. \A p \in {p \in pots : s \in p.eligible} :
        \E t \in k.revealed : t \in p.eligible /\ deal[t] > deal[s]
  BY <1>2
<1> QED BY <1>1, <1>2, <1>3 DEF BeatenByTabledHands

(* A showdown that reveals nothing new goes on as it was. *)
LEMMA ShowingStays ==
  ASSUME NEW h, Showing(h), NEW k, SameStakes(h, k), k.progress = h.progress,
         k.revealed = h.revealed, k.mucked = h.mucked, k.deal = h.deal
  PROVE  Showing(k)
<1>1. Eligible(k) = Eligible(h) /\ k.total = h.total
  BY DEF SameStakes, Eligible, Occupied
<1>2. \A s \in k.mucked : BeatenByTabledHands(k, k.deal, s)
  <2> SUFFICES ASSUME NEW s \in k.mucked PROVE BeatenByTabledHands(k, k.deal, s)
    OBVIOUS
  <2>1. BeatenByTabledHands(h, k.deal, s)
    BY DEF Showing
  <2>2. h.revealed \subseteq k.revealed
    OBVIOUS
  <2> QED BY <1>1, <2>1, <2>2, BeatenStays
<1> QED BY <1>1, <1>2 DEF Showing

(* A runout moves no chip. *)
LEMMA RunOutStaked ==
  ASSUME NEW h, InShowdown(h), Worth(h), h.board < 5, NEW k, k = RunOut(h)
  PROVE  Worth(k)
<1>1. Shape(h) /\ Stakes(h) /\ Showing(h) /\ h.progress.active = TRUE
  BY DEF InShowdown, BoardFits, Settled, Worth
<1>2. InShowdown(k)
  BY RunOutKeeps
<1>3. SameStakes(h, k) /\ k.progress = h.progress /\ k.deal = h.deal
      /\ k.revealed = h.revealed /\ k.mucked = h.mucked
  <2>1. \E board, phase : k = [h EXCEPT !.board = board, !.phase = phase]
    BY Zenon DEF RunOut
  <2>2. PICK board, phase : k = [h EXCEPT !.board = board, !.phase = phase]
    BY <2>1
  <2> QED BY <1>1, <2>2 DEF Shape, Fields, SameStakes, Kept
<1>4. Stakes(k) /\ Showing(k)
  BY <1>1, <1>3, StakesSame, ShowingStays
<1> QED BY <1>2, <1>4 DEF InShowdown, BoardFits, Settled, Worth

(* What passing over beaten hands returns. *)
LEMMA PassFields ==
  ASSUME NEW h, Shape(h), NEW deal, NEW beaten, NEW cursor,
         NEW g, g = Pass(h, deal, beaten, cursor)
  PROVE  /\ Shape(g) /\ SameStakes(h, g) /\ g.phase = h.phase /\ g.board = h.board
         /\ g.revealed = h.revealed /\ g.mucked = h.mucked \cup beaten /\ g.deal = deal
         /\ g.progress.order = h.progress.order /\ g.progress.cursor = cursor
         /\ g.progress.active = h.progress.active
         /\ g.last = h.last /\ g.raise = h.raise /\ g.blinds = h.blinds
<1>1. PICK mucked, progress : /\ mucked = h.mucked \cup beaten
                              /\ progress = [h.progress EXCEPT !.cursor = cursor]
  OBVIOUS
<1>2. g = [h EXCEPT !.mucked = mucked, !.progress = progress, !.deal = deal]
  BY <1>1 DEF Pass, Shape, Fields
<1>3. /\ progress.order = h.progress.order /\ progress.cursor = cursor
      /\ progress.active = h.progress.active
      /\ DOMAIN progress = ProgressFields /\ progress = [f \in ProgressFields |-> progress[f]]
  BY <1>1 DEF Shape, ProgressFields
<1>4. DOMAIN h = Fields /\ h = [f \in Fields |-> h[f]]
  BY DEF Shape
<1>5. /\ g.mucked = mucked /\ g.progress = progress /\ g.deal = deal
      /\ g.phase = h.phase /\ g.board = h.board /\ g.revealed = h.revealed
      /\ g.last = h.last /\ g.raise = h.raise /\ g.blinds = h.blinds
  BY <1>2, <1>4 DEF Fields
<1>6. SameStakes(h, g)
  BY <1>2, <1>4 DEF Fields, SameStakes, Kept
<1>7. DOMAIN g = Fields /\ g = [f \in Fields |-> g[f]]
  BY <1>2, <1>4 DEF Fields
<1>8. Shape(g)
  BY <1>3, <1>5, <1>7 DEF Shape
<1> QED BY <1>1, <1>3, <1>5, <1>6, <1>8

(* The same chips, with what else the bets are made of. *)
LEMMA ChipsSame ==
  ASSUME NEW h, Chips(h), NEW g, SameStakes(h, g),
         g.last = h.last, g.raise = h.raise, g.blinds = h.blinds
  PROVE  Chips(g)
<1>1. Occupied(g) = Occupied(h)
  BY DEF SameStakes, Occupied
<1> QED BY <1>1 DEF Chips, SameStakes

(* Going down the show order, everything passed is shown or mucked. *)
LEMMA PassedSoFar ==
  ASSUME NEW n \in Nat, NEW c \in 1 .. n, NEW stop \in c + 1 .. n + 1, NEW order
  PROVE  {order[i] : i \in 1 .. c} \cup {order[i] : i \in {j \in c + 1 .. n : j < stop}}
           = {order[i] : i \in 1 .. stop - 1}
<1>1. ASSUME NEW i \in 1 .. stop - 1 PROVE i \in 1 .. c \/ i \in {j \in c + 1 .. n : j < stop}
  BY <1>1
<1>2. ASSUME NEW i \in 1 .. c PROVE i \in 1 .. stop - 1
  OBVIOUS
<1>3. ASSUME NEW i \in {j \in c + 1 .. n : j < stop} PROVE i \in 1 .. stop - 1
  OBVIOUS
<1> QED BY <1>1, <1>2, <1>3

(* advance_showdown: the hands passed over are beaten, and the showdown goes on
   with the next one or is settled. *)
LEMMA TabledStaked ==
  ASSUME NEW h, InShowdown(h), Worth(h), NEW deal \in [Eligible(h) -> Strengths],
         h.deal = NoDeal \/ deal = h.deal,
         NEW k, k = TableNextHand(h, deal)
  PROVE  Worth(k) /\ Advances(h, k)
<1> DEFINE E == Eligible(h)
           n == Cardinality(E)
           order == h.progress.order
           c == h.progress.cursor
           rest == c + 1 .. Len(order)
           Shows(i) == order[i] \in h.alwaysShow \/ ~BeatenByTabledHands(h, deal, order[i])
           shows == {i \in rest : Shows(i)}
           stop == IF shows = {} THEN Len(order) + 1 ELSE Min(shows)
           beaten == {order[i] : i \in {j \in rest : j < stop}}
           cursor == Min({stop, Len(order)})
<1>1. Shape(h) /\ Chips(h) /\ BoardFits(h) /\ Stakes(h) /\ Showing(h) /\ h.progress.active = TRUE
  BY DEF InShowdown, BoardFits, Settled, Worth
<1>2. n \in Nat \ {0}
  BY <1>1, SomebodyEligible
<1>3. /\ order \in [1 .. n -> E] /\ \A s \in E : \E i \in 1 .. n : order[i] = s
      /\ \A i, j \in 1 .. n : order[i] = order[j] => i = j
      /\ c \in 1 .. n /\ h.revealed \cup h.mucked = {order[i] : i \in 1 .. c}
      /\ h.deal = NoDeal => h.mucked = {}
      /\ \A s \in h.mucked : BeatenByTabledHands(h, h.deal, s)
  BY <1>1 DEF Showing
<1>4. Len(order) = n
  <2> HIDE DEF n, E, order
  <2> QED BY <1>2, <1>3, LengthOf
<1>5. PICK g : g = Pass(h, deal, beaten, cursor)
  OBVIOUS
<1>6. k = IF shows = {} THEN ResolveShowdown(g, deal) ELSE Reveal(g, order[stop])
  BY <1>5, Zenon DEF TableNextHand
<1>7. rest = c + 1 .. n
  BY <1>4
<1>8. stop \in c + 1 .. n + 1 /\ (shows # {} => stop \in shows /\ \A i \in shows : stop <= i)
  <2>1. \A i \in rest : i \in Nat /\ i >= c + 1 /\ i <= n
    BY <1>2, <1>3, <1>7
  <2>2. shows \subseteq Nat
    BY <2>1
  <2>3. CASE shows = {}
    BY <1>2, <1>3, <1>4, <2>3
  <2>4. CASE shows # {}
    <3>1. PICK m \in shows : \A y \in shows : m <= y
      <4> HIDE DEF shows
      <4> QED BY <2>2, <2>4, LeastOf
    <3>2. Min(shows) \in shows /\ \A y \in shows : Min(shows) <= y
      <4> HIDE DEF shows
      <4> QED BY SMTT(40), <3>1 DEF Min
    <3>3. stop = Min(shows)
      BY SMTT(40), <2>4
    <3>4. stop \in shows /\ \A i \in shows : stop <= i
      BY <3>2, <3>3
    <3>5. stop \in rest
      BY <3>4
    <3>6. stop \in c + 1 .. n + 1
      <4> HIDE DEF stop, n, c, shows
      <4> QED BY <1>2, <1>3, <1>7, <3>5
    <3> HIDE DEF stop, shows, n, c, rest
    <3> QED BY <3>4, <3>6
  <2> QED BY <2>3, <2>4
<1>9. \A i \in rest : i < stop => BeatenByTabledHands(h, deal, order[i])
  <2> SUFFICES ASSUME NEW i \in rest, i < stop, i \in shows PROVE FALSE
    OBVIOUS
  <2>1. stop <= i /\ stop \in Int /\ i \in Int
    <3>1. c \in Int /\ n \in Int
      BY <1>2, <1>3
    <3>2. i \in c + 1 .. n /\ i \in shows
      BY <1>7
    <3> HIDE DEF stop, n, c, shows, rest
    <3> QED BY <1>8, <3>1, <3>2
  <2> QED BY <2>1
<1>10. /\ Shape(g) /\ SameStakes(h, g) /\ g.phase = h.phase /\ g.board = h.board
       /\ g.revealed = h.revealed /\ g.mucked = h.mucked \cup beaten /\ g.deal = deal
       /\ g.progress.order = order /\ g.progress.cursor = cursor /\ g.progress.active = TRUE
       /\ g.last = h.last /\ g.raise = h.raise /\ g.blinds = h.blinds
  <2>1. g.progress.active = h.progress.active
    BY SMTT(40), <1>1, <1>5, PassFields
  <2> HIDE DEF beaten, cursor
  <2>2. /\ Shape(g) /\ SameStakes(h, g) /\ g.phase = h.phase /\ g.board = h.board
        /\ g.revealed = h.revealed /\ g.mucked = h.mucked \cup beaten /\ g.deal = deal
        /\ g.progress.order = h.progress.order /\ g.progress.cursor = cursor
        /\ g.last = h.last /\ g.raise = h.raise /\ g.blinds = h.blinds
    BY <1>1, <1>5, PassFields
  <2> QED BY SMTT(40), <1>1, <2>1, <2>2
<1>11. Chips(g) /\ Stakes(g)
  BY <1>1, <1>10, ChipsSame, StakesSame
<1>12. Eligible(g) = E /\ g.total = h.total
  BY <1>10 DEF SameStakes, Eligible, Occupied
<1>13. ASSUME NEW s \in g.mucked PROVE BeatenByTabledHands(h, deal, s)
  <2>1. CASE s \in h.mucked
    BY <1>3, <2>1
  <2>2. CASE s \in beaten
    BY <1>9, <2>2
  <2> QED BY <1>10, <2>1, <2>2
<1>14. g.revealed \cup g.mucked = {order[i] : i \in 1 .. stop - 1}
  <2>1. beaten = {order[i] : i \in {j \in c + 1 .. n : j < stop}}
    BY <1>7
  <2> HIDE DEF beaten, stop, n, c, order
  <2>2. {order[i] : i \in 1 .. c} \cup beaten = {order[i] : i \in 1 .. stop - 1}
    BY <1>2, <1>3, <1>8, <2>1, PassedSoFar
  <2> QED BY <1>3, <1>10, <2>2
<1> HIDE DEF beaten
<1>15. CASE shows = {}
  <2>1. k = ResolveShowdown(g, deal)
    BY <1>6, <1>15
  <2>2. stop - 1 = n
    BY <1>2, <1>4, <1>15
  <2>3. g.revealed \cup g.mucked = Eligible(g)
    <3> HIDE DEF stop, n, E, order, c, shows, rest
    <3>1. g.revealed \cup g.mucked = {order[i] : i \in 1 .. n}
      BY <1>14, <2>2
    <3>2. {order[i] : i \in 1 .. n} = E
      BY <1>3
    <3> QED BY <1>12, <3>1, <3>2
  <2>4. ASSUME NEW s \in g.mucked PROVE BeatenByTabledHands(g, deal, s)
    <3>1. h.revealed \subseteq g.revealed
      BY <1>10
    <3> QED BY <1>12, <1>13, <3>1, BeatenStays
  <2>5. deal \in [Eligible(g) -> Strengths]
    BY <1>12
  <2>6. Shape(g) /\ Chips(g) /\ Stakes(g)
    BY <1>10, <1>11
  <2>7. Worth(k)
    BY <2>1, <2>3, <2>4, <2>5, <2>6, SettlementEarned
  <2>8. Settled(k)
    BY <2>1, <2>6, SettlementEnds DEF Over
  <2>9. ~ Settled(h)
    BY <1>1 DEF BoardFits, Settled
  <2> QED BY <2>7, <2>8, <2>9 DEF Advances
<1>16. CASE shows # {}
  <2>1. PICK s : s = order[stop]
    OBVIOUS
  <2>2. k = Reveal(g, s)
    BY <1>6, <1>16, <2>1
  <2>3. stop \in 1 .. n
    <3>1. stop \in shows /\ stop \in c + 1 .. n /\ c \in 1 .. n /\ n \in Nat
      BY SMTT(40), <1>2, <1>3, <1>7, <1>8, <1>16
    <3> HIDE DEF stop, c, n, shows
    <3> QED BY <3>1
  <2>4. cursor = stop
    <3>1. stop \in Int /\ n \in Int /\ stop <= n /\ cursor = Min({stop, n})
      BY <1>2, <1>4, <2>3
    <3> HIDE DEF cursor, stop, n
    <3> QED BY <3>1, MinOfTwo
  <2> HIDE DEF stop, n, E, shows, cursor, order, c
  <2>5. PICK revealed : revealed = g.revealed \cup {s}
    OBVIOUS
  <2>6. k = [g EXCEPT !.revealed = revealed]
    BY <2>2, <2>5 DEF Reveal
  <2>7. /\ SameStakes(g, k) /\ k.phase = g.phase /\ k.board = g.board /\ k.progress = g.progress
        /\ k.revealed = revealed /\ k.mucked = g.mucked /\ k.deal = g.deal
    BY <1>10, <2>6 DEF Shape, Fields, SameStakes, Kept
  <2>8. Stakes(k)
    BY <1>11, <2>7, StakesSame
  <2>9. Eligible(k) = E /\ k.total = h.total
    BY <1>12, <2>7 DEF SameStakes, Eligible, Occupied
  <2>10. k.revealed \cup k.mucked = {order[i] : i \in 1 .. stop}
    <3>1. k.revealed \cup k.mucked = {order[i] : i \in 1 .. stop - 1} \cup {order[stop]}
      BY <1>14, <2>1, <2>5, <2>7
    <3>2. \A i : i \in 1 .. stop <=> (i \in 1 .. stop - 1 \/ i = stop)
      BY <1>2, <2>3
    <3> QED BY <3>1, <3>2
  <2>11. ASSUME NEW t \in k.mucked PROVE BeatenByTabledHands(k, deal, t)
    <3>1. BeatenByTabledHands(h, deal, t)
      BY <1>13, <2>7
    <3>2. h.revealed \subseteq k.revealed /\ Eligible(k) = Eligible(h)
      BY <1>10, <2>5, <2>7, <2>9 DEF E
    <3> QED BY <2>9, <3>1, <3>2, BeatenStays
  <2>12. deal # NoDeal
    <3>1. DOMAIN deal # {}
      BY <1>1, SomebodyEligible
    <3>2. DOMAIN NoDeal = {}
      BY DEF NoDeal
    <3> QED BY <3>1, <3>2
  <2>13. Showing(k)
    <3>1. k.progress.order = order /\ k.progress.cursor = stop /\ k.deal = deal
      BY <1>10, <2>4, <2>7
    <3>2. Cardinality(Eligible(k)) = n
      BY <2>9 DEF n
    <3>3. deal \in [Eligible(k) -> Strengths]
      BY <2>9 DEF E
    <3>4. /\ order \in [1 .. n -> Eligible(k)] /\ \A t \in Eligible(k) : \E i \in 1 .. n : order[i] = t
          /\ \A i, j \in 1 .. n : order[i] = order[j] => i = j
      BY <1>3, <2>9
    <3> QED BY <2>3, <2>10, <2>11, <2>12, <3>1, <3>2, <3>3, <3>4 DEF Showing
  <2>14. ~ Settled(k) /\ k.progress.active = TRUE
    BY <1>1, <1>10, <2>7 DEF BoardFits, Settled
  <2>15. Decided(h) = {order[i] : i \in 1 .. c} /\ Decided(k) = {order[i] : i \in 1 .. stop}
    BY <1>3, <2>10 DEF Decided
  <2>16. stop > c /\ c \in Nat /\ stop \in Nat /\ n \in Nat
    BY <1>2, <1>3, <1>8, <2>3
  <2>17. 1 .. c \subseteq 1 .. stop /\ 1 .. c \subseteq 1 .. n /\ stop \in 1 .. stop /\ stop \notin 1 .. c
    BY <1>3, <2>3, <2>16
  <2>18. Decided(h) \subseteq Decided(k)
    BY <2>15, <2>17
  <2>19. order[stop] \in Decided(k)
    BY <2>15, <2>17
  <2>20. order[stop] \notin Decided(h)
    <3> SUFFICES ASSUME NEW i \in 1 .. c, order[i] = order[stop] PROVE FALSE
      BY <2>15
    <3>1. i \in 1 .. n
      BY <2>17
    <3>2. i = stop
      BY <1>3, <2>3, <3>1
    <3> QED BY <2>17, <3>2
  <2>21. k.board = h.board
    BY <1>10, <2>7
  <2>22. Advances(h, k)
    BY <2>18, <2>19, <2>20, <2>21 DEF Advances
  <2> QED BY <2>8, <2>13, <2>14, <2>22 DEF Worth
<1> QED BY <1>15, <1>16

-----------------------------------------------------------------------------
(* Lemmas about what the bets are worth at the end of a street. *)

(* A hand in betting. *)
LEMMA BettingWorth ==
  ASSUME NEW h, InBetting(h), Stakes(h), h.deal = NoDeal, Turn(h), Honoured(h)
  PROVE  Worth(h)
BY DEF InBetting, BoardFits, Settled, Worth

(* Giving the turn to a seat that has something to decide. *)
LEMMA TurnStaked ==
  ASSUME NEW h, InBetting(h), Stakes(h), h.deal = NoDeal, Honoured(h),
         NEW s, s \in Occupied(h) => NeedsAction(h, s),
         NEW k, k = [h EXCEPT !.toAct = s]
  PROVE  Worth(k)
<1>1. InBetting(k)
  BY TurnKeeps
<1>2. SameStakes(h, k) /\ k.deal = h.deal /\ k.last = h.last /\ k.toAct = s
  BY DEF InBetting, Shape, Fields, SameStakes, Kept
<1>3. Turn(k)
  BY <1>2 DEF Turn, NeedsAction, CanAct, Occupied, SameStakes
<1>4. Honoured(k)
  BY <1>2 DEF Honoured, Live, CanAct, Occupied, SameStakes
<1> QED BY <1>1, <1>2, <1>3, <1>4, StakesSame, BettingWorth

(* Of two seats that can act, each has put in the whole wager when the round
   is complete. *)
LEMMA RoundMatched ==
  ASSUME NEW h, Chips(h), Level(h), BettingRoundComplete(h),
         NEW s \in Live(h), NEW t \in Live(h), s # t
  PROVE  h.street[s] = h.wager /\ h.street[t] = h.wager
<1>1. Live(h) \subseteq Seats
  BY DEF Chips, Live
<1>2. IsFiniteSet(Live(h)) /\ Cardinality(Live(h)) \in Nat
  BY <1>1, SeatsFinite
<1>3. ~ (Cardinality(Live(h)) <= 1)
  <2> SUFFICES ASSUME Cardinality(Live(h)) <= 1 PROVE FALSE
    OBVIOUS
  <2>1. /\ IsFiniteSet(Live(h) \ {s})
        /\ Cardinality(Live(h) \ {s}) = Cardinality(Live(h)) - 1
    BY <1>2, FS_RemoveElement
  <2>2. Cardinality(Live(h) \ {s}) \in Nat
    BY <2>1, FS_CardinalityType
  <2>3. Cardinality(Live(h) \ {s}) = 0
    BY <1>2, <2>1, <2>2
  <2>4. Live(h) \ {s} = {}
    BY <2>1, <2>3, FS_EmptySet
  <2> QED BY <2>4
<1>4. ASSUME NEW x \in Live(h) PROVE h.street[x] = h.wager
  <2>1. ~ NeedsAction(h, x)
    BY <1>3 DEF BettingRoundComplete
  <2>2. CanAct(h, x) /\ x \in Occupied(h)
    BY DEF Live
  <2>3. ~ (h.street[x] < h.wager)
    BY <2>1, <2>2 DEF NeedsAction
  <2>4. h.street[x] \in Nat /\ h.wager \in Nat /\ h.street[x] <= h.wager
    BY <2>2 DEF Chips, Level
  <2> QED BY <2>3, <2>4
<1> QED BY <1>4

(* A new street: the bets are now dead, and they were even. *)
LEMMA StreetStaked ==
  ASSUME NEW h, InBetting(h), Stakes(h), BettingRoundComplete(h),
         NEW k, k = [h EXCEPT !.street = Zero(h),
                              !.last = [s \in Occupied(h) |-> NoWager],
                              !.wager = 0,
                              !.raise = h.blinds.bb,
                              !.board = IF h.phase = "Preflop" THEN 3 ELSE @ + 1,
                              !.phase = NextPhase(h.phase)]
  PROVE  /\ Stakes(k) /\ k.deal = h.deal /\ Honoured(k)
         /\ Live(k) = Live(h) /\ \A s \in Live(k) : NeedsAction(k, s)
<1>1. Shape(h) /\ Chips(h)
  BY DEF InBetting
<1>2. PICK street, last, board, phase :
        /\ street = Zero(h) /\ last = [s \in Occupied(h) |-> NoWager]
        /\ k = [h EXCEPT !.street = street, !.last = last, !.wager = 0,
                         !.raise = h.blinds.bb, !.board = board, !.phase = phase]
  BY <1>1 DEF Shape, Fields
<1>3. /\ k.street = Zero(h) /\ k.wager = 0 /\ k.stack = h.stack /\ k.total = h.total
      /\ k.part = h.part /\ k.button = h.button /\ k.initial = h.initial /\ k.deal = h.deal
      /\ k.returned = h.returned /\ \A s \in Occupied(h) : k.last[s] = NoWager
  BY <1>1, <1>2 DEF Shape, Fields
<1>4. Occupied(k) = Occupied(h) /\ Eligible(k) = Eligible(h) /\ Live(k) = Live(h)
  BY <1>3 DEF Occupied, Eligible, Live, CanAct
<1>5. Typed(h) /\ Unpaid(h) /\ Balanced(h) /\ Level(h) /\ Even(h) /\ Covered(h) /\ Spent(h)
  BY DEF Stakes
<1>6. h.total \in [Occupied(h) -> Nat] /\ h.street \in [Occupied(h) -> Nat] /\ h.wager \in Nat
  BY <1>1, <1>5 DEF Typed, Chips
<1>7. Typed(k) /\ Balanced(k) /\ Covered(k)
  BY <1>3, <1>4, <1>5 DEF Typed, Balanced, Covered
<1>8. \A s \in Occupied(h) : k.street[s] = 0
  BY <1>3 DEF Zero
<1>9. Level(k) /\ Owned(k)
  BY <1>3, <1>4, <1>6, <1>8 DEF Level, Owned
<1>10. Owners(k) = {}
  BY <1>3 DEF Owners
<1>11. Even(k)
  <2> SUFFICES ASSUME NEW s \in Live(h), NEW t \in Live(h)
      PROVE  Base(k, t) >= Base(k, s) - 1
    BY <1>4, <1>10 DEF Even
  <2>1. s \in Occupied(h) /\ t \in Occupied(h)
    BY DEF Live
  <2>2. Base(k, s) = h.total[s] /\ Base(k, t) = h.total[t]
    BY <1>3, <1>6, <1>8, <2>1 DEF Base
  <2>3. h.total[s] \in Nat /\ h.total[t] \in Nat /\ h.street[s] \in Nat /\ h.street[t] \in Nat
    BY <1>6, <2>1
  <2>4. CASE s = t
    BY <2>2, <2>3, <2>4
  <2>5. CASE s # t
    <3>1. h.street[s] = h.wager /\ h.street[t] = h.wager
      BY <1>1, <1>5, <2>5, RoundMatched
    <3>2. h.total[t] - h.street[t] >= h.total[s] - h.street[s] - 1
      BY <1>5 DEF Even, Base
    <3> QED BY <1>6, <2>2, <2>3, <3>1, <3>2
  <2> QED BY <2>4, <2>5
<1>12. Unpaid(k) /\ Spent(k)
  BY <1>3, <1>4, <1>5 DEF Unpaid, Spent, Zero
<1>13. ASSUME NEW s \in Live(k) PROVE k.last[s] = NoWager /\ NeedsAction(k, s)
  <2>1. s \in Occupied(h) /\ CanAct(k, s)
    BY <1>4 DEF Live
  <2> QED BY <1>3, <2>1 DEF NeedsAction
<1>14. Honoured(k)
  BY <1>3, <1>13 DEF Honoured, NoWager
<1> QED BY <1>3, <1>4, <1>7, <1>9, <1>11, <1>12, <1>13, <1>14 DEF Stakes

(* advance_street. *)
LEMMA AdvanceStreetStaked ==
  ASSUME NEW h, InBetting(h), Stakes(h), h.deal = NoDeal, BettingRoundComplete(h),
         NEW k, k = AdvanceStreet(h)
  PROVE  Worth(k)
<1> DEFINE allIn == \E s \in Occupied(h) : h.part[s] = "AllIn"
<1>1. CASE Cardinality(Eligible(h)) = 1
  <2>1. k = AwardFold(h)
    BY <1>1 DEF AdvanceStreet
  <2> QED BY <1>1, <2>1, FoldEarned DEF InBetting
<1>2. CASE Cardinality(Eligible(h)) # 1 /\ (h.phase = "River" \/ (BettingLocked(h) /\ allIn))
  <2>1. k = BeginShowdown(h, allIn) /\ allIn \in BOOLEAN
    BY <1>2 DEF AdvanceStreet
  <2> HIDE DEF allIn
  <2> QED BY <2>1, ShowdownStaked
<1>3. CASE Cardinality(Eligible(h)) # 1 /\ ~ (h.phase = "River" \/ (BettingLocked(h) /\ allIn))
  <2>1. PICK o : o = [h EXCEPT !.street = Zero(h),
                               !.last = [s \in Occupied(h) |-> NoWager],
                               !.wager = 0,
                               !.raise = h.blinds.bb,
                               !.board = IF h.phase = "Preflop" THEN 3 ELSE @ + 1,
                               !.phase = NextPhase(h.phase)]
    OBVIOUS
  <2>2. k = [o EXCEPT !.toAct = FirstAfter(h.button, Live(h))]
    BY <1>3, <2>1, Zenon DEF AdvanceStreet
  <2>3. h.phase # "River"
    BY <1>3
  <2> HIDE DEF allIn
  <2>4. InBetting(o)
    BY <2>1, <2>3, StreetOpens
  <2>5. /\ Stakes(o) /\ o.deal = NoDeal /\ Honoured(o)
        /\ Live(o) = Live(h) /\ \A s \in Live(o) : NeedsAction(o, s)
    BY <2>1, StreetStaked
  <2>6. PICK s : s = FirstAfter(h.button, Live(h))
    OBVIOUS
  <2>7. ASSUME s \in Occupied(o) PROVE NeedsAction(o, s)
    <3>1. Occupied(o) \subseteq Seats /\ Live(o) \subseteq Occupied(o) /\ h.button \in Seats
      BY <2>4 DEF InBetting, Chips, Live, Stakes, Typed
    <3>2. s \in Live(o)
      BY <2>5, <2>6, <2>7, <3>1, FirstAfterOf
    <3> QED BY <2>5, <3>2
  <2> QED BY <2>2, <2>4, <2>5, <2>6, <2>7, TurnStaked
<1> QED BY <1>1, <1>2, <1>3

(* Seat s has just answered: it has matched the wager if it can still act, as
   have the others that have acted against it. *)
Answering(h, s) ==
  /\ \A t \in Live(h) \ {s} : h.last[t] = h.wager => h.street[t] = h.wager
  /\ s \in Live(h) => h.street[s] = h.wager

(* The tail of apply_validated_action, after the seat has remembered the wager. *)
LEMMA ActedStaked ==
  ASSUME NEW h, InBetting(h), Stakes(h), h.deal = NoDeal, NEW s \in Occupied(h),
         Answering(h, s),
         NEW k, k = Acted(h, s)
  PROVE  Worth(k)
<1>1. PICK m : m = [h EXCEPT !.last[s] = IF h.part[s] = "Live" THEN h.wager ELSE @]
  OBVIOUS
<1>2. k = AfterAction(m, s)
  BY <1>1 DEF Acted
<1>3. InBetting(m)
  BY <1>1, RememberKeeps
<1>4. SameStakes(h, m) /\ m.deal = h.deal /\ \A t \in Occupied(h) \ {s} : m.last[t] = h.last[t]
  <2>1. PICK last : /\ m = [h EXCEPT !.last = last]
                    /\ last = [h.last EXCEPT ![s] = IF h.part[s] = "Live" THEN h.wager ELSE @]
    BY <1>1 DEF InBetting, Shape, Fields
  <2>2. m.last = last /\ SameStakes(h, m) /\ m.deal = h.deal
    BY <2>1 DEF InBetting, Shape, Fields, SameStakes, Kept
  <2>3. \A t \in Occupied(h) \ {s} : last[t] = h.last[t]
    BY <2>1 DEF InBetting, Chips
  <2> QED BY <2>2, <2>3
<1>5. Stakes(m) /\ m.deal = NoDeal
  BY <1>4, StakesSame
<1>9. Honoured(m)
  <2>1. Live(m) = Live(h) /\ m.wager = h.wager /\ m.street = h.street
    BY <1>4 DEF SameStakes, Live, CanAct, Occupied
  <2>2. Live(h) \subseteq Occupied(h)
    BY DEF Live
  <2> QED BY <1>4, <2>1, <2>2 DEF Honoured, Answering
<1>6. CASE Cardinality(Eligible(m)) = 1
  <2>1. k = AwardFold(m)
    BY <1>2, <1>6 DEF AfterAction
  <2> QED BY <1>3, <1>5, <1>6, <2>1, FoldEarned DEF InBetting
<1>7. CASE Cardinality(Eligible(m)) # 1 /\ BettingRoundComplete(m)
  <2>1. k = AdvanceStreet(m)
    BY <1>2, <1>7 DEF AfterAction
  <2> QED BY <1>3, <1>5, <1>7, <2>1, AdvanceStreetStaked
<1>8. CASE Cardinality(Eligible(m)) # 1 /\ ~ BettingRoundComplete(m)
  <2>1. k = [m EXCEPT !.toAct = FirstAfter(s, {t \in Occupied(m) : NeedsAction(m, t)})]
    BY <1>2, <1>8, Zenon DEF AfterAction
  <2>2. PICK S : S = {t \in Occupied(m) : NeedsAction(m, t)}
    OBVIOUS
  <2>3. PICK n : n = FirstAfter(s, S)
    OBVIOUS
  <2>4. ASSUME n \in Occupied(m) PROVE NeedsAction(m, n)
    <3>1. Occupied(m) \subseteq Seats /\ s \in Seats
      BY <1>3 DEF InBetting, Chips
    <3>2. n \in S
      BY <2>2, <2>3, <2>4, <3>1, FirstAfterOf
    <3> QED BY <2>2, <3>2
  <2> QED BY <1>3, <1>5, <1>9, <2>1, <2>2, <2>3, <2>4, TurnStaked
<1> QED BY <1>6, <1>7, <1>8

-----------------------------------------------------------------------------
(* Lemmas about how a hand goes on. *)

(* After a street comes the end, the showdown or a longer board. *)
LEMMA StreetAdvances ==
  ASSUME NEW h, InBetting(h), BettingRoundComplete(h), NEW k, k = AdvanceStreet(h)
  PROVE  Settled(k) \/ k.progress.active = TRUE \/ k.board > h.board
<1> DEFINE allIn == \E s \in Occupied(h) : h.part[s] = "AllIn"
<1>1. CASE Cardinality(Eligible(h)) = 1
  BY <1>1, FoldEnds DEF AdvanceStreet, Over
<1>2. CASE Cardinality(Eligible(h)) # 1 /\ (h.phase = "River" \/ (BettingLocked(h) /\ allIn))
  <2>1. k = BeginShowdown(h, allIn) /\ allIn \in BOOLEAN
    BY <1>2 DEF AdvanceStreet
  <2> HIDE DEF allIn
  <2> QED BY <1>2, <2>1, ShowdownBegins DEF InShowdown
<1>3. CASE Cardinality(Eligible(h)) # 1 /\ ~ (h.phase = "River" \/ (BettingLocked(h) /\ allIn))
  <2>1. PICK street, last, board, phase, o, s :
          /\ board = (IF h.phase = "Preflop" THEN 3 ELSE h.board + 1)
          /\ o = [h EXCEPT !.street = street, !.last = last, !.wager = 0,
                           !.raise = h.blinds.bb, !.board = board, !.phase = phase]
          /\ k = [o EXCEPT !.toAct = s]
    BY <1>3, Zenon DEF AdvanceStreet
  <2>2. k.board = board
    BY <2>1 DEF InBetting, Shape, Fields
  <2>3. h.phase # "River" /\ BoardFits(h)
    BY <1>3 DEF InBetting
  <2>4. h.board \in {0, 3, 4} /\ (h.phase = "Preflop" => h.board = 0)
    BY <2>3 DEF BoardFits
  <2> QED BY <2>1, <2>2, <2>4
<1> QED BY <1>1, <1>2, <1>3

(* An action that leaves the wager or raises it is an advance: the seat had not
   answered the wager before. *)
LEMMA ActedAdvances ==
  ASSUME NEW h, InBetting(h), Honoured(h), NEW s \in Live(h), NeedsAction(h, s),
         NEW g, InBetting(g), g.board = h.board, g.last = h.last,
         Live(g) \subseteq Live(h), g.wager >= h.wager, s \in Occupied(g),
         NEW k, k = Acted(g, s)
  PROVE  Advances(h, k)
<1>1. PICK m : m = [g EXCEPT !.last[s] = IF g.part[s] = "Live" THEN g.wager ELSE @]
  OBVIOUS
<1>2. k = AfterAction(m, s)
  BY <1>1 DEF Acted
<1>3. /\ InBetting(m) /\ Occupied(m) = Occupied(g)
      /\ m.stack = g.stack /\ m.part = g.part /\ m.wager = g.wager
      /\ \A t \in Occupied(g) \ {s} : m.last[t] = g.last[t]
  BY <1>1, RememberKeeps
<1>4. m.board = g.board /\ m.last = [g.last EXCEPT ![s] = IF g.part[s] = "Live" THEN g.wager ELSE @]
  BY <1>1 DEF InBetting, Shape, Fields
<1>5. Live(m) = Live(g)
  BY <1>3 DEF Live, CanAct
<1>6. ~ Settled(h) /\ h.progress.active = FALSE
  BY DEF InBetting, BoardFits, Settled
<1>7. CASE Cardinality(Eligible(m)) = 1
  <2>1. k = AwardFold(m)
    BY <1>2, <1>7 DEF AfterAction
  <2> QED BY <1>3, <1>6, <2>1, FoldEnds DEF Over, Advances
<1>8. CASE Cardinality(Eligible(m)) # 1 /\ BettingRoundComplete(m)
  <2>1. k = AdvanceStreet(m)
    BY <1>2, <1>8 DEF AfterAction
  <2>2. Settled(k) \/ k.progress.active = TRUE \/ k.board > m.board
    BY <1>3, <1>8, <2>1, StreetAdvances
  <2> QED BY <1>4, <1>6, <2>2 DEF Advances
<1>9. CASE Cardinality(Eligible(m)) # 1 /\ ~ BettingRoundComplete(m)
  <2>1. PICK n : k = [m EXCEPT !.toAct = n]
    BY <1>2, <1>9, Zenon DEF AfterAction
  <2>2. k.board = m.board /\ k.stack = m.stack /\ k.part = m.part /\ k.wager = m.wager /\ k.last = m.last
    BY <1>3, <2>1 DEF InBetting, Shape, Fields
  <2>3. k.board = h.board /\ k.wager = g.wager /\ Live(k) = Live(g)
    BY <1>3, <1>4, <1>5, <2>2 DEF Live, CanAct, Occupied
  <2>4. CASE Live(g) # Live(h)
    BY <2>3, <2>4 DEF Advances
  <2>5. CASE g.wager > h.wager
    BY <2>3, <2>5 DEF Advances
  <2>6. CASE Live(g) = Live(h) /\ ~ (g.wager > h.wager)
    <3>1. g.wager = h.wager /\ h.wager \in Nat
      BY <2>6 DEF InBetting, Chips
    <3>2. h.last[s] # h.wager
      <4>1. CASE h.last[s] = NoWager
        BY <3>1, <4>1 DEF NoWager
      <4>2. CASE h.street[s] < h.wager
        <5>1. h.street[s] # h.wager
          BY <3>1, <4>2 DEF InBetting, Chips, Live
        <5> QED BY <5>1 DEF Honoured
      <4> QED BY <4>1, <4>2 DEF NeedsAction
    <3>3. Live(h) \subseteq Occupied(g)
      BY <2>6 DEF Live
    <3>4. ASSUME NEW t \in Answered(h) PROVE t \in Answered(k)
      <4>1. t \in Live(h) /\ h.last[t] = h.wager /\ t # s
        BY <3>2 DEF Answered
      <4>2. k.last[t] = h.last[t]
        BY <1>3, <2>2, <3>3, <4>1
      <4> QED BY <2>3, <2>6, <3>1, <4>1, <4>2 DEF Answered
    <3>5. s \in Answered(k)
      <4>1. g.part[s] = "Live"
        BY <2>6 DEF Live, CanAct
      <4>2. s \in DOMAIN g.last
        BY DEF InBetting, Chips
      <4>3. k.last[s] = k.wager
        BY <1>4, <2>2, <2>3, <4>1, <4>2
      <4> QED BY <2>3, <2>6, <4>3 DEF Answered
    <3>6. s \notin Answered(h)
      BY <3>2 DEF Answered
    <3> QED BY <2>3, <3>4, <3>5, <3>6 DEF Advances
  <2> QED BY <2>4, <2>5, <2>6
<1> QED BY <1>7, <1>8, <1>9

-----------------------------------------------------------------------------
(* Lemmas about what the bets are worth after an action. *)

(* g is h after seat s has moved a chips from its stack to the pot. *)
Pays(h, g, s, a) ==
  /\ g.stack = [h.stack EXCEPT ![s] = @ - a]
  /\ g.street = [h.street EXCEPT ![s] = @ + a]
  /\ g.total = [h.total EXCEPT ![s] = @ + a]
  /\ g.part = IF h.stack[s] = a THEN [h.part EXCEPT ![s] = "AllIn"] ELSE h.part
  /\ g.deal = h.deal /\ g.last = h.last /\ g.board = h.board /\ Kept(h, g)

(* commit_chips moves what was requested, or the whole stack. *)
LEMMA CommitPays ==
  ASSUME NEW h, Shape(h), Chips(h), NEW s \in Occupied(h), NEW r \in Nat,
         NEW a, a = IF r <= h.stack[s] THEN r ELSE h.stack[s],
         NEW g, g = Commit(h, s, r)
  PROVE  /\ a \in Nat /\ a <= h.stack[s] /\ Pays(h, g, s, a) /\ g.wager = h.wager /\ Shape(g)
<1>1. h.stack[s] \in Nat
  BY DEF Chips
<1>2. Min({r, h.stack[s]}) = a
  BY <1>1, MinOfTwo
<1>3. a \in Nat /\ a <= h.stack[s]
  BY <1>1
<1>4. PICK stack, street, total, part :
        /\ stack = [h.stack EXCEPT ![s] = @ - a]
        /\ street = [h.street EXCEPT ![s] = @ + a]
        /\ total = [h.total EXCEPT ![s] = @ + a]
        /\ part = IF h.stack[s] = a THEN [h.part EXCEPT ![s] = "AllIn"] ELSE h.part
  OBVIOUS
<1>5. g = WithChips(h, stack, street, total, part)
  BY <1>2, <1>4 DEF Commit
<1>6. /\ g.stack = stack /\ g.street = street /\ g.part = part /\ g.wager = h.wager /\ Shape(g)
  BY <1>5, ChipFields
<1>7. g.total = total /\ g.deal = h.deal /\ g.last = h.last /\ g.board = h.board /\ Kept(h, g)
  BY <1>5, StakeFields
<1> QED BY <1>3, <1>4, <1>6, <1>7 DEF Pays

(* A payment leaves what was put in before the street as it was, and its seat
   either matches the wager or sets it. *)
LEMMA PaymentStaked ==
  ASSUME NEW h, Chips(h), Stakes(h), NEW s \in Live(h), NEW a \in Nat, a <= h.stack[s],
         NEW g, Pays(h, g, s, a), g.wager \in Nat, g.wager >= h.wager,
         h.street[s] + a <= g.wager, g.wager = h.wager \/ g.wager = h.street[s] + a
  PROVE  Stakes(g)
<1> DEFINE D == Occupied(h)
<1>1. /\ D \subseteq Seats /\ h.stack \in [D -> Nat] /\ h.street \in [D -> Nat]
      /\ h.total \in [D -> Nat] /\ h.part \in [D -> {"Live", "Folded", "AllIn"}] /\ h.wager \in Nat
  BY DEF Chips, Stakes, Typed
<1>2. s \in D /\ h.part[s] = "Live"
  BY DEF Live, CanAct
<1>3. /\ g.stack = [h.stack EXCEPT ![s] = @ - a] /\ g.street = [h.street EXCEPT ![s] = @ + a]
      /\ g.total = [h.total EXCEPT ![s] = @ + a]
      /\ g.part = IF h.stack[s] = a THEN [h.part EXCEPT ![s] = "AllIn"] ELSE h.part
      /\ g.button = h.button /\ g.initial = h.initial /\ g.returned = h.returned
  BY DEF Pays, Kept
<1>4. Occupied(g) = D
  BY <1>1, <1>3 DEF Occupied
<1>5. /\ g.stack[s] = h.stack[s] - a /\ g.street[s] = h.street[s] + a
      /\ g.total[s] = h.total[s] + a /\ g.part[s] \in {"Live", "AllIn"}
  BY <1>1, <1>2, <1>3
<1>6. \A t \in D \ {s} : /\ g.stack[t] = h.stack[t] /\ g.street[t] = h.street[t]
                         /\ g.total[t] = h.total[t] /\ g.part[t] = h.part[t]
  BY <1>1, <1>3
<1>7. g.total \in [D -> Nat] /\ g.stack \in [D -> Nat] /\ g.street \in [D -> Nat]
  BY <1>1, <1>2, <1>3
<1>8. Eligible(g) = Eligible(h)
  BY <1>2, <1>4, <1>5, <1>6 DEF Eligible
<1>9. /\ Typed(h) /\ Unpaid(h) /\ Balanced(h) /\ Level(h) /\ Owned(h)
      /\ Even(h) /\ Covered(h) /\ Spent(h)
  BY DEF Stakes
<1> HIDE DEF D
<1>10. Typed(g)
  BY <1>2, <1>3, <1>4, <1>7, <1>9 DEF Typed
<1>11. Balanced(g)
  <2>1. \A t \in D : g.stack[t] + g.total[t] = h.stack[t] + h.total[t]
    <3> SUFFICES ASSUME NEW t \in D PROVE g.stack[t] + g.total[t] = h.stack[t] + h.total[t]
      OBVIOUS
    <3>1. CASE t = s
      BY <1>1, <1>2, <1>5, <3>1
    <3>2. CASE t # s
      BY <1>6, <3>2
    <3> QED BY <3>1, <3>2
  <2>2. /\ h.stack \in [D -> Int] /\ h.total \in [D -> Int]
        /\ g.stack \in [D -> Int] /\ g.total \in [D -> Int]
    BY <1>1, <1>7
  <2>3. IsFiniteSet(D)
    BY <1>1, SeatsFinite
  <2> QED BY <1>3, <1>9, <2>1, <2>2, <2>3, BalanceKept DEF D
<1>12. Level(g)
  <2> SUFFICES ASSUME NEW t \in D PROVE g.street[t] <= g.total[t] /\ g.street[t] <= g.wager
    BY <1>4 DEF Level
  <2>1. h.street[t] <= h.total[t] /\ h.street[t] <= h.wager
    BY <1>9 DEF Level, D
  <2>2. h.street[t] \in Nat /\ h.total[t] \in Nat
    BY <1>1
  <2>3. CASE t = s
    BY <1>1, <1>5, <2>1, <2>2, <2>3
  <2>4. CASE t # s
    BY <1>1, <1>6, <2>1, <2>2, <2>4
  <2> QED BY <2>3, <2>4
<1>13. s \in Eligible(h)
  BY <1>2 DEF Eligible, D
<1>14. Owned(g)
  <2> SUFFICES ASSUME g.wager > 0 PROVE Owners(g) # {}
    BY DEF Owned
  <2>1. CASE g.wager = h.street[s] + a
    <3>1. s \in Owners(g)
      BY <1>5, <1>8, <1>13, <2>1 DEF Owners
    <3> QED BY <3>1
  <2>2. CASE g.wager = h.wager
    <3>1. PICK w \in Eligible(h) : h.street[w] = h.wager
      BY <1>9, <2>2 DEF Owned, Owners
    <3>2. w \in D
      BY DEF Eligible, D
    <3>3. CASE w = s
      <4>1. g.street[s] = g.wager
        BY <1>1, <1>2, <1>5, <2>2, <3>1, <3>3
      <4>2. s \in Owners(g)
        BY <1>8, <1>13, <4>1 DEF Owners
      <4> QED BY <4>2
    <3>4. CASE w # s
      <4>1. w \in Owners(g)
        BY <1>6, <1>8, <2>2, <3>1, <3>2, <3>4 DEF Owners
      <4> QED BY <4>1
    <3> QED BY <3>3, <3>4
  <2> QED BY <2>1, <2>2
<1>15. Live(g) \subseteq Live(h)
  BY <1>4, <1>6 DEF Live, CanAct, D
<1>16. Owners(g) \subseteq Owners(h) \cup Live(h)
  <2> SUFFICES ASSUME NEW w \in Owners(g), w # s PROVE w \in Owners(h)
    OBVIOUS
  <2>1. w \in Eligible(h) /\ g.wager > 0 /\ g.street[w] = g.wager
    BY <1>8 DEF Owners
  <2>2. w \in D
    BY <2>1 DEF Eligible, D
  <2>3. g.street[w] = h.street[w] /\ h.street[w] <= h.wager /\ h.street[w] \in Nat
    BY <1>1, <1>6, <1>9, <2>2 DEF Level, D
  <2>4. h.wager > 0 /\ h.street[w] = h.wager
    BY <1>1, <2>1, <2>3
  <2> QED BY <2>1, <2>4 DEF Owners
<1>17. \A t \in D : Base(g, t) = Base(h, t)
  <2> SUFFICES ASSUME NEW t \in D PROVE Base(g, t) = Base(h, t)
    OBVIOUS
  <2>1. h.street[t] \in Nat /\ h.total[t] \in Nat
    BY <1>1
  <2>2. CASE t = s
    BY <1>5, <2>1, <2>2 DEF Base
  <2>3. CASE t # s
    BY <1>6, <2>3 DEF Base
  <2> QED BY <2>2, <2>3
<1>18. Even(g)
  <2> SUFFICES ASSUME NEW x \in Live(g), NEW y \in Live(g) \cup Owners(g)
      PROVE  Base(g, y) >= Base(g, x) - 1
    BY DEF Even
  <2>1. x \in Live(h) /\ y \in Live(h) \cup Owners(h)
    BY <1>15, <1>16
  <2>2. x \in D /\ y \in D
    BY <2>1 DEF Live, Owners, Eligible, D
  <2> QED BY <1>9, <1>17, <2>1, <2>2 DEF Even
<1>19. Covered(g)
  <2> SUFFICES ASSUME NEW f \in D \ Eligible(h)
      PROVE  \E e \in Eligible(h) : g.total[e] >= g.total[f]
    BY <1>4, <1>8 DEF Covered
  <2>1. PICK e \in Eligible(h) : h.total[e] >= h.total[f]
    BY <1>9 DEF Covered, D
  <2>2. e \in D /\ f # s
    BY <1>13 DEF Eligible, D
  <2>3. h.total[e] \in Nat /\ h.total[f] \in Nat /\ g.total[f] = h.total[f]
    BY <1>1, <1>6, <2>2
  <2>4. g.total[e] >= h.total[e]
    <3>1. CASE e = s
      BY <1>5, <2>3, <3>1
    <3>2. CASE e # s
      BY <1>6, <2>2, <2>3, <3>2
    <3> QED BY <3>1, <3>2
  <2>5. g.total[e] \in Nat
    BY <1>7, <2>2
  <2>6. g.total[e] >= g.total[f]
    BY <2>1, <2>3, <2>4, <2>5
  <2> QED BY <2>6
<1>20. Unpaid(g)
  BY <1>3, <1>4, <1>9 DEF Unpaid, Zero, D
<1>21. Spent(g)
  <2> SUFFICES ASSUME NEW t \in D, g.part[t] = "AllIn" PROVE g.stack[t] = 0
    BY <1>4 DEF Spent
  <2>1. CASE t = s
    <3>1. h.stack[s] = a
      BY <1>2, <1>3, <2>1
    <3> QED BY <1>1, <1>2, <1>5, <2>1, <3>1
  <2>2. CASE t # s
    BY <1>6, <1>9, <2>2 DEF Spent, D
  <2> QED BY <2>1, <2>2
<1> QED BY <1>10, <1>11, <1>12, <1>14, <1>18, <1>19, <1>20, <1>21 DEF Stakes

(* Who folds owes something, so another seat has put in at least as much. *)
LEMMA FoldStaked ==
  ASSUME NEW h, Shape(h), Chips(h), Stakes(h), Honoured(h),
         NEW s \in Live(h), h.street[s] < h.wager,
         NEW g, g = [h EXCEPT !.part[s] = "Folded"]
  PROVE  Stakes(g) /\ g.deal = h.deal /\ Answering(g, s)
<1> DEFINE D == Occupied(h)
<1>1. /\ h.stack \in [D -> Nat] /\ h.street \in [D -> Nat]
      /\ h.total \in [D -> Nat] /\ h.part \in [D -> {"Live", "Folded", "AllIn"}] /\ h.wager \in Nat
  BY DEF Chips, Stakes, Typed
<1>2. s \in D
  BY DEF Live
<1>3. /\ g.part = [h.part EXCEPT ![s] = "Folded"]
      /\ g.stack = h.stack /\ g.street = h.street /\ g.total = h.total /\ g.wager = h.wager
      /\ g.button = h.button /\ g.initial = h.initial /\ g.deal = h.deal
      /\ g.returned = h.returned /\ g.last = h.last
  BY DEF Shape, Fields
<1>4. Occupied(g) = D
  BY <1>3 DEF Occupied
<1>5. g.part[s] = "Folded" /\ \A t \in D \ {s} : g.part[t] = h.part[t]
  BY <1>1, <1>2, <1>3
<1>6. Eligible(g) = Eligible(h) \ {s}
  BY <1>4, <1>5 DEF Eligible
<1>7. Live(g) \subseteq Live(h)
  BY <1>3, <1>4, <1>5 DEF Live, CanAct
<1>8. /\ Typed(h) /\ Unpaid(h) /\ Balanced(h) /\ Level(h) /\ Owned(h)
      /\ Even(h) /\ Covered(h) /\ Spent(h)
  BY DEF Stakes
<1>9. h.street[s] \in Nat /\ h.total[s] \in Nat
  BY <1>1, <1>2
<1>10. h.wager > 0
  BY <1>1, <1>9
<1>11. PICK w \in Owners(h) : TRUE
  BY <1>8, <1>10 DEF Owned
<1>12. w \in Eligible(h) /\ h.street[w] = h.wager /\ w \in D
  BY <1>11 DEF Owners, Eligible
<1>13. w # s
  BY <1>1, <1>9, <1>12
<1>14. h.total[w] \in Nat /\ h.total[w] >= h.total[s]
  <2>1. h.total[w] - h.street[w] >= h.total[s] - h.street[s] - 1
    BY <1>8, <1>11 DEF Even, Base
  <2>2. h.total[w] \in Nat
    BY <1>1, <1>12
  <2> QED BY <1>1, <1>9, <1>12, <2>1, <2>2
<1>15. Typed(g) /\ Balanced(g) /\ Level(g)
  BY <1>3, <1>4, <1>8 DEF Typed, Balanced, Level
<1>16. Owners(g) \subseteq Owners(h) /\ w \in Owners(g)
  BY <1>3, <1>6, <1>10, <1>12, <1>13 DEF Owners
<1>17. Owned(g)
  BY <1>16 DEF Owned
<1>18. Even(g)
  <2> SUFFICES ASSUME NEW x \in Live(g), NEW y \in Live(g) \cup Owners(g)
      PROVE  Base(g, y) >= Base(g, x) - 1
    BY DEF Even
  <2>1. x \in Live(h) /\ y \in Live(h) \cup Owners(h)
    BY <1>7, <1>16
  <2>2. Base(g, x) = Base(h, x) /\ Base(g, y) = Base(h, y)
    BY <1>3 DEF Base
  <2> QED BY <1>8, <2>1, <2>2 DEF Even
<1>19. Covered(g)
  <2> SUFFICES ASSUME NEW f \in D, f \notin Eligible(h) \/ f = s
      PROVE  \E e \in Eligible(h) \ {s} : h.total[e] >= h.total[f]
    BY <1>3, <1>4, <1>6 DEF Covered
  <2>1. CASE f = s
    BY <1>12, <1>13, <1>14, <2>1
  <2>2. CASE f # s
    <3>1. PICK e \in Eligible(h) : h.total[e] >= h.total[f]
      BY <1>8, <2>2 DEF Covered
    <3>2. CASE e # s
      BY <3>1, <3>2
    <3>3. CASE e = s
      <4>1. h.total[f] \in Nat
        BY <1>1
      <4>2. h.total[w] >= h.total[f]
        BY <1>9, <1>14, <3>1, <3>3, <4>1
      <4> QED BY <1>12, <1>13, <4>2
    <3> QED BY <3>2, <3>3
  <2> QED BY <2>1, <2>2
<1>20. Unpaid(g)
  BY <1>3, <1>4, <1>8 DEF Unpaid, Zero
<1>21. Spent(g)
  <2> SUFFICES ASSUME NEW t \in D, g.part[t] = "AllIn" PROVE h.stack[t] = 0
    BY <1>3, <1>4 DEF Spent
  <2>1. h.part[t] = "AllIn"
    BY <1>5
  <2> QED BY <1>8, <2>1 DEF Spent
<1>22. Answering(g, s)
  <2>1. s \notin Live(g)
    BY <1>5 DEF Live, CanAct
  <2> QED BY <1>3, <1>7, <2>1 DEF Answering, Honoured
<1> QED BY <1>3, <1>15, <1>17, <1>18, <1>19, <1>20, <1>21, <1>22 DEF Stakes

(* g has the chips of c and the wager that seat s has set or matched. *)
Wagered(c, g, wager) ==
  /\ g.stack = c.stack /\ g.street = c.street /\ g.total = c.total /\ g.part = c.part
  /\ g.deal = c.deal /\ g.last = c.last /\ g.board = c.board /\ Kept(c, g)
  /\ g.wager = wager

(* What the assignments after a payment leave alone. *)
LEMMA AllInWagered ==
  ASSUME NEW c, Shape(c), NEW wager, NEW raise, NEW g, g = [c EXCEPT !.wager = wager, !.raise = raise]
  PROVE  Wagered(c, g, wager)
BY DEF Shape, Fields, Wagered, Kept

(* A bet or a raise is to its target. *)
LEMMA RaiseWagered ==
  ASSUME NEW c, Shape(c), NEW wager, NEW raise, NEW aggressor,
         NEW g, g = [c EXCEPT !.wager = wager, !.raise = raise, !.aggressor = aggressor]
  PROVE  Wagered(c, g, wager)
BY DEF Shape, Fields, Wagered, Kept

(* A call, a bet, a raise and an all-in. *)
LEMMA WageredStaked ==
  ASSUME NEW h, InBetting(h), Stakes(h), h.deal = NoDeal, Honoured(h), NEW s \in Live(h), NEW r \in Nat,
         NEW a, a = IF r <= h.stack[s] THEN r ELSE h.stack[s],
         NEW c, c = Commit(h, s, r),
         NEW wager \in Nat, wager >= h.wager, h.street[s] + a <= wager,
         wager = h.wager \/ wager = h.street[s] + a,
         a < h.stack[s] => h.street[s] + a = wager,
         NeedsAction(h, s),
         NEW g, InBetting(g), Wagered(c, g, wager),
         NEW k, k = Acted(g, s)
  PROVE  Worth(k) /\ Advances(h, k)
<1>1. Shape(h) /\ Chips(h)
  BY DEF InBetting
<1>2. s \in Occupied(h)
  BY DEF Live
<1>3. a \in Nat /\ a <= h.stack[s] /\ Pays(h, c, s, a)
  BY <1>1, <1>2, CommitPays
<1>4. Pays(h, g, s, a) /\ g.deal = h.deal
  BY <1>3 DEF Pays, Wagered, Kept
<1>5. g.wager = wager
  BY DEF Wagered
<1>6. Stakes(g)
  BY <1>1, <1>3, <1>4, <1>5, PaymentStaked
<1>7. s \in Occupied(g)
  <2>1. DOMAIN g.stack = DOMAIN h.stack
    BY <1>4 DEF Pays
  <2> QED BY <1>2, <2>1 DEF Occupied
<1>8. Answering(g, s)
  <2>1. /\ h.stack \in [Occupied(h) -> Nat] /\ h.street \in [Occupied(h) -> Nat] /\ h.wager \in Nat
        /\ h.part \in [Occupied(h) -> {"Live", "Folded", "AllIn"}]
        /\ \A t \in Occupied(h) : h.last[t] \in Nat \cup {NoWager} /\ h.last[t] <= h.wager
    BY <1>1 DEF Chips
  <2>2. /\ g.stack = [h.stack EXCEPT ![s] = @ - a] /\ g.street = [h.street EXCEPT ![s] = @ + a]
        /\ g.part = IF h.stack[s] = a THEN [h.part EXCEPT ![s] = "AllIn"] ELSE h.part
        /\ g.last = h.last
    BY <1>4 DEF Pays
  <2>3. Occupied(g) = Occupied(h)
    BY <2>2 DEF Occupied
  <2>4. ASSUME NEW t \in Live(g) \ {s}, g.last[t] = g.wager PROVE g.street[t] = g.wager
    <3>1. t \in Occupied(h) /\ g.stack[t] = h.stack[t] /\ g.street[t] = h.street[t]
      BY <2>1, <2>2, <2>3 DEF Live
    <3>2. g.part[t] = h.part[t]
      BY <2>1, <2>2, <3>1
    <3>3. t \in Live(h)
      BY <3>1, <3>2 DEF Live, CanAct
    <3>4. h.last[t] = wager /\ wager = h.wager
      BY <1>5, <2>1, <2>2, <2>4, <3>1 DEF NoWager
    <3> QED BY <1>5, <3>1, <3>3, <3>4 DEF Honoured
  <2>5. ASSUME s \in Live(g) PROVE g.street[s] = g.wager
    <3>1. g.stack[s] > 0 /\ g.stack[s] = h.stack[s] - a /\ g.street[s] = h.street[s] + a
      BY <1>2, <2>1, <2>2, <2>5 DEF Live, CanAct
    <3>2. a < h.stack[s]
      BY <1>2, <1>3, <2>1, <3>1
    <3> QED BY <1>5, <3>1, <3>2
  <2> QED BY <2>4, <2>5 DEF Answering
<1>9. Live(g) \subseteq Live(h)
  <2>1. Chips(h) /\ g.stack = [h.stack EXCEPT ![s] = @ - a]
        /\ g.part = IF h.stack[s] = a THEN [h.part EXCEPT ![s] = "AllIn"] ELSE h.part
    BY <1>1, <1>4 DEF Pays
  <2> SUFFICES ASSUME NEW t \in Live(g), t # s PROVE t \in Live(h)
    OBVIOUS
  <2>2. t \in Occupied(h) /\ g.stack[t] = h.stack[t] /\ g.part[t] = h.part[t]
    BY <2>1 DEF Chips, Live, Occupied
  <2> QED BY <2>2 DEF Live, CanAct
<1>10. g.board = h.board /\ g.last = h.last /\ g.wager >= h.wager
  BY <1>4, <1>5 DEF Pays
<1>11. Advances(h, k)
  BY <1>7, <1>9, <1>10, ActedAdvances
<1> QED BY <1>4, <1>6, <1>7, <1>8, <1>11, ActedStaked

(* The seat to act can act, and has bet no more than the wager. *)
LEMMA ActorStakes ==
  ASSUME HandInv, Worth(hand), NEW s \in Occupied(hand), ToAct(s)
  PROVE  /\ InBetting(hand) /\ Stakes(hand) /\ hand.deal = NoDeal /\ s \in Live(hand)
         /\ hand.street[s] \in Nat /\ hand.stack[s] \in Nat /\ hand.wager \in Nat
         /\ hand.raise \in Nat /\ hand.blinds.bb \in Nat \ {0} /\ hand.street[s] <= hand.wager
         /\ Honoured(hand) /\ NeedsAction(hand, s)
<1>1. InBetting(hand)
  BY ActorBets
<1>2. ~ Settled(hand) /\ hand.progress.active = FALSE
  BY <1>1 DEF InBetting, BoardFits, Settled
<1>3. Stakes(hand) /\ hand.deal = NoDeal /\ Honoured(hand) /\ Turn(hand)
  BY <1>2 DEF Worth
<1>4. s \in Live(hand)
  BY DEF ToAct, Live
<1>5. /\ hand.street[s] \in Nat /\ hand.stack[s] \in Nat /\ hand.wager \in Nat
      /\ hand.raise \in Nat /\ hand.blinds.bb \in Nat \ {0}
  BY <1>1 DEF InBetting, Chips
<1>6. hand.street[s] <= hand.wager
  BY <1>3 DEF Stakes, Level
<1>7. NeedsAction(hand, s)
  BY <1>3 DEF ToAct, Turn
<1> QED BY <1>1, <1>3, <1>4, <1>5, <1>6, <1>7

(* A bet or a raise to a total of target. *)
LEMMA WagerToStaked ==
  ASSUME HandInv, Worth(hand), NEW s \in Occupied(hand), ToAct(s),
         NEW target \in Nat, target >= hand.wager, target < AllInTo(hand, s),
         NEW k, k = Acted(WagerTo(s, target), s)
  PROVE  Worth(k) /\ Advances(hand, k)
<1>1. /\ InBetting(hand) /\ Stakes(hand) /\ hand.deal = NoDeal /\ s \in Live(hand)
      /\ hand.street[s] \in Nat /\ hand.stack[s] \in Nat /\ hand.wager \in Nat
      /\ hand.street[s] <= hand.wager /\ Honoured(hand) /\ NeedsAction(hand, s)
  BY ActorStakes
<1>2. PICK r, c : r = target - hand.street[s] /\ c = Commit(hand, s, r)
  OBVIOUS
<1>3. r \in Nat /\ r <= hand.stack[s] /\ hand.street[s] + r = target
  BY <1>1, <1>2 DEF AllInTo
<1>4. PICK g, raise, aggressor :
        /\ g = [c EXCEPT !.wager = target, !.raise = raise, !.aggressor = aggressor]
        /\ raise = target - hand.wager
        /\ k = Acted(g, s)
  BY <1>2 DEF WagerTo
<1>5. raise \in Nat
  BY <1>1, <1>4
<1>6. InBetting(c) /\ c.wager = hand.wager
  <2>1. r \in Int /\ hand.street[s] + r \in Nat
    BY <1>3
  <2> QED BY <1>1, <1>2, <2>1, CommitKeeps
<1>7. Shape(c)
  BY <1>6 DEF InBetting
<1>8. Wagers(c, g, target, raise) /\ Wagered(c, g, target)
  BY <1>4, <1>7, RaiseFields, RaiseWagered
<1>9. InBetting(g)
  BY <1>5, <1>6, <1>8, WagerKeeps
<1>10. /\ r = IF r <= hand.stack[s] THEN r ELSE hand.stack[s]
       /\ hand.street[s] + r <= target
  BY <1>3
<1> QED BY <1>1, <1>2, <1>3, <1>4, <1>8, <1>9, <1>10, WageredStaked

(* All the chips of a seat. *)
LEMMA AllInStaked ==
  ASSUME HandInv, Worth(hand), NEW s \in Occupied(hand), AllIn(s)
  PROVE  Worth(hand') /\ Advances(hand, hand')
<1> DEFINE target == AllInTo(hand, s)
           stack == hand.stack[s]
<1>1. ToAct(s)
  BY DEF AllIn
<1>2. /\ InBetting(hand) /\ Stakes(hand) /\ hand.deal = NoDeal /\ s \in Live(hand)
      /\ hand.street[s] \in Nat /\ stack \in Nat /\ hand.wager \in Nat /\ hand.raise \in Nat
      /\ hand.street[s] <= hand.wager /\ Honoured(hand) /\ NeedsAction(hand, s)
  BY <1>1, ActorStakes
<1>3. target = hand.street[s] + stack /\ target \in Nat
  BY <1>2 DEF AllInTo
<1>4. PICK full : full = (target > hand.wager /\ IsFullRaise(hand, target))
  OBVIOUS
<1>5. PICK c : c = Commit(hand, s, stack)
  OBVIOUS
<1>6. InBetting(c) /\ c.wager = hand.wager /\ c.raise = hand.raise
  <2>1. stack \in Int /\ hand.street[s] + stack \in Nat
    BY <1>2
  <2> QED BY <1>2, <1>5, <2>1, CommitKeeps
<1>7. PICK wager, raise : /\ wager = Max({hand.wager, target})
                          /\ raise = IF full THEN target - hand.wager ELSE hand.raise
  OBVIOUS
<1>8. PICK g : g = [c EXCEPT !.wager = wager, !.raise = raise]
  OBVIOUS
<1>9. hand' = Acted(g, s)
  BY <1>4, <1>5, <1>6, <1>7, <1>8 DEF AllIn
<1> HIDE DEF target
<1>10. wager = IF hand.wager >= target THEN hand.wager ELSE target
  BY <1>2, <1>3, <1>7, MaxOfTwo
<1>11. full => target > hand.wager
  BY <1>4
<1>12. raise \in Nat
  <2>1. CASE full
    BY <1>2, <1>3, <1>7, <1>11, <2>1
  <2>2. CASE ~ full
    BY <1>2, <1>7, <2>2
  <2> QED BY <2>1, <2>2
<1>13. /\ wager \in Nat /\ wager >= hand.wager /\ target <= wager
       /\ wager = hand.wager \/ wager = target
  BY <1>2, <1>3, <1>10
<1>14. Shape(c)
  BY <1>6 DEF InBetting
<1>15. Wagers(c, g, wager, raise) /\ Wagered(c, g, wager)
  BY <1>8, <1>14, AllInFields, AllInWagered
<1>16. InBetting(g)
  BY <1>6, <1>12, <1>13, <1>15, WagerKeeps
<1>17. /\ stack = IF stack <= hand.stack[s] THEN stack ELSE hand.stack[s]
       /\ ~ (stack < hand.stack[s])
  BY <1>2
<1>18. PICK k : k = hand'
  OBVIOUS
<1>19. Worth(k) /\ Advances(hand, k)
  BY <1>2, <1>3, <1>5, <1>9, <1>13, <1>15, <1>16, <1>17, <1>18, WageredStaked
<1> QED BY <1>18, <1>19

(* The six actions. *)
LEMMA ActWorth ==
  ASSUME HandInv, Worth(hand), NEW s \in Occupied(hand),
         Fold(s) \/ Check(s) \/ Call(s) \/ Bet(s) \/ Raise(s) \/ AllIn(s)
  PROVE  Worth(hand') /\ Advances(hand, hand')
<1> DEFINE street == hand.street[s]
           stack  == hand.stack[s]
<1>1. ToAct(s)
  BY DEF Fold, Check, Call, Bet, Raise, AllIn
<1>2. /\ InBetting(hand) /\ Stakes(hand) /\ hand.deal = NoDeal /\ s \in Live(hand)
      /\ street \in Nat /\ stack \in Nat /\ hand.wager \in Nat /\ hand.raise \in Nat
      /\ hand.blinds.bb \in Nat /\ street <= hand.wager /\ Honoured(hand) /\ NeedsAction(hand, s)
  BY <1>1, ActorStakes
<1>3. PICK k : k = hand'
  OBVIOUS
<1>4. ToCall(hand, s) = hand.wager - street
  <2>1. hand.wager - street \in Nat
    BY <1>2
  <2> HIDE DEF street
  <2>2. Max({0, hand.wager - street}) = hand.wager - street
    BY <2>1, MaxOfTwo
  <2> QED BY <2>2 DEF ToCall, street
<1>5. CASE Fold(s)
  <2>1. PICK g : g = [hand EXCEPT !.part[s] = "Folded"] /\ k = Acted(g, s)
    BY <1>3, <1>5 DEF Fold
  <2>2. street < hand.wager
    BY <1>2, <1>4, <1>5 DEF Fold, MayFold
  <2>3. Stakes(g) /\ g.deal = NoDeal /\ Answering(g, s)
    BY <1>2, <2>1, <2>2, FoldStaked DEF InBetting
  <2>4. InBetting(g) /\ s \in Occupied(g)
    BY <1>2, <2>1, FoldAnswers DEF Answer
  <2>5. Worth(k)
    BY <2>1, <2>3, <2>4, ActedStaked
  <2>6. g.board = hand.board /\ g.last = hand.last /\ g.wager = hand.wager /\ g.stack = hand.stack
        /\ g.part = [hand.part EXCEPT ![s] = "Folded"]
    BY <1>2, <2>1 DEF InBetting, Shape, Fields
  <2>7. Live(g) \subseteq Live(hand)
    <3> SUFFICES ASSUME NEW t \in Live(g), t # s PROVE t \in Live(hand)
      BY <1>2
    <3>1. t \in Occupied(hand) /\ g.part[t] = hand.part[t]
      BY <1>2, <2>6 DEF Live, Occupied, InBetting, Chips
    <3> QED BY <2>6, <3>1 DEF Live, CanAct
  <2>8. g.wager >= hand.wager
    BY <1>2, <2>6
  <2>9. Advances(hand, k)
    BY <1>2, <2>1, <2>4, <2>6, <2>7, <2>8, ActedAdvances
  <2> QED BY <1>3, <2>5, <2>9
<1>6. CASE Check(s)
  <2>1. k = Acted(hand, s)
    BY <1>3, <1>6 DEF Check
  <2>2. street = hand.wager
    BY <1>2, <1>4, <1>6 DEF Check, MayCheck
  <2>3. Answering(hand, s)
    BY <1>2, <2>2 DEF Answering, Honoured
  <2>4. Worth(k)
    BY <1>2, <2>1, <2>3, ActedStaked
  <2>5. hand.wager >= hand.wager
    BY <1>2
  <2>6. Advances(hand, k)
    BY <1>2, <2>1, <2>5, ActedAdvances
  <2> QED BY <1>3, <2>4, <2>6
<1>7. CASE Call(s)
  <2>1. PICK r, g : r = ToCall(hand, s) /\ g = Commit(hand, s, r) /\ k = Acted(g, s)
    BY <1>3, <1>7 DEF Call
  <2>2. r \in Nat /\ r <= stack /\ street + r = hand.wager
    BY <1>2, <1>4, <1>7, <2>1 DEF Call, MayCall
  <2>3. InBetting(g) /\ g.wager = hand.wager
    <3>1. r \in Int /\ hand.street[s] + r \in Nat
      BY <1>2, <2>2
    <3> QED BY <1>2, <2>1, <3>1, CommitKeeps
  <2>4. Wagered(g, g, hand.wager)
    BY <2>3 DEF Wagered, Kept
  <2>5. /\ r = IF r <= hand.stack[s] THEN r ELSE hand.stack[s]
        /\ hand.street[s] + r <= hand.wager /\ hand.wager >= hand.wager
    BY <1>2, <2>2
  <2>6. Worth(k) /\ Advances(hand, k)
    BY <1>2, <2>1, <2>2, <2>3, <2>4, <2>5, WageredStaked
  <2> QED BY <1>3, <2>6
<1>8. CASE Bet(s)
  <2>1. PICK target \in hand.blinds.bb .. AllInTo(hand, s) - 1 :
          MayBet(hand, s, target) /\ k = Acted(WagerTo(s, target), s)
    BY <1>3, <1>8 DEF Bet
  <2>2. target \in Nat /\ target >= hand.wager /\ target < AllInTo(hand, s)
    BY <1>2, <2>1 DEF MayBet, AllInTo
  <2>3. Worth(k) /\ Advances(hand, k)
    BY <1>1, <2>1, <2>2, WagerToStaked
  <2> QED BY <1>3, <2>3
<1>9. CASE Raise(s)
  <2>1. PICK target \in hand.wager + hand.raise .. AllInTo(hand, s) - 1 :
          MayRaise(hand, s, target) /\ k = Acted(WagerTo(s, target), s)
    BY <1>3, <1>9 DEF Raise
  <2>2. target \in Nat /\ target >= hand.wager /\ target < AllInTo(hand, s)
    BY <1>2, <2>1 DEF AllInTo
  <2>3. Worth(k) /\ Advances(hand, k)
    BY <1>1, <2>1, <2>2, WagerToStaked
  <2> QED BY <1>3, <2>3
<1>10. CASE AllIn(s)
  BY <1>10, AllInStaked
<1> QED BY <1>5, <1>6, <1>7, <1>8, <1>9, <1>10

(* The preference of a player moves no chip. *)
LEMMA PreferenceWorth ==
  ASSUME HandInv, Worth(hand), NEW s \in Showers, SetAlwaysShow(s)
  PROVE  Worth(hand')
<1>1. InBetting(hand)
  BY DEF HandInv, Sound, SetAlwaysShow, InShowdown, Over, Settled, AcceptsActions
<1>2. Stakes(hand) /\ hand.deal = NoDeal /\ Turn(hand) /\ Honoured(hand)
  BY <1>1 DEF InBetting, BoardFits, Settled, Worth
<1>3. PICK shown, k : k = [hand EXCEPT !.alwaysShow = shown] /\ k = hand'
  BY DEF SetAlwaysShow
<1>4. /\ SameStakes(hand, k) /\ k.deal = hand.deal /\ k.phase = hand.phase
      /\ k.progress = hand.progress /\ k.last = hand.last /\ k.toAct = hand.toAct
  BY <1>1, <1>3 DEF InBetting, Shape, Fields, SameStakes, Kept
<1>5. Stakes(k)
  BY <1>2, <1>4, StakesSame
<1>7. Turn(k) /\ Honoured(k)
  BY <1>2, <1>4 DEF Turn, Honoured, NeedsAction, Live, CanAct, Occupied, SameStakes
<1>6. Worth(k)
  BY <1>1, <1>2, <1>4, <1>5, <1>7 DEF InBetting, BoardFits, Settled, Worth
<1> QED BY <1>3, <1>6

(* A step of the showdown. *)
LEMMA ShowdownWorth ==
  ASSUME HandInv, Worth(hand), AdvanceShowdown
  PROVE  Worth(hand') /\ Advances(hand, hand')
<1>1. InShowdown(hand)
  BY DEF HandInv, Sound, AdvanceShowdown, InBetting, Over
<1>2. PICK k : k = hand'
  OBVIOUS
<1>3. Cardinality(Eligible(hand)) # 1
  BY <1>1 DEF InShowdown
<1>4. CASE hand.progress.allIn /\ hand.board < 5
  <2>1. k = RunOut(hand)
    BY <1>2, <1>3, <1>4 DEF AdvanceShowdown
  <2>2. Worth(k)
    BY <1>1, <1>4, <2>1, RunOutStaked
  <2>3. k.board > hand.board
    <3>1. k.board = IF hand.board = 0 THEN 3 ELSE hand.board + 1
      BY <1>1, <2>1 DEF RunOut, InShowdown, Shape, Fields
    <3>2. hand.board \in {0, 3, 4, 5}
      BY <1>1 DEF InShowdown, BoardFits
    <3> QED BY <3>1, <3>2
  <2> QED BY <1>2, <2>2, <2>3 DEF Advances
<1>5. CASE ~ (hand.progress.allIn /\ hand.board < 5)
  <2>1. PICK deal \in IF hand.deal = NoDeal THEN [Eligible(hand) -> Strengths] ELSE {hand.deal} :
          k = TableNextHand(hand, deal)
    BY <1>2, <1>3, <1>5 DEF AdvanceShowdown
  <2>2. hand.deal = NoDeal \/ hand.deal \in [Eligible(hand) -> Strengths]
    BY <1>1 DEF InShowdown, BoardFits, Settled, Worth, Showing
  <2>3. deal \in [Eligible(hand) -> Strengths] /\ (hand.deal = NoDeal \/ deal = hand.deal)
    BY <2>1, <2>2
  <2>4. Worth(k) /\ Advances(hand, k)
    BY <1>1, <2>1, <2>3, TabledStaked
  <2> QED BY <1>2, <2>4
<1> QED BY <1>4, <1>5

-----------------------------------------------------------------------------
(* Lemmas about what a hand is worth when it is dealt. *)

(* While antes, blinds and forced posts are put in: what a seat has put in
   dead is at most high, and at least low unless that left it with nothing. *)
Postable(h, low, high) ==
  /\ Typed(h) /\ Unpaid(h) /\ Balanced(h) /\ Spent(h)
  /\ Eligible(h) = Occupied(h) /\ h.deal = NoDeal
  /\ \A s \in Occupied(h) : /\ h.last[s] = NoWager
                            /\ h.street[s] <= h.total[s]
                            /\ Base(h, s) <= high
                            /\ h.stack[s] > 0 \/ h.street[s] > 0 => Base(h, s) >= low

(* g is h after every seat has paid. *)
Posts(h, g, paid) ==
  /\ Occupied(g) = Occupied(h) /\ Kept(h, g) /\ g.deal = h.deal /\ g.last = h.last
  /\ g.total = [t \in Occupied(h) |-> g.total[t]]
  /\ \A s \in Occupied(h) :
       /\ paid[s] \in Nat /\ paid[s] <= h.stack[s]
       /\ g.stack[s] = h.stack[s] - paid[s] /\ g.total[s] = h.total[s] + paid[s]
       /\ g.part[s] = h.part[s] \/ (g.part[s] = "AllIn" /\ paid[s] = h.stack[s])

(* Payments add up and leave everybody in the hand. *)
LEMMA PostsKeep ==
  ASSUME NEW h, Chips(h), NEW low, NEW high, Postable(h, low, high),
         NEW g, Chips(g), NEW paid, Posts(h, g, paid)
  PROVE  /\ Typed(g) /\ Unpaid(g) /\ Balanced(g) /\ Spent(g)
         /\ Eligible(g) = Occupied(g) /\ g.deal = NoDeal
         /\ \A s \in Occupied(g) : g.last[s] = NoWager
<1> DEFINE D == Occupied(h)
<1>1. /\ D \subseteq Seats /\ D # {} /\ h.stack \in [D -> Nat] /\ h.total \in [D -> Nat]
      /\ Balanced(h) /\ Eligible(h) = D /\ h.deal = NoDeal /\ h.button \in Seats
      /\ \A s \in D : h.last[s] = NoWager
      /\ Several(D) /\ Unpaid(h) /\ Spent(h)
  BY DEF Chips, Postable, Typed
<1>2. /\ Occupied(g) = D /\ g.button = h.button /\ g.initial = h.initial /\ g.deal = h.deal
      /\ g.returned = h.returned /\ g.last = h.last
      /\ \A s \in D : /\ paid[s] \in Nat /\ paid[s] <= h.stack[s]
                      /\ g.stack[s] = h.stack[s] - paid[s] /\ g.total[s] = h.total[s] + paid[s]
                      /\ g.part[s] = h.part[s] \/ (g.part[s] = "AllIn" /\ paid[s] = h.stack[s])
  BY DEF Posts, Kept
<1>3. g.total \in [D -> Nat]
  <2>1. \A s \in D : g.total[s] \in Nat
    BY <1>1, <1>2
  <2>2. g.total = [t \in D |-> g.total[t]]
    BY <1>1 DEF Posts
  <2> QED BY <2>1, <2>2
<1>4. g.stack \in [D -> Nat]
  BY <1>2 DEF Chips
<1>5. Balanced(g)
  <2>1. /\ h.stack \in [D -> Int] /\ h.total \in [D -> Int]
        /\ g.stack \in [D -> Int] /\ g.total \in [D -> Int]
    BY <1>1, <1>3, <1>4
  <2>2. \A s \in D : g.stack[s] + g.total[s] = h.stack[s] + h.total[s]
    <3> SUFFICES ASSUME NEW s \in D PROVE g.stack[s] + g.total[s] = h.stack[s] + h.total[s]
      OBVIOUS
    <3>1. /\ h.stack[s] \in Nat /\ h.total[s] \in Nat /\ paid[s] \in Nat
          /\ g.stack[s] = h.stack[s] - paid[s] /\ g.total[s] = h.total[s] + paid[s]
      BY <1>1, <1>2
    <3> QED BY <3>1
  <2>3. IsFiniteSet(D)
    BY <1>1, SeatsFinite
  <2> QED BY <1>1, <1>2, <2>1, <2>2, <2>3, BalanceKept
<1>6. Eligible(g) = D
  <2>1. \A s \in D : h.part[s] \in {"Live", "AllIn"}
    BY <1>1 DEF Eligible
  <2>2. \A s \in D : g.part[s] \in {"Live", "AllIn"}
    BY <1>2, <2>1
  <2> QED BY <1>2, <2>2 DEF Eligible
<1>7. Unpaid(g)
  BY <1>1, <1>2 DEF Unpaid, Zero
<1>8. Spent(g)
  <2> SUFFICES ASSUME NEW s \in D, g.part[s] = "AllIn" PROVE g.stack[s] = 0
    BY <1>2 DEF Spent
  <2>1. /\ h.stack[s] \in Nat /\ paid[s] \in Nat /\ paid[s] <= h.stack[s]
        /\ g.stack[s] = h.stack[s] - paid[s]
    BY <1>1, <1>2
  <2>2. h.stack[s] = 0 \/ paid[s] = h.stack[s]
    BY <1>1, <1>2 DEF Spent
  <2> QED BY <2>1, <2>2
<1>9. Typed(g)
  BY <1>1, <1>2, <1>3 DEF Typed
<1> QED BY <1>1, <1>2, <1>5, <1>6, <1>7, <1>8, <1>9

(* Bets are not dead. *)
LEMMA LivePosts ==
  ASSUME NEW h, Chips(h), NEW low \in Nat, NEW high \in Nat, Postable(h, low, high),
         NEW g, Chips(g), NEW paid, Posts(h, g, paid),
         \A s \in Occupied(h) : g.street[s] = h.street[s] + paid[s]
  PROVE  Postable(g, low, high)
<1>1. /\ Typed(g) /\ Unpaid(g) /\ Balanced(g) /\ Spent(g)
      /\ Eligible(g) = Occupied(g) /\ g.deal = NoDeal
      /\ \A s \in Occupied(g) : g.last[s] = NoWager
  BY PostsKeep
<1>2. ASSUME NEW s \in Occupied(h)
      PROVE  /\ g.street[s] <= g.total[s] /\ Base(g, s) <= high
             /\ g.stack[s] > 0 \/ g.street[s] > 0 => Base(g, s) >= low
  <2>1. /\ h.stack[s] \in Nat /\ h.street[s] \in Nat /\ h.total[s] \in Nat
    BY DEF Chips, Postable, Typed
  <2>2. /\ paid[s] \in Nat /\ paid[s] <= h.stack[s] /\ g.street[s] = h.street[s] + paid[s]
        /\ g.stack[s] = h.stack[s] - paid[s] /\ g.total[s] = h.total[s] + paid[s]
    BY DEF Posts
  <2>3. /\ h.street[s] <= h.total[s] /\ h.total[s] - h.street[s] <= high
        /\ h.stack[s] > 0 \/ h.street[s] > 0 => h.total[s] - h.street[s] >= low
    BY DEF Postable, Base
  <2>4. g.street[s] <= g.total[s] /\ g.total[s] - g.street[s] = h.total[s] - h.street[s]
    BY SMTT(40), <2>1, <2>2, <2>3
  <2>5. g.stack[s] > 0 \/ g.street[s] > 0 => h.stack[s] > 0 \/ h.street[s] > 0
    BY <2>1, <2>2
  <2> QED BY <2>3, <2>4, <2>5 DEF Base
<1>3. Occupied(g) = Occupied(h)
  BY DEF Posts
<1> QED BY <1>1, <1>2, <1>3 DEF Postable

(* Dead chips are. *)
LEMMA DeadPosts ==
  ASSUME NEW h, Chips(h), NEW low \in Nat, NEW high \in Nat, Postable(h, low, high),
         NEW least \in Nat, NEW most \in Nat,
         least = 0 \/ \A s \in Occupied(h) : h.street[s] = 0,
         NEW g, Chips(g), NEW paid, Posts(h, g, paid),
         \A s \in Occupied(h) : /\ g.street[s] = h.street[s] /\ paid[s] <= most
                                /\ paid[s] < h.stack[s] => paid[s] >= least
  PROVE  Postable(g, low + least, high + most)
<1>1. /\ Typed(g) /\ Unpaid(g) /\ Balanced(g) /\ Spent(g)
      /\ Eligible(g) = Occupied(g) /\ g.deal = NoDeal
      /\ \A s \in Occupied(g) : g.last[s] = NoWager
  BY PostsKeep
<1>2. ASSUME NEW s \in Occupied(h)
      PROVE  /\ g.street[s] <= g.total[s] /\ Base(g, s) <= high + most
             /\ g.stack[s] > 0 \/ g.street[s] > 0 => Base(g, s) >= low + least
  <2>1. /\ h.stack[s] \in Nat /\ h.street[s] \in Nat /\ h.total[s] \in Nat
    BY DEF Chips, Postable, Typed
  <2>2. /\ paid[s] \in Nat /\ paid[s] <= h.stack[s] /\ g.street[s] = h.street[s]
        /\ g.stack[s] = h.stack[s] - paid[s] /\ g.total[s] = h.total[s] + paid[s]
        /\ paid[s] <= most /\ paid[s] < h.stack[s] => paid[s] >= least
    BY DEF Posts
  <2>3. /\ h.street[s] <= h.total[s] /\ h.total[s] - h.street[s] <= high
        /\ h.stack[s] > 0 \/ h.street[s] > 0 => h.total[s] - h.street[s] >= low
    BY DEF Postable, Base
  <2>4. /\ g.street[s] <= g.total[s]
        /\ g.total[s] - g.street[s] = (h.total[s] - h.street[s]) + paid[s]
        /\ g.total[s] - g.street[s] <= high + most
    BY <2>1, <2>2, <2>3
  <2>5. ASSUME g.stack[s] > 0 PROVE g.total[s] - g.street[s] >= low + least
    BY <2>1, <2>2, <2>3, <2>4, <2>5
  <2>6. ASSUME g.street[s] > 0 PROVE g.total[s] - g.street[s] >= low + least
    <3>1. least = 0
      BY <2>1, <2>2, <2>6
    <3> QED BY <2>1, <2>2, <2>3, <2>4, <2>6, <3>1
  <2> QED BY <2>4, <2>5, <2>6 DEF Base
<1>3. Occupied(g) = Occupied(h)
  BY DEF Posts
<1> QED BY <1>1, <1>2, <1>3 DEF Postable

(* A blind. *)
LEMMA BlindStaked ==
  ASSUME NEW h, InBetting(h), NEW low \in Nat, NEW high \in Nat, Postable(h, low, high),
         NEW s \in Occupied(h), NEW r \in Nat, NEW g, g = Commit(h, s, r)
  PROVE  InBetting(g) /\ Occupied(g) = Occupied(h) /\ Postable(g, low, high)
<1> DEFINE D == Occupied(h)
<1>1. InBetting(g) /\ Occupied(g) = D
  BY BlindPosted
<1>2. Shape(h) /\ Chips(h) /\ Chips(g)
  BY <1>1 DEF InBetting
<1>3. PICK a : a = IF r <= h.stack[s] THEN r ELSE h.stack[s]
  OBVIOUS
<1>4. a \in Nat /\ a <= h.stack[s] /\ Pays(h, g, s, a)
  BY <1>2, <1>3, CommitPays
<1>5. /\ h.stack \in [D -> Nat] /\ h.street \in [D -> Nat] /\ h.total \in [D -> Nat]
      /\ h.part \in [D -> {"Live", "Folded", "AllIn"}]
  BY <1>2 DEF Chips, Postable, Typed
<1>6. /\ g.stack = [h.stack EXCEPT ![s] = @ - a] /\ g.street = [h.street EXCEPT ![s] = @ + a]
      /\ g.total = [h.total EXCEPT ![s] = @ + a]
      /\ g.part = IF h.stack[s] = a THEN [h.part EXCEPT ![s] = "AllIn"] ELSE h.part
      /\ g.deal = h.deal /\ g.last = h.last /\ Kept(h, g)
  BY <1>4 DEF Pays
<1>7. PICK paid : paid = [t \in D |-> IF t = s THEN a ELSE 0]
  OBVIOUS
<1>8. ASSUME NEW t \in D
      PROVE  /\ paid[t] \in Nat /\ paid[t] <= h.stack[t]
             /\ g.stack[t] = h.stack[t] - paid[t] /\ g.total[t] = h.total[t] + paid[t]
             /\ g.street[t] = h.street[t] + paid[t]
  <2>1. h.stack[t] \in Nat /\ h.street[t] \in Nat /\ h.total[t] \in Nat
    BY <1>5
  <2>2. CASE t = s
    BY <1>4, <1>5, <1>6, <1>7, <2>1, <2>2
  <2>3. CASE t # s
    <3>1. /\ paid[t] = 0 /\ g.stack[t] = h.stack[t]
          /\ g.total[t] = h.total[t] /\ g.street[t] = h.street[t]
      BY <1>5, <1>6, <1>7, <2>3
    <3> QED BY <2>1, <3>1
  <2> QED BY <2>2, <2>3
<1>9. ASSUME NEW t \in D
      PROVE  g.part[t] = h.part[t] \/ (g.part[t] = "AllIn" /\ paid[t] = h.stack[t])
  <2>1. CASE t = s
    BY <1>5, <1>6, <1>7, <2>1
  <2>2. CASE t # s
    BY <1>5, <1>6, <2>2
  <2> QED BY <2>1, <2>2
<1>10. g.total = [t \in D |-> g.total[t]]
  BY <1>5, <1>6
<1>11. Posts(h, g, paid)
  BY <1>1, <1>6, <1>8, <1>9, <1>10 DEF Posts
<1>12. Postable(g, low, high)
  BY <1>2, <1>8, <1>11, LivePosts
<1> QED BY <1>1, <1>12

(* What every seat has paid of its due. *)
LEMMA PaidPosts ==
  ASSUME NEW h, Shape(h), Chips(h), h.total \in [Occupied(h) -> Nat],
         NEW due \in [Occupied(h) -> Nat], NEW street, NEW paid, paid = Paid(h, due),
         NEW g, g = WithChips(h, StackLess(h, paid), street, TotalPlus(h, paid), PartAfter(h, paid))
  PROVE  /\ Posts(h, g, paid) /\ g.street = street
         /\ \A s \in Occupied(h) : paid[s] = IF due[s] <= h.stack[s] THEN due[s] ELSE h.stack[s]
<1> DEFINE D == Occupied(h)
<1>1. h.stack \in [D -> Nat] /\ h.total \in [D -> Nat]
  BY DEF Chips
<1>2. ASSUME NEW s \in D
      PROVE  /\ paid[s] = IF due[s] <= h.stack[s] THEN due[s] ELSE h.stack[s]
             /\ paid[s] \in Nat /\ paid[s] <= h.stack[s]
  <2>1. due[s] \in Nat /\ h.stack[s] \in Nat
    BY <1>1
  <2>2. paid[s] = Min({due[s], h.stack[s]})
    BY DEF Paid
  <2>3. paid[s] = IF due[s] <= h.stack[s] THEN due[s] ELSE h.stack[s]
    BY <2>1, <2>2, MinOfTwo
  <2> QED BY <2>1, <2>3
<1>3. /\ g.stack = StackLess(h, paid) /\ g.part = PartAfter(h, paid) /\ g.street = street
      /\ g.total = TotalPlus(h, paid) /\ g.deal = h.deal /\ g.last = h.last /\ Kept(h, g)
  BY ChipFields, StakeFields
<1>4. /\ DOMAIN g.stack = D /\ DOMAIN g.total = D
      /\ g.total = [t \in D |-> g.total[t]]
      /\ \A s \in D : g.stack[s] = h.stack[s] - paid[s] /\ g.total[s] = h.total[s] + paid[s]
  BY <1>3 DEF StackLess, TotalPlus
<1>5. \A s \in D : g.part[s] = h.part[s] \/ (g.part[s] = "AllIn" /\ paid[s] = h.stack[s])
  BY <1>3 DEF PartAfter
<1>6. Posts(h, g, paid)
  BY <1>2, <1>3, <1>4, <1>5 DEF Posts, Occupied
<1> QED BY <1>2, <1>3, <1>6

(* Blinds owed and posted live. *)
LEMMA CommitAllStaked ==
  ASSUME NEW h, InBetting(h), NEW low \in Nat, NEW high \in Nat, Postable(h, low, high),
         NEW due \in [Occupied(h) -> Nat], NEW g, g = CommitAll(h, due)
  PROVE  Postable(g, low, high)
<1>1. Shape(h) /\ Chips(h) /\ Chips(g)
  BY CommitAllKeeps DEF InBetting
<1>2. h.total \in [Occupied(h) -> Nat]
  BY DEF Postable, Typed
<1>3. PICK paid : paid = Paid(h, due)
  OBVIOUS
<1>4. g = WithChips(h, StackLess(h, paid), StreetPlus(h, paid), TotalPlus(h, paid), PartAfter(h, paid))
  BY <1>3 DEF CommitAll
<1>5. Posts(h, g, paid) /\ g.street = StreetPlus(h, paid)
  BY <1>1, <1>2, <1>3, <1>4, PaidPosts
<1>6. \A s \in Occupied(h) : g.street[s] = h.street[s] + paid[s]
  BY <1>5 DEF StreetPlus
<1> QED BY <1>1, <1>5, <1>6, LivePosts

(* Antes, and blinds owed and posted dead. *)
LEMMA CommitDeadStaked ==
  ASSUME NEW h, InBetting(h), NEW low \in Nat, NEW high \in Nat, Postable(h, low, high),
         NEW least \in Nat, NEW most \in Nat,
         least = 0 \/ \A s \in Occupied(h) : h.street[s] = 0,
         NEW due \in [Occupied(h) -> Nat],
         \A s \in Occupied(h) : due[s] >= least /\ due[s] <= most,
         NEW g, g = CommitDead(h, due)
  PROVE  Postable(g, low + least, high + most)
<1>1. Shape(h) /\ Chips(h) /\ Chips(g)
  BY CommitDeadKeeps DEF InBetting
<1>2. h.total \in [Occupied(h) -> Nat]
  BY DEF Postable, Typed
<1>3. PICK paid : paid = Paid(h, due)
  OBVIOUS
<1>4. g = WithChips(h, StackLess(h, paid), h.street, TotalPlus(h, paid), PartAfter(h, paid))
  BY <1>3 DEF CommitDead
<1>5. /\ Posts(h, g, paid) /\ g.street = h.street
      /\ \A s \in Occupied(h) : paid[s] = IF due[s] <= h.stack[s] THEN due[s] ELSE h.stack[s]
  BY <1>1, <1>2, <1>3, <1>4, PaidPosts
<1>6. ASSUME NEW s \in Occupied(h)
      PROVE  /\ g.street[s] = h.street[s] /\ paid[s] <= most
             /\ paid[s] < h.stack[s] => paid[s] >= least
  <2>1. due[s] \in Nat /\ h.stack[s] \in Nat /\ due[s] >= least /\ due[s] <= most
    BY <1>1 DEF Chips
  <2> QED BY <1>5, <2>1
<1> QED BY <1>1, <1>5, <1>6, DeadPosts

(* A hand is dealt with all its chips in the stacks. *)
LEMMA DealtStaked ==
  ASSUME NEW occupied, occupied \subseteq Seats, Several(occupied),
         NEW stacks \in [occupied -> StackChoices],
         NEW button \in occupied, NEW blinds \in BlindLevels,
         NEW h, h = Dealt(stacks, button, blinds)
  PROVE  Postable(h, 0, 0)
<1>1. DOMAIN stacks = occupied /\ \A s \in occupied : stacks[s] \in Int
  <2>1. \A s \in occupied : stacks[s] \in Nat
    BY HandAssumption
  <2> QED BY <2>1
<1>2. PICK zero : zero = [s \in occupied |-> 0]
  OBVIOUS
<1>3. /\ h.stack = stacks /\ h.street = zero /\ h.total = zero
      /\ h.part = [s \in occupied |-> "Live"]
      /\ h.button = button /\ h.initial = SumFunction(stacks) /\ h.deal = NoDeal
      /\ h.returned = zero /\ h.last = [s \in occupied |-> NoWager]
  BY <1>1, <1>2 DEF Dealt
<1>4. Occupied(h) = occupied
  BY <1>1, <1>3 DEF Occupied
<1>5. zero \in [occupied -> Nat] /\ \A s \in occupied : zero[s] = 0
  BY <1>2
<1>6. Typed(h)
  BY <1>3, <1>4, <1>5 DEF Typed
<1>7. IsFiniteSet(occupied)
  BY SeatsFinite
<1>8. Balanced(h)
  <2>1. SumFunctionOnSet(stacks, occupied) \in Int
    BY <1>1, <1>7, SumIsInt
  <2>2. SumFunctionOnSet(zero, occupied) = 0
    BY <1>5, <1>7, SumZero
  <2>3. DOMAIN zero = occupied
    BY <1>5
  <2> QED BY <1>1, <1>3, <2>1, <2>2, <2>3 DEF Balanced, SumFunction
<1>9. Eligible(h) = occupied
  BY <1>3, <1>4 DEF Eligible
<1>10. \A s \in occupied : h.street[s] = 0 /\ h.total[s] = 0 /\ Base(h, s) = 0
  BY <1>3, <1>5 DEF Base
<1>11. Unpaid(h) /\ Spent(h)
  BY <1>2, <1>3, <1>4 DEF Unpaid, Spent, Zero
<1>12. \A s \in occupied : h.last[s] = NoWager
  BY <1>3
<1> QED BY <1>3, <1>4, <1>6, <1>8, <1>9, <1>10, <1>11, <1>12 DEF Postable

(* Antes, blinds and forced posts: the ante is dead for all, and a small blind
   may be. *)
LEMMA PostedStaked ==
  ASSUME NEW occupied, occupied \subseteq Seats, Several(occupied),
         NEW stacks \in [occupied -> StackChoices],
         NEW button \in occupied, NEW blinds \in BlindLevels, NEW debts,
         NEW g, g = Posted(Dealt(stacks, button, blinds), debts)
  PROVE  Postable(g, blinds.ante, blinds.ante + SmallBlindPost)
<1>1. PICK d : d = Dealt(stacks, button, blinds)
  OBVIOUS
<1>2. /\ InBetting(d) /\ Occupied(d) = occupied /\ d.blinds = blinds
      /\ d.sb \in occupied /\ d.bb \in occupied
      /\ d.street = [s \in occupied |-> 0]
  BY <1>1, DealtBets
<1>3. blinds.sb \in Nat /\ blinds.bb \in Nat /\ blinds.ante \in Nat
  BY HandAssumption
<1>4. PICK ante, small, big, antes, sb, bb, dead :
        /\ ante = [s \in occupied |-> blinds.ante]
        /\ small = SmallDebts(occupied, debts, d.sb)
        /\ big = BigDebts(occupied, debts, d.bb)
        /\ antes = CommitDead(d, ante)
        /\ sb = Commit(antes, d.sb, blinds.sb)
        /\ bb = Commit(sb, d.bb, blinds.bb)
        /\ dead = CommitDead(bb, small)
  OBVIOUS
<1>5. g = CommitAll(dead, big)
  BY <1>1, <1>2, <1>4 DEF Posted
<1>6. /\ ante \in [occupied -> Nat] /\ \A s \in occupied : ante[s] >= blinds.ante /\ ante[s] <= blinds.ante
      /\ small \in [occupied -> Nat] /\ \A s \in occupied : small[s] >= 0 /\ small[s] <= SmallBlindPost
      /\ big \in [occupied -> Nat]
  BY <1>3, <1>4 DEF SmallDebts, BigDebts, SmallBlindPost, BigBlindPost
<1>7. Postable(d, 0, 0)
  BY <1>1, DealtStaked
<1>8. InBetting(antes) /\ Occupied(antes) = occupied /\ Postable(antes, blinds.ante, blinds.ante)
  <2>1. InBetting(antes) /\ Occupied(antes) = occupied
    BY <1>2, <1>4, <1>6, CommitDeadKeeps
  <2>2. \A s \in Occupied(d) : d.street[s] = 0
    BY <1>2
  <2>3. ante \in [Occupied(d) -> Nat] /\ \A s \in Occupied(d) : ante[s] >= blinds.ante /\ ante[s] <= blinds.ante
    BY <1>2, <1>6
  <2>4. Postable(antes, 0 + blinds.ante, 0 + blinds.ante)
    BY <1>2, <1>3, <1>4, <1>7, <2>2, <2>3, CommitDeadStaked
  <2> QED BY <1>3, <2>1, <2>4
<1>9. InBetting(sb) /\ Occupied(sb) = occupied /\ Postable(sb, blinds.ante, blinds.ante)
  <2>1. d.sb \in Occupied(antes)
    BY <1>2, <1>8
  <2>2. InBetting(sb) /\ Occupied(sb) = Occupied(antes) /\ Postable(sb, blinds.ante, blinds.ante)
    BY <1>3, <1>4, <1>8, <2>1, BlindStaked
  <2> QED BY <1>8, <2>2
<1>10. InBetting(bb) /\ Occupied(bb) = occupied /\ Postable(bb, blinds.ante, blinds.ante)
  <2>1. d.bb \in Occupied(sb)
    BY <1>2, <1>9
  <2>2. InBetting(bb) /\ Occupied(bb) = Occupied(sb) /\ Postable(bb, blinds.ante, blinds.ante)
    BY <1>3, <1>4, <1>9, <2>1, BlindStaked
  <2> QED BY <1>9, <2>2
<1>11. InBetting(dead) /\ Occupied(dead) = occupied
       /\ Postable(dead, blinds.ante, blinds.ante + SmallBlindPost)
  <2>1. InBetting(dead) /\ Occupied(dead) = occupied
    BY <1>4, <1>6, <1>10, CommitDeadKeeps
  <2>2. SmallBlindPost \in Nat /\ 0 \in Nat
    BY DEF SmallBlindPost
  <2>3. small \in [Occupied(bb) -> Nat] /\ \A s \in Occupied(bb) : small[s] >= 0 /\ small[s] <= SmallBlindPost
    BY <1>6, <1>10
  <2>4. Postable(dead, blinds.ante + 0, blinds.ante + SmallBlindPost)
    BY <1>3, <1>4, <1>10, <2>2, <2>3, CommitDeadStaked
  <2> QED BY <1>3, <2>1, <2>4
<1>12. blinds.ante + SmallBlindPost \in Nat
  BY <1>3 DEF SmallBlindPost
<1> QED BY <1>3, <1>5, <1>6, <1>11, <1>12, CommitAllStaked

(* The wager is what the seat that posted most has before it. *)
LEMMA OpenedStaked ==
  ASSUME NEW h, InBetting(h), NEW low \in Nat, Postable(h, low, low + 1),
         NEW bound \in Nat, \A s \in Occupied(h) : h.street[s] <= bound,
         NEW first \in Seats, NEW g, g = Opened(h, first)
  PROVE  Stakes(g) /\ g.deal = NoDeal /\ Turn(g) /\ Honoured(g)
<1> DEFINE D == Occupied(h)
<1>1. /\ Shape(h) /\ D \subseteq Seats /\ h.street \in [D -> Nat] /\ h.total \in [D -> Nat]
      /\ h.stack \in [D -> Nat] /\ D # {} /\ Eligible(h) = D
      /\ Typed(h) /\ Unpaid(h) /\ Balanced(h) /\ Spent(h) /\ h.deal = NoDeal
      /\ \A s \in D : h.last[s] = NoWager
  BY DEF InBetting, Chips, Postable, Typed
<1>2. PICK wager : wager = Max(Range(h.street))
  OBVIOUS
<1>3. wager \in Range(h.street) /\ \A x \in Range(h.street) : wager >= x
  <2> DEFINE S == Range(h.street)
  <2>1. S # {} /\ \A x \in S : x \in Nat /\ x <= bound
    BY <1>1 DEF Range
  <2>2. wager = Max(S)
    BY <1>2
  <2> HIDE DEF S
  <2>3. wager \in S /\ \A x \in S : wager >= x
    BY <2>1, <2>2, MaxOfBounded, MaxIsGreatest
  <2> QED BY <2>3 DEF S
<1>4. PICK w \in D : h.street[w] = wager
  BY <1>1, <1>3 DEF Range
<1>5. wager \in Nat /\ \A s \in D : h.street[s] <= wager
  BY <1>1, <1>3, <1>4 DEF Range
<1>6. PICK m, S, s : /\ m = [h EXCEPT !.wager = wager] /\ S = {t \in D : NeedsAction(m, t)}
                     /\ s = FirstFrom(first, S)
                     /\ g = [m EXCEPT !.toAct = s]
  BY <1>2, Zenon DEF Opened
<1>7. /\ g.wager = wager /\ g.stack = h.stack /\ g.street = h.street /\ g.total = h.total
      /\ g.part = h.part /\ g.button = h.button /\ g.initial = h.initial /\ g.deal = h.deal
      /\ g.returned = h.returned /\ g.last = h.last /\ g.toAct = s
      /\ m.wager = wager /\ m.stack = h.stack /\ m.street = h.street /\ m.part = h.part
      /\ m.last = h.last
  BY <1>1, <1>6 DEF Shape, Fields
<1>8. Occupied(g) = D /\ Eligible(g) = D
  BY <1>1, <1>7 DEF Occupied, Eligible
<1>9. Typed(g) /\ Balanced(g)
  BY <1>1, <1>7, <1>8 DEF Typed, Balanced
<1>10. Level(g)
  BY <1>5, <1>7, <1>8 DEF Level, Postable
<1>11. Owned(g)
  <2> SUFFICES ASSUME wager > 0 PROVE w \in Owners(g)
    BY <1>7 DEF Owned
  <2> QED BY <1>4, <1>7, <1>8 DEF Owners
<1>12. Even(g)
  <2> SUFFICES ASSUME NEW x \in Live(g), NEW y \in Live(g) \cup Owners(g)
      PROVE  Base(g, y) >= Base(g, x) - 1
    BY DEF Even
  <2>1. x \in D /\ y \in D
    BY <1>8 DEF Live, Owners
  <2>2. Base(g, x) = Base(h, x) /\ Base(g, y) = Base(h, y)
    BY <1>7 DEF Base
  <2>3. Base(h, x) <= low + 1 /\ Base(h, x) \in Int /\ Base(h, y) \in Int
    BY <1>1, <2>1 DEF Postable, Base
  <2>4. h.stack[y] > 0 \/ h.street[y] > 0
    BY <1>7 DEF Live, CanAct, Owners
  <2>5. Base(h, y) >= low
    BY <2>1, <2>4 DEF Postable
  <2> QED BY <2>2, <2>3, <2>5
<1>13. Covered(g)
  BY <1>8 DEF Covered
<1>14. Unpaid(g) /\ Spent(g)
  BY <1>1, <1>7, <1>8 DEF Unpaid, Spent, Zero
<1>15. Turn(g)
  <2> SUFFICES ASSUME s \in D PROVE NeedsAction(g, s)
    BY <1>7, <1>8 DEF Turn
  <2>1. S \subseteq Seats /\ s \in Seats
    BY <1>1, <1>6
  <2>2. s \in S
    BY <1>6, <2>1, FirstFromOf
  <2>3. NeedsAction(m, s)
    BY <1>6, <2>2
  <2> QED BY <1>7, <2>3 DEF NeedsAction, CanAct
<1>16. Honoured(g)
  <2>1. \A t \in Live(g) : g.last[t] = NoWager
    BY <1>1, <1>7, <1>8 DEF Live
  <2>2. NoWager \notin Nat
    BY DEF NoWager
  <2> QED BY <1>5, <1>7, <2>1, <2>2 DEF Honoured
<1> QED BY <1>1, <1>7, <1>9, <1>10, <1>11, <1>12, <1>13, <1>14, <1>15, <1>16 DEF Stakes

(* with_prepared_deck. *)
LEMMA NewHandWorth ==
  ASSUME NEW occupied, occupied \subseteq Seats, Several(occupied),
         NEW stacks \in [occupied -> StackChoices],
         NEW button \in occupied, NEW blinds \in BlindLevels, NEW debts,
         NEW k, k = NewHand(stacks, button, blinds, debts)
  PROVE  Worth(k)
<1>0. PICK p : p = Posted(Dealt(stacks, button, blinds), debts)
  OBVIOUS
<1>1. PICK o : /\ o = Opened(p, Positions(DOMAIN stacks, button).first)
               /\ k = IF BettingRoundComplete(o) THEN AdvanceStreet(o) ELSE o
  BY <1>0 DEF NewHand
<1>2. blinds.sb + blinds.bb + BigBlindPost \in Nat /\ blinds.ante \in Nat
  BY HandAssumption DEF BigBlindPost
<1>3. /\ InBetting(p) /\ Occupied(p) = occupied /\ p.wager = 0
      /\ \A s \in occupied : p.street[s] <= blinds.sb + blinds.bb + BigBlindPost
  <2> HIDE <1>0
  <2>1. Posted(Dealt(stacks, button, blinds), debts) = p
    BY <1>0
  <2>2. /\ InBetting(Posted(Dealt(stacks, button, blinds), debts))
        /\ Occupied(Posted(Dealt(stacks, button, blinds), debts)) = occupied
        /\ Posted(Dealt(stacks, button, blinds), debts).wager = 0
        /\ \A s \in occupied : Posted(Dealt(stacks, button, blinds), debts).street[s]
                                <= blinds.sb + blinds.bb + BigBlindPost
    BY PostedBets
  <2> QED BY <2>1, <2>2
<1>4. InBetting(o)
  BY <1>1, <1>2, <1>3, OpenedBets
<1>5. Stakes(o) /\ o.deal = NoDeal /\ Turn(o) /\ Honoured(o)
  <2>1. Postable(p, blinds.ante, blinds.ante + 1)
    BY <1>0, PostedStaked DEF SmallBlindPost
  <2>2. Positions(DOMAIN stacks, button).first \in Seats
    <3>1. \A s \in occupied : FirstAfter(s, occupied) \in occupied
      BY FirstAfterIn
    <3>2. DOMAIN stacks = occupied
      OBVIOUS
    <3> QED BY <3>1, <3>2 DEF Positions
  <2> QED BY <1>1, <1>2, <1>3, <2>1, <2>2, OpenedStaked
<1>6. CASE BettingRoundComplete(o)
  BY <1>1, <1>4, <1>5, <1>6, AdvanceStreetStaked
<1>7. CASE ~ BettingRoundComplete(o)
  BY <1>1, <1>4, <1>5, <1>7, BettingWorth
<1> QED BY <1>6, <1>7

-----------------------------------------------------------------------------
(* Lemmas about what a seat is offered. *)

(* What the offer to the seat to act says of the commands the hand accepts. *)
Offers(h, s, legal) ==
  /\ legal.fold \in BOOLEAN /\ legal.check \in BOOLEAN /\ legal.reopened \in BOOLEAN
  /\ legal.call \in Nat /\ legal.minBet \in Nat /\ legal.minRaise \in Nat /\ legal.all \in Nat
  /\ legal.fold <=> MayFold(h, s)
  /\ legal.check <=> MayCheck(h, s)
  /\ legal.fold <=> ~ legal.check
  /\ \A to \in Int : /\ MayBet(h, s, to) <=> legal.minBet # None /\ to >= legal.minBet /\ to < legal.all
                     /\ MayRaise(h, s, to) <=> legal.minRaise # None /\ to >= legal.minRaise /\ to < legal.all
  /\ MayCall(h, s) <=> legal.call # None
  /\ MayCall(h, s) => legal.call = ToCall(h, s)
  /\ MayAllIn(h, s) <=> CanAllIn(legal)
  /\ legal.all = AllInTo(h, s)
  /\ legal.minBet < legal.all /\ legal.minRaise < legal.all
  /\ legal.minBet # None \/ legal.minRaise # None => CanAllIn(legal)
  /\ legal.minBet = None \/ legal.minRaise = None

(* The seat to act is offered exactly what the hand accepts. *)
LEMMA OfferExact ==
  ASSUME HandInv, Worth(hand), NEW s \in Occupied(hand), ToAct(s),
         NEW legal, legal = LegalActions(hand, s)
  PROVE  Offers(hand, s, legal)
<1> DEFINE h == hand
<1>1. /\ NeedsAction(h, s) /\ s \in Live(h) /\ Chips(h)
      /\ h.street[s] \in Nat /\ h.stack[s] \in Nat /\ h.wager \in Nat
      /\ h.raise \in Nat /\ h.blinds.bb \in Nat \ {0} /\ h.street[s] <= h.wager
  BY ActorStakes DEF InBetting
<1>2. h.stack[s] > 0 /\ h.last[s] \in Nat \cup {NoWager}
  BY <1>1 DEF Live, CanAct, Chips
<1>3. PICK toCall : toCall = ToCall(h, s)
  OBVIOUS
<1>4. toCall = h.wager - h.street[s] /\ toCall \in Nat
  <2>1. h.wager - h.street[s] \in Nat
    BY <1>1
  <2>2. Max({0, h.wager - h.street[s]}) = h.wager - h.street[s]
    <3> DEFINE d == h.wager - h.street[s]
    <3>1. d \in Nat
      BY <2>1
    <3> HIDE DEF d
    <3>2. Max({0, d}) = d
      BY <3>1, MaxOfTwo
    <3> QED BY <3>2 DEF d
  <2> QED BY <1>3, <2>1, <2>2 DEF ToCall
<1> DEFINE all == AllInTo(h, s)
           other == OtherLive(h, s)
           reopened == RaiseReopened(h, s)
           bet == h.wager = 0 /\ other /\ all - 1 >= h.blinds.bb
           raise == h.wager > 0 /\ other /\ reopened /\ all - 1 >= h.wager + h.raise
<1>5. legal = [fold     |-> toCall > 0,
               check    |-> toCall = 0,
               call     |-> IF toCall > 0 /\ toCall < h.stack[s] THEN toCall ELSE None,
               minBet   |-> IF bet THEN h.blinds.bb ELSE None,
               minRaise |-> IF raise THEN h.wager + h.raise ELSE None,
               all      |-> all,
               reopened |-> reopened]
  BY <1>3, Zenon DEF LegalActions
<1>8. all = h.street[s] + h.stack[s] /\ all \in Nat /\ all > 0
  BY <1>1, <1>2 DEF AllInTo
<1> HIDE DEF all, other, reopened
<1>6. (bet <=> h.wager = 0 /\ other /\ all - 1 >= h.blinds.bb)
      /\ (raise <=> h.wager > 0 /\ other /\ reopened /\ all - 1 >= h.wager + h.raise)
  OBVIOUS
<1> HIDE DEF bet, raise
<1>15. legal.reopened \in BOOLEAN /\ legal.fold \in BOOLEAN /\ legal.check \in BOOLEAN
  BY <1>5 DEF reopened, RaiseReopened
<1>7. /\ legal.fold <=> toCall > 0
      /\ legal.check <=> toCall = 0
      /\ legal.reopened <=> reopened
  <2>1. legal.fold = (toCall > 0) /\ legal.check = (toCall = 0) /\ legal.reopened = reopened
    <3> HIDE <1>5
    <3>1. legal.fold = (toCall > 0) /\ legal.check = (toCall = 0)
      BY <1>3 DEF LegalActions
    <3>2. legal.reopened = reopened
      BY DEF LegalActions, reopened
    <3> QED BY <3>1, <3>2
  <2> QED BY <2>1, Zenon
<1>17. /\ toCall > 0 /\ toCall < h.stack[s] => legal.call = toCall
       /\ ~ (toCall > 0 /\ toCall < h.stack[s]) => legal.call = None
       /\ bet => legal.minBet = h.blinds.bb
       /\ ~ bet => legal.minBet = None
       /\ raise => legal.minRaise = h.wager + h.raise
       /\ ~ raise => legal.minRaise = None
       /\ legal.all = all
  BY <1>5
<1> HIDE <1>5
<1> HIDE DEF h
<1>9. /\ legal.call \in Nat /\ legal.minBet \in Nat /\ legal.minRaise \in Nat /\ legal.all \in Nat
      /\ legal.minBet < legal.all /\ legal.minRaise < legal.all
      /\ legal.minBet = None \/ legal.minRaise = None
  <2>1. legal.minBet \in Nat /\ legal.minBet < legal.all
    BY <1>1, <1>6, <1>8, <1>17 DEF None
  <2>2. legal.minRaise \in Nat /\ legal.minRaise < legal.all
    BY <1>1, <1>6, <1>8, <1>17 DEF None
  <2>3. legal.call \in Nat /\ legal.all \in Nat
    BY <1>4, <1>8, <1>17 DEF None
  <2>4. legal.minBet = None \/ legal.minRaise = None
    BY <1>1, <1>6, <1>17
  <2> QED BY <2>1, <2>2, <2>3, <2>4
<1>10. /\ legal.fold <=> MayFold(h, s)
       /\ legal.check <=> MayCheck(h, s)
       /\ legal.fold <=> ~ legal.check
  BY <1>3, <1>4, <1>7 DEF MayFold, MayCheck, h
<1>11. ASSUME NEW to \in Int
       PROVE  /\ MayBet(h, s, to) <=> legal.minBet # None /\ to >= legal.minBet /\ to < legal.all
              /\ MayRaise(h, s, to) <=> legal.minRaise # None /\ to >= legal.minRaise /\ to < legal.all
  <2>1. MayBet(h, s, to) <=> h.wager = 0 /\ other /\ to >= h.blinds.bb /\ to <= all - 1
    BY <1>1, <1>8 DEF MayBet, other, all
  <2>2. MayRaise(h, s, to) <=> h.wager > 0 /\ other /\ reopened /\ to >= h.wager + h.raise /\ to <= all - 1
    BY <1>1, <1>8 DEF MayRaise, other, all, reopened
  <2>3. legal.minBet # None <=> h.wager = 0 /\ other /\ all - 1 >= h.blinds.bb
    BY <1>1, <1>6, <1>17 DEF None
  <2>4. legal.minRaise # None <=> h.wager > 0 /\ other /\ reopened /\ all - 1 >= h.wager + h.raise
    BY <1>1, <1>6, <1>17 DEF None
  <2>5. /\ legal.minBet # None => legal.minBet = h.blinds.bb
        /\ legal.minRaise # None => legal.minRaise = h.wager + h.raise
        /\ legal.all = all
    BY <1>17
  <2>6. MayBet(h, s, to) <=> legal.minBet # None /\ to >= legal.minBet /\ to < legal.all
    BY <1>1, <1>8, <2>1, <2>3, <2>5
  <2>7. MayRaise(h, s, to) <=> legal.minRaise # None /\ to >= legal.minRaise /\ to < legal.all
    BY <1>1, <1>8, <2>2, <2>4, <2>5
  <2> QED BY <2>6, <2>7
<1>12. (MayCall(h, s) <=> legal.call # None) /\ (MayCall(h, s) => legal.call = ToCall(h, s))
  BY <1>3, <1>4, <1>17 DEF MayCall, None, h
<1>13. MayAllIn(h, s) <=> CanAllIn(legal)
  <2>1. MayAllIn(h, s) <=> (all > h.wager => reopened)
    BY DEF MayAllIn, all, reopened
  <2>2. CanAllIn(legal) <=> reopened \/ (toCall > 0 /\ toCall >= h.stack[s])
    <3>1. legal.call = None <=> ~ (toCall > 0 /\ toCall < h.stack[s])
      BY <1>4, <1>17 DEF None
    <3>2. toCall = 0 <=> ~ (toCall > 0)
      BY <1>4
    <3>3. toCall < h.stack[s] <=> ~ (toCall >= h.stack[s])
      BY <1>1, <1>4
    <3> QED BY <1>7, <3>1, <3>2, <3>3 DEF CanAllIn
  <2>3. all > h.wager <=> toCall < h.stack[s]
    BY <1>1, <1>4, <1>8
  <2>4. h.stack[s] > 0
    BY <1>2 DEF h
  <2> QED BY <1>1, <1>4, <2>1, <2>2, <2>3, <2>4
<1>14. ASSUME legal.minBet # None \/ legal.minRaise # None PROVE CanAllIn(legal)
  <2>1. CASE raise
    BY <1>6, <1>7, <2>1 DEF CanAllIn
  <2>2. CASE bet
    <3>1. ~ (h.street[s] < h.wager)
      BY <1>1, <1>6, <2>2
    <3>2. h.last[s] = NoWager
      BY <1>1, <3>1 DEF NeedsAction, h
    <3> QED BY <1>7, <3>2 DEF CanAllIn, RaiseReopened, reopened
  <2> QED BY <1>14, <1>17, <2>1, <2>2
<1>16. legal.all = AllInTo(h, s)
  BY <1>17 DEF all
<1>18. Offers(h, s, legal)
  BY <1>9, <1>10, <1>11, <1>12, <1>13, <1>14, <1>15, <1>16 DEF Offers
<1> QED BY <1>18 DEF h

(* What the hand does with a command of each kind. *)
LEMMA AcceptsEach ==
  ASSUME NEW h, NEW s, NEW to
  PROVE  /\ Accepts(h, s, Command("Fold", to)) <=> MayFold(h, s)
         /\ Accepts(h, s, Command("Check", to)) <=> MayCheck(h, s)
         /\ Accepts(h, s, Command("Call", to)) <=> MayCall(h, s) /\ to = ToCall(h, s)
         /\ Accepts(h, s, Command("Bet", to)) <=> MayBet(h, s, to)
         /\ Accepts(h, s, Command("Raise", to)) <=> MayRaise(h, s, to)
         /\ Accepts(h, s, Command("AllIn", to)) <=> MayAllIn(h, s) /\ to = AllInTo(h, s)
<1>1. \A kind : Command(kind, to).kind = kind /\ Command(kind, to).to = to
  BY DEF Command
<1>2. Accepts(h, s, Command("Fold", to)) <=> MayFold(h, s)
  BY <1>1 DEF Accepts
<1>3. Accepts(h, s, Command("Check", to)) <=> MayCheck(h, s)
  BY <1>1 DEF Accepts
<1>4. Accepts(h, s, Command("Call", to)) <=> MayCall(h, s) /\ to = ToCall(h, s)
  BY <1>1 DEF Accepts
<1>5. Accepts(h, s, Command("Bet", to)) <=> MayBet(h, s, to)
  BY <1>1 DEF Accepts
<1>6. Accepts(h, s, Command("Raise", to)) <=> MayRaise(h, s, to)
  BY <1>1 DEF Accepts
<1>7. Accepts(h, s, Command("AllIn", to)) <=> MayAllIn(h, s) /\ to = AllInTo(h, s)
  BY <1>1 DEF Accepts
<1> QED BY <1>2, <1>3, <1>4, <1>5, <1>6, <1>7

-----------------------------------------------------------------------------
(* Lemmas about the policies. *)

(* What an observation of the seat to act holds. *)
Seen(h, s, o) ==
  /\ Offers(h, s, o.legal)
  /\ o.mine \in Nat /\ o.wager \in Nat /\ o.pot \in Int /\ o.toCall \in Nat
  /\ o.legal.all > o.mine
  /\ o.legal.fold <=> o.toCall > 0

(* The observation of the seat to act holds it. *)
LEMMA ActorSees ==
  ASSUME HandInv, Worth(hand), NEW s \in Occupied(hand), ToAct(s),
         NEW o, o = Observation(hand, s)
  PROVE  Seen(hand, s, o)
<1>1. Offers(hand, s, o.legal)
  BY OfferExact DEF Observation
<1>2. /\ o.mine = hand.street[s] /\ o.wager = hand.wager /\ o.pot = SumFunction(hand.total)
      /\ o.toCall = ToCall(hand, s)
  BY DEF Observation
<1>3. /\ InBetting(hand) /\ Stakes(hand) /\ s \in Live(hand) /\ hand.street[s] \in Nat
      /\ hand.stack[s] \in Nat /\ hand.wager \in Nat
  BY ActorStakes
<1>4. o.pot \in Int
  <2>1. hand.total \in [Occupied(hand) -> Nat] /\ Occupied(hand) \subseteq Seats
    BY <1>3 DEF Stakes, Typed, InBetting, Chips
  <2>2. \A t \in Occupied(hand) : hand.total[t] \in Int
    BY <2>1
  <2>3. DOMAIN hand.total = Occupied(hand) /\ IsFiniteSet(Occupied(hand))
    BY <2>1, SeatsFinite
  <2> QED BY <1>2, <2>2, <2>3, SumIsInt DEF SumFunction
<1>5. o.toCall \in Nat
  BY <1>2, <1>3, ToCallIsNat
<1>6. o.legal.all > o.mine
  <2>1. o.legal.all = hand.street[s] + hand.stack[s] /\ hand.stack[s] > 0
    BY <1>1, <1>3 DEF Offers, AllInTo, Live, CanAct
  <2> QED BY <1>2, <1>3, <2>1
<1>7. o.legal.fold <=> o.toCall > 0
  BY <1>1, <1>2 DEF Offers, MayFold
<1> QED BY <1>1, <1>2, <1>3, <1>4, <1>5, <1>6, <1>7 DEF Seen

(* A share of a pot is a number of chips. *)
LEMMA FractionIsInt ==
  ASSUME NEW value \in Int, NEW a \in DOMAIN PotFractions
  PROVE  CeilFraction(value, PotFractions[a]) \in Int
<1>1. PICK f : f = PotFractions[a]
  OBVIOUS
<1>2. f[1] \in Nat /\ f[2] \in Nat \ {0}
  BY <1>1 DEF PotFractions
<1>3. PICK x : x = value * f[1] + f[2] - 1
  OBVIOUS
<1>4. x \in Int
  BY <1>2, <1>3
<1>5. x \div f[2] \in Int
  BY <1>2, <1>4
<1> QED BY <1>1, <1>3, <1>5 DEF CeilFraction

(* A sized wager is at least the smallest and leaves a chip behind, or is all
   the chips of a seat that may put them in. *)
LEMMA FractionAccepted ==
  ASSUME NEW h, NEW s, NEW o, Seen(h, s, o), NEW a \in DOMAIN PotFractions,
         NEW c, c = MapFraction(o, PotFractions[a]), c # Masked
  PROVE  Accepts(h, s, c)
<1> DEFINE legal == o.legal
           opens == legal.minBet # None
           least == IF opens THEN legal.minBet ELSE legal.minRaise
           wish == IF opens THEN o.mine + CeilFraction(o.pot, PotFractions[a])
                   ELSE o.wager + CeilFraction(o.pot + o.toCall, PotFractions[a])
           most == Max({wish, least})
           shove == Command("AllIn", legal.all)
<1>1. /\ Offers(h, s, legal) /\ o.mine \in Nat /\ o.wager \in Nat /\ o.pot \in Int
      /\ o.toCall \in Nat
  BY DEF Seen
<1>2. least \in Nat /\ legal.all \in Nat
  BY <1>1 DEF Offers
<1>3. wish \in Int
  <2>1. o.pot + o.toCall \in Int
    BY <1>1
  <2>2. CeilFraction(o.pot, PotFractions[a]) \in Int /\ CeilFraction(o.pot + o.toCall, PotFractions[a]) \in Int
    BY <1>1, <2>1, FractionIsInt
  <2> QED BY <1>1, <2>2
<1>4. most \in Int /\ most >= least
  <2> HIDE DEF wish, least
  <2>1. most = IF wish >= least THEN wish ELSE least
    BY <1>2, <1>3, MaxOfTwo
  <2> HIDE DEF most
  <2> QED BY <1>2, <1>3, <2>1
<1>5. c = CASE least # None /\ most >= legal.all -> shove
            [] least # None /\ most < legal.all -> Command(IF opens THEN "Bet" ELSE "Raise", most)
            [] least = None /\ legal.all > o.mine /\ CanAllIn(legal) -> shove
            [] OTHER -> Masked
  BY Zenon DEF MapFraction
<1>6. CanAllIn(legal) => Accepts(h, s, shove)
  BY <1>1, AcceptsEach DEF Offers
<1>7. least # None => CanAllIn(legal)
  BY <1>1 DEF Offers
<1> HIDE DEF most, wish, shove
<1>8. CASE least # None /\ most >= legal.all
  <2>1. ~ (most < legal.all)
    BY <1>2, <1>4, <1>8
  <2>2. c = shove
    BY <1>5, <1>8, <2>1
  <2> QED BY <1>6, <1>7, <1>8, <2>2
<1>9. CASE least # None /\ most < legal.all
  <2>1. ~ (most >= legal.all)
    BY <1>2, <1>4, <1>9
  <2>2. c = Command(IF opens THEN "Bet" ELSE "Raise", most)
    BY <1>5, <1>9, <2>1
  <2>3. CASE opens
    <3>1. MayBet(h, s, most)
      BY <1>1, <1>4, <1>9, <2>3 DEF Offers
    <3> QED BY <2>2, <2>3, <3>1, AcceptsEach
  <2>4. CASE ~ opens
    <3>1. MayRaise(h, s, most)
      BY <1>1, <1>4, <1>9, <2>4 DEF Offers
    <3> QED BY <2>2, <2>4, <3>1, AcceptsEach
  <2> QED BY <2>3, <2>4
<1>10. CASE least = None
  <2>1. legal.all > o.mine /\ CanAllIn(legal)
    BY <1>5, <1>10
  <2> QED BY <1>5, <1>6, <1>10, <2>1
<1>11. most >= legal.all \/ most < legal.all
  BY <1>2, <1>4
<1> QED BY <1>8, <1>9, <1>10, <1>11

(* What is not masked is a command the hand accepts. *)
LEMMA MappedAccepted ==
  ASSUME NEW h, NEW s, NEW o, Seen(h, s, o), NEW a \in LegalPolicyActions(o)
  PROVE  Accepts(h, s, MapPolicyAction(o, a))
<1> DEFINE c == MapPolicyAction(o, a)
           legal == o.legal
<1>1. c # Masked /\ a \in PolicyActionNames
  BY DEF LegalPolicyActions
<1>2. Offers(h, s, legal) /\ (legal.fold <=> o.toCall > 0)
  BY DEF Seen
<1>3. CanAllIn(legal) => Accepts(h, s, Command("AllIn", legal.all))
  BY <1>2, AcceptsEach DEF Offers
<1>4. CASE a = "Fold"
  <2>1. legal.fold /\ c = Command("Fold", 0)
    BY <1>1, <1>4 DEF MapPolicyAction
  <2> QED BY <1>2, <2>1, AcceptsEach DEF Offers
<1>5. CASE a = "Check"
  <2>1. legal.check /\ c = Command("Check", 0)
    BY <1>1, <1>5 DEF MapPolicyAction
  <2> QED BY <1>2, <2>1, AcceptsEach DEF Offers
<1>6. CASE a = "Call"
  <2>1. CASE legal.call # None
    <3>1. c = Command("Call", legal.call)
      BY <1>6, <2>1 DEF MapPolicyAction
    <3> QED BY <1>2, <2>1, <3>1, AcceptsEach DEF Offers
  <2>2. CASE legal.call = None
    <3>1. o.toCall > 0 /\ c = Command("AllIn", legal.all)
      BY <1>1, <1>6, <2>2 DEF MapPolicyAction
    <3>2. CanAllIn(legal)
      BY <1>2, <2>2, <3>1 DEF Offers, CanAllIn
    <3> QED BY <1>3, <3>1, <3>2
  <2> QED BY <2>1, <2>2
<1>7. CASE a = "AllIn"
  <2>1. CanAllIn(legal) /\ c = Command("AllIn", legal.all)
    BY <1>1, <1>7 DEF MapPolicyAction
  <2> QED BY <1>3, <2>1
<1>8. CASE a \in DOMAIN PotFractions
  <2>1. a \notin {"Fold", "Check", "Call", "AllIn"}
    BY <1>8 DEF PotFractions
  <2>2. c = MapFraction(o, PotFractions[a])
    BY <2>1 DEF MapPolicyAction
  <2> QED BY <1>1, <1>8, <2>2, FractionAccepted
<1> QED BY <1>1, <1>4, <1>5, <1>6, <1>7, <1>8 DEF PolicyActionNames

(* Checking or folding, and calling what there is to call, are never masked. *)
LEMMA SomethingUnmasked ==
  ASSUME NEW h, NEW s, NEW o, Seen(h, s, o)
  PROVE  /\ o.legal.check => "Check" \in LegalPolicyActions(o)
         /\ o.legal.fold => "Fold" \in LegalPolicyActions(o)
         /\ o.toCall > 0 => "Call" \in LegalPolicyActions(o)
         /\ o.legal.check \/ o.legal.fold
<1>1. Offers(h, s, o.legal) /\ (o.legal.fold <=> o.toCall > 0) /\ o.legal.all > o.mine
  BY DEF Seen
<1>2. \A kind \in {"Fold", "Check", "Call", "AllIn"} : \A to : Command(kind, to) # Masked
  <2> SUFFICES ASSUME NEW kind \in {"Fold", "Check", "Call", "AllIn"}, NEW to PROVE Command(kind, to) # Masked
    OBVIOUS
  <2>1. Command(kind, to).kind = kind /\ Masked.kind = "Masked"
    BY DEF Command, Masked
  <2> QED BY <2>1
<1>3. ASSUME o.legal.check PROVE "Check" \in LegalPolicyActions(o)
  BY <1>2, <1>3 DEF LegalPolicyActions, PolicyActionNames, MapPolicyAction
<1>4. ASSUME o.legal.fold PROVE "Fold" \in LegalPolicyActions(o)
  BY <1>2, <1>4 DEF LegalPolicyActions, PolicyActionNames, MapPolicyAction
<1>5. ASSUME o.toCall > 0 PROVE "Call" \in LegalPolicyActions(o)
  BY <1>1, <1>2, <1>5 DEF LegalPolicyActions, PolicyActionNames, MapPolicyAction
<1>6. o.legal.check \/ o.legal.fold
  BY <1>1 DEF Offers
<1> QED BY <1>3, <1>4, <1>5, <1>6

(* An answer is an action that is not masked. *)
Answers(o, answer) == answer # {} /\ answer \subseteq LegalPolicyActions(o)

(* The first wish that is not masked. *)
LEMMA PreferAnswers ==
  ASSUME NEW o, NEW n \in Nat, NEW wishes, DOMAIN wishes = 1 .. n
  PROVE  /\ PreferLegal(o, wishes) \subseteq LegalPolicyActions(o)
         /\ (\E i \in 1 .. n : wishes[i] \in LegalPolicyActions(o)) => PreferLegal(o, wishes) # {}
<1> DEFINE legal == {i \in DOMAIN wishes : wishes[i] \in LegalPolicyActions(o)}
<1>1. PreferLegal(o, wishes) = IF legal = {} THEN {} ELSE {wishes[Min(legal)]}
  BY DEF PreferLegal
<1>2. legal \subseteq Nat
  OBVIOUS
<1>3. ASSUME legal # {} PROVE Min(legal) \in legal
  <2> HIDE DEF legal
  <2>1. PICK m \in legal : \A y \in legal : m <= y
    BY <1>2, <1>3, LeastOf
  <2> QED BY SMTT(40), <2>1 DEF Min
<1>4. ASSUME legal # {} PROVE wishes[Min(legal)] \in LegalPolicyActions(o)
  BY <1>3, <1>4
<1> QED BY <1>1, <1>4

(* The answer, or the passive one. *)
LEMMA ElseAnswers ==
  ASSUME NEW o, NEW first, first \subseteq LegalPolicyActions(o), NEW second, Answers(o, second)
  PROVE  Answers(o, Else(first, second))
BY DEF Answers, Else

(* The passive fallback always has an answer. *)
LEMMA PassiveAnswers ==
  ASSUME NEW h, NEW s, NEW o, Seen(h, s, o)
  PROVE  Answers(o, PassiveFallback(o))
<1> DEFINE wishes == <<"Check", "Call", "AllIn", "Fold">>
<1>1. DOMAIN wishes = 1 .. 4 /\ wishes[1] = "Check" /\ wishes[4] = "Fold"
  OBVIOUS
<1>2. wishes[1] \in LegalPolicyActions(o) \/ wishes[4] \in LegalPolicyActions(o)
  BY <1>1, SomethingUnmasked
<1>3. PassiveFallback(o) = PreferLegal(o, wishes)
  BY DEF PassiveFallback
<1> HIDE DEF wishes
<1>4. \E i \in 1 .. 4 : wishes[i] \in LegalPolicyActions(o)
  BY <1>2
<1> QED BY <1>1, <1>3, <1>4, PreferAnswers DEF Answers

(* The baseline policies have an answer for whatever equity is sampled. *)
LEMMA PoliciesAnswer ==
  ASSUME NEW h, NEW s, NEW o, Seen(h, s, o)
  PROVE  /\ Answers(o, CheckCall(o)) /\ Answers(o, FoldCheck(o)) /\ Answers(o, PotPressure(o))
         /\ Answers(o, Jam(o)) /\ Answers(o, LegalPolicyActions(o))
         /\ \A equity : Answers(o, EquityPotOddsAt(o, equity))
<1>1. /\ o.legal.check => "Check" \in LegalPolicyActions(o)
      /\ o.legal.fold => "Fold" \in LegalPolicyActions(o)
      /\ o.toCall > 0 => "Call" \in LegalPolicyActions(o)
      /\ o.legal.check \/ o.legal.fold
  BY SomethingUnmasked
<1>2. Answers(o, PassiveFallback(o))
  BY PassiveAnswers
<1>3. o.legal.fold <=> o.toCall > 0
  BY DEF Seen
<1>4. Answers(o, CheckCall(o))
  BY <1>1, <1>3 DEF Answers, CheckCall
<1>5. Answers(o, FoldCheck(o))
  BY <1>1, <1>2 DEF Answers, FoldCheck
<1>6. /\ DOMAIN Big = 1 .. 3
      /\ DOMAIN <<"AllIn">> = 1 .. 1
      /\ DOMAIN <<"Call">> = 1 .. 1
      /\ DOMAIN <<"BetRaiseHalfPot", "BetRaiseQuarterPot">> = 1 .. 2
      /\ DOMAIN << >> = 1 .. 0
  BY DEF Big
<1>7. /\ PreferLegal(o, Big) \subseteq LegalPolicyActions(o)
      /\ PreferLegal(o, <<"AllIn">>) \subseteq LegalPolicyActions(o)
      /\ PreferLegal(o, <<"Call">>) \subseteq LegalPolicyActions(o)
      /\ PreferLegal(o, <<"BetRaiseHalfPot", "BetRaiseQuarterPot">>) \subseteq LegalPolicyActions(o)
      /\ PreferLegal(o, << >>) \subseteq LegalPolicyActions(o)
  BY <1>6, PreferAnswers
<1>8. Answers(o, PotPressure(o))
  BY <1>2, <1>7, ElseAnswers DEF PotPressure
<1>9. Answers(o, Jam(o))
  BY <1>2, <1>7, ElseAnswers DEF Jam
<1>10. Answers(o, LegalPolicyActions(o))
  BY <1>1 DEF Answers
<1>11. ASSUME NEW equity PROVE Answers(o, EquityPotOddsAt(o, equity))
  <2>1. CASE o.toCall = 0
    <3> DEFINE half == <<"BetRaiseHalfPot", "BetRaiseQuarterPot">>
               wishes == IF equity >= 750000 THEN Big ELSE IF equity >= 580000 THEN half ELSE << >>
    <3>1. wishes = Big \/ wishes = half \/ wishes = << >>
      <4> HIDE DEF half
      <4> QED OBVIOUS
    <3>2. PreferLegal(o, wishes) \subseteq LegalPolicyActions(o)
      <4> HIDE DEF wishes
      <4> QED BY <1>7, <3>1
    <3>3. EquityPotOddsAt(o, equity) = Else(PreferLegal(o, wishes), PassiveFallback(o))
      BY <2>1 DEF EquityPotOddsAt
    <3> QED BY <1>2, <3>2, <3>3, ElseAnswers
  <2>2. CASE o.toCall # 0
    <3> DEFINE raise == IF equity >= Max({o.odds + 200000, 650000}) THEN PreferLegal(o, Big) ELSE {}
               call == Else(PreferLegal(o, <<"Call">>), PassiveFallback(o))
               rest == IF equity >= o.odds THEN call
                       ELSE IF o.legal.fold THEN {"Fold"} ELSE PassiveFallback(o)
    <3>1. raise \subseteq LegalPolicyActions(o)
      BY <1>7
    <3>2. Answers(o, call)
      BY <1>2, <1>7, ElseAnswers
    <3>3. o.legal.fold => Answers(o, {"Fold"})
      BY <1>1 DEF Answers
    <3>4. Answers(o, rest)
      <4> HIDE DEF call
      <4> QED BY <1>2, <3>2, <3>3
    <3>5. EquityPotOddsAt(o, equity) = Else(raise, rest)
      BY <2>2 DEF EquityPotOddsAt
    <3> HIDE DEF raise, rest
    <3> QED BY <3>1, <3>4, <3>5, ElseAnswers
  <2> QED BY <2>1, <2>2
<1> QED BY <1>4, <1>5, <1>8, <1>9, <1>10, <1>11

(* The campaign's candidates are accepted, and there is one. *)
LEMMA CandidatesAccepted ==
  ASSUME NEW h, NEW s, NEW o, Seen(h, s, o)
  PROVE  /\ CampaignActions(o.legal) # {}
         /\ \A c \in CampaignActions(o.legal) : Accepts(h, s, c)
<1> DEFINE legal == o.legal
<1>1. Offers(h, s, legal)
  BY DEF Seen
<1> HIDE DEF legal
<1>2. CampaignActions(legal) # {}
  BY <1>1 DEF Offers, CampaignActions
<1>3. legal.minBet # None => MayBet(h, s, legal.minBet)
  BY <1>1 DEF Offers
<1>4. legal.minRaise # None => MayRaise(h, s, legal.minRaise)
  BY <1>1 DEF Offers
<1>5. ASSUME NEW c \in CampaignActions(legal) PROVE Accepts(h, s, c)
  <2>1. \/ legal.fold /\ c = Command("Fold", 0)
        \/ legal.check /\ c = Command("Check", 0)
        \/ legal.call # None /\ c = Command("Call", legal.call)
        \/ legal.minBet # None /\ c = Command("Bet", legal.minBet)
        \/ legal.minRaise # None /\ c = Command("Raise", legal.minRaise)
        \/ CanAllIn(legal) /\ c = Command("AllIn", legal.all)
    BY Zenon DEF CampaignActions
  <2>2. /\ legal.fold => MayFold(h, s)
        /\ legal.check => MayCheck(h, s)
        /\ legal.call # None => MayCall(h, s) /\ legal.call = ToCall(h, s)
        /\ CanAllIn(legal) => MayAllIn(h, s) /\ legal.all = AllInTo(h, s)
    BY <1>1 DEF Offers
  <2> QED BY <1>3, <1>4, <2>1, <2>2, AcceptsEach
<1> QED BY <1>2, <1>5 DEF legal

-----------------------------------------------------------------------------
(* Lemmas about what is shown of a hand. *)

(* The amounts of a hand, before and after its settlement. *)
LEMMA AmountsShown ==
  ASSUME HandInv, Worth(hand)
  PROVE  AmountsAddUp(hand)
<1> DEFINE h == hand
           view == Projection(h, Watching)
<1>1. view.stack = h.stack /\ view.pot = PotTotal(h)
  BY DEF Projection
<1>2. Terminal(h) <=> Settled(h)
  BY DEF Terminal, Settled
<1>3. ASSUME ~ Terminal(h) PROVE SumFunction(view.stack) + view.pot = h.initial
  <2>1. Balanced(h)
    BY <1>2, <1>3 DEF Worth, Stakes
  <2>2. PotTotal(h) = SumFunction(h.total)
    BY <1>3 DEF PotTotal, Terminal
  <2> QED BY <1>1, <2>1, <2>2 DEF Balanced
<1>4. ASSUME Terminal(h)
      PROVE  /\ view.pot + SumFunction(h.returned) = SumFunction(view.total)
             /\ SumFunction(view.stack) = h.initial
  <2>1. Balanced(h) /\ Booked(h)
    BY <1>2, <1>4 DEF Worth, Earned
  <2>2. view.total = h.settled
    BY <1>4 DEF Projection
  <2>3. SumFunction(h.stack) \in Int
    <3>1. Occupied(h) \subseteq Seats /\ \A s \in Occupied(h) : h.stack[s] \in Nat
      BY <2>1 DEF Booked
    <3>2. IsFiniteSet(Occupied(h)) /\ \A s \in Occupied(h) : h.stack[s] \in Int
      BY <3>1, SeatsFinite
    <3> QED BY <3>2, SumIsInt DEF SumFunction, Occupied
  <2> QED BY <1>1, <2>1, <2>2, <2>3 DEF Balanced, Booked
<1> QED BY <1>3, <1>4 DEF AmountsAddUp

(* The record of a finished hand. *)
LEMMA RecordIsPublic ==
  ASSUME HandInv, Worth(hand)
  PROVE  HistoryIsPublic(hand)
<1> DEFINE h == hand
           record == SafeHistory(h)
<1> SUFFICES ASSUME Terminal(h)
    PROVE  /\ record.revealed \subseteq Eligible(h)
           /\ h.phase = "Showdown" => \A a \in record.awards : DOMAIN a.payouts \subseteq record.revealed
  BY DEF HistoryIsPublic
<1>1. Settled(h) /\ Earned(h)
  BY DEF Terminal, Settled, Worth
<1>2. h.phase # "Showdown" => h.revealed = {}
  BY <1>1 DEF HandInv, Sound, InBetting, InShowdown, BoardFits, Settled, Over
<1>3. h.revealed \subseteq Eligible(h)
  BY <1>1, <1>2 DEF Earned, Booked
<1>4. record.revealed = h.revealed /\ record.awards = h.awards
  <2>1. Occupied(h) \subseteq Seats
    BY <1>1 DEF Earned, Booked
  <2>2. \A s \in Occupied(h) : s # Watching
    BY <2>1, HandAssumption DEF Seats, Watching
  <2>3. h.revealed \subseteq Occupied(h)
    BY <1>3 DEF Eligible
  <2>4. record.revealed = {s \in Occupied(h) : s = Watching \/ s \in h.revealed}
    BY DEF SafeHistory, Projection
  <2>5. record.awards = h.awards
    BY DEF SafeHistory
  <2> QED BY <2>2, <2>3, <2>4, <2>5
<1>5. h.phase = "Showdown" => \A a \in h.awards : DOMAIN a.payouts \subseteq h.revealed
  BY <1>1 DEF Earned, PaidToTabled
<1> QED BY <1>3, <1>4, <1>5

(* A command of the set that is looked at, and accepted. *)
Taken(h, s, c) == c \in Commands(h) /\ Accepts(h, s, c)

(* The client lets through what the hand accepts. *)
LEMMA ClientExact ==
  ASSUME NEW h, NEW s, NEW legal, Offers(h, s, legal), h.initial \in Nat, NEW c \in Commands(h)
  PROVE  Accepts(h, s, c) <=> ClientAllows(legal, c)
<1>1. c.to \in Int
  BY DEF Commands, Command, Amounts
<1>2. MayFold(h, s) <=> legal.fold
  BY DEF Offers
<1>3. MayCheck(h, s) <=> legal.check
  BY DEF Offers
<1>4. MayCall(h, s) /\ c.to = ToCall(h, s) <=> legal.call # None /\ legal.call = c.to
  BY DEF Offers
<1>5. MayBet(h, s, c.to) <=> legal.minBet # None /\ c.to >= legal.minBet /\ c.to < legal.all
  BY <1>1 DEF Offers
<1>6. MayRaise(h, s, c.to) <=> legal.minRaise # None /\ c.to >= legal.minRaise /\ c.to < legal.all
  BY <1>1 DEF Offers
<1>7. MayAllIn(h, s) /\ c.to = AllInTo(h, s) <=> c.to = legal.all /\ CanAllIn(legal)
  BY DEF Offers
<1> QED BY <1>2, <1>3, <1>4, <1>5, <1>6, <1>7, Zenon DEF Accepts, ClientAllows

(* What the offer names is among the commands, and accepted. *)
LEMMA OfferTaken ==
  ASSUME NEW h, NEW s, NEW legal, Offers(h, s, legal), h.initial \in Nat, legal.all <= h.initial,
         legal.call <= h.initial
  PROVE  /\ legal.fold => Taken(h, s, Command("Fold", 0))
         /\ legal.check => Taken(h, s, Command("Check", 0))
         /\ legal.call # None => Taken(h, s, Command("Call", legal.call))
         /\ CanAllIn(legal) => Taken(h, s, Command("AllIn", legal.all))
         /\ \A to \in Int :
              /\ legal.minBet # None /\ to >= legal.minBet /\ to < legal.all
                   => Taken(h, s, Command("Bet", to))
              /\ legal.minRaise # None /\ to >= legal.minRaise /\ to < legal.all
                   => Taken(h, s, Command("Raise", to))
<1>1. /\ legal.call \in Amounts(h) /\ legal.all \in Amounts(h)
      /\ \A to \in Int : /\ to >= legal.minBet /\ to < legal.all => to \in Amounts(h)
                         /\ to >= legal.minRaise /\ to < legal.all => to \in Amounts(h)
  BY DEF Amounts, Offers
<1>2. /\ Command("Fold", 0) \in Commands(h) /\ Command("Check", 0) \in Commands(h)
      /\ \A kind \in {"Call", "Bet", "Raise", "AllIn"} : \A to \in Amounts(h) :
           Command(kind, to) \in Commands(h)
  BY DEF Commands
<1>3. /\ legal.fold => MayFold(h, s)
      /\ legal.check => MayCheck(h, s)
      /\ legal.call # None => MayCall(h, s) /\ legal.call = ToCall(h, s)
      /\ CanAllIn(legal) => MayAllIn(h, s) /\ legal.all = AllInTo(h, s)
  BY DEF Offers
<1>4. \A to \in Int : /\ legal.minBet # None /\ to >= legal.minBet /\ to < legal.all
                           => MayBet(h, s, to)
                      /\ legal.minRaise # None /\ to >= legal.minRaise /\ to < legal.all
                           => MayRaise(h, s, to)
  BY DEF Offers
<1> QED BY <1>1, <1>2, <1>3, <1>4, AcceptsEach DEF Taken

(* What the seat to act is offered is no more than the chips in play. *)
LEMMA OfferFits ==
  ASSUME HandInv, Worth(hand), NEW s \in Occupied(hand), ToAct(s),
         NEW legal, legal = LegalActions(hand, s)
  PROVE  /\ Offers(hand, s, legal) /\ hand.initial \in Nat
         /\ legal.all <= hand.initial /\ legal.call <= hand.initial
<1> DEFINE h == hand
           D == Occupied(h)
<1>1. Offers(h, s, legal)
  BY OfferExact
<1>2. /\ InBetting(h) /\ Stakes(h) /\ h.street[s] \in Nat /\ h.stack[s] \in Nat
      /\ h.wager \in Nat
  BY ActorStakes
<1>3. D \subseteq Seats /\ h.stack \in [D -> Nat] /\ h.total \in [D -> Nat]
  BY <1>2 DEF InBetting, Chips, Stakes, Typed
<1>4. IsFiniteSet(D)
  BY <1>3, SeatsFinite
<1>5. /\ \A x \in D : h.stack[x] \in Nat /\ h.total[x] \in Nat
      /\ DOMAIN h.stack = D /\ DOMAIN h.total = D
  BY <1>3
<1>6. h.stack[s] <= SumFunction(h.stack) /\ SumFunction(h.stack) \in Nat
  <2> HIDE DEF D
  <2>1. h.stack[s] <= SumFunctionOnSet(h.stack, D)
    BY <1>4, <1>5, SumHolds DEF D
  <2>2. SumFunctionOnSet(h.stack, D) \in Nat
    BY <1>4, <1>5, SumIsNat
  <2> QED BY <1>5, <2>1, <2>2 DEF SumFunction
<1>7. h.total[s] <= SumFunction(h.total) /\ SumFunction(h.total) \in Nat
  <2> HIDE DEF D
  <2>1. h.total[s] <= SumFunctionOnSet(h.total, D)
    BY <1>4, <1>5, SumHolds DEF D
  <2>2. SumFunctionOnSet(h.total, D) \in Nat
    BY <1>4, <1>5, SumIsNat
  <2> QED BY <1>5, <2>1, <2>2 DEF SumFunction
<1>8. h.initial = SumFunction(h.stack) + SumFunction(h.total)
  BY <1>2 DEF Stakes, Balanced
<1>9. h.street[s] <= h.total[s] /\ h.total[s] \in Nat
  BY <1>2, <1>5 DEF Stakes, Level
<1>10. legal.all = h.street[s] + h.stack[s]
  BY <1>1 DEF Offers, AllInTo
<1>11. h.initial \in Nat /\ legal.all <= h.initial
  BY <1>2, <1>6, <1>7, <1>8, <1>9, <1>10
<1>12. legal.call <= h.initial
  <2>1. CASE legal.call = None
    BY <1>11, <2>1 DEF None
  <2>2. CASE legal.call # None
    <3>1. legal.call < h.stack[s] /\ legal.call \in Nat
      BY <1>1, <2>2 DEF Offers, MayCall
    <3> QED BY <1>2, <1>6, <1>7, <1>8, <3>1
  <2> QED BY <2>1, <2>2
<1> QED BY <1>1, <1>11, <1>12

(* The keys that choose for the player choose something that is accepted. *)
LEMMA KeysTaken ==
  ASSUME NEW h, NEW s, NEW legal, Offers(h, s, legal), h.initial \in Nat, legal.all <= h.initial,
         legal.call <= h.initial
  PROVE  /\ Taken(h, s, PassiveAction(legal)) /\ Taken(h, s, AllInAction(legal))
         /\ Taken(h, s, CheckOrCall(legal))
<1>1. /\ legal.fold => Taken(h, s, Command("Fold", 0))
      /\ legal.check => Taken(h, s, Command("Check", 0))
      /\ legal.call # None => Taken(h, s, Command("Call", legal.call))
      /\ CanAllIn(legal) => Taken(h, s, Command("AllIn", legal.all))
  BY OfferTaken
<1>2. legal.fold <=> ~ legal.check
  BY DEF Offers
<1>3. ~ legal.check /\ legal.call = None => CanAllIn(legal)
  BY DEF CanAllIn
<1>4. Taken(h, s, PassiveAction(legal))
  <2>1. CASE legal.check
    BY <1>1, <2>1 DEF PassiveAction
  <2>2. CASE ~ legal.check /\ legal.call # None
    BY <1>1, <2>2 DEF PassiveAction
  <2>3. CASE ~ legal.check /\ legal.call = None
    BY <1>1, <1>2, <2>3 DEF PassiveAction
  <2> QED BY <2>1, <2>2, <2>3
<1>5. Taken(h, s, CheckOrCall(legal))
  <2>1. CASE legal.check
    BY <1>1, <2>1 DEF CheckOrCall
  <2>2. CASE ~ legal.check /\ legal.call # None
    BY <1>1, <2>2 DEF CheckOrCall
  <2>3. CASE ~ legal.check /\ legal.call = None
    BY <1>1, <1>3, <2>3 DEF CheckOrCall
  <2> QED BY <2>1, <2>2, <2>3
<1>6. Taken(h, s, AllInAction(legal))
  BY <1>1, <1>4 DEF AllInAction
<1> QED BY <1>4, <1>5, <1>6

(* An amount between the smallest wager and an all-in is taken. *)
LEMMA SizedTaken ==
  ASSUME NEW h, NEW s, NEW legal, Offers(h, s, legal), h.initial \in Nat, legal.all <= h.initial,
         legal.call <= h.initial, legal.minRaise # None \/ legal.minBet # None,
         NEW to \in Int, to >= Minimum(legal), to < legal.all
  PROVE  Taken(h, s, Command(IF legal.minRaise # None THEN "Raise" ELSE "Bet", to))
<1>1. /\ legal.minBet # None /\ to >= legal.minBet /\ to < legal.all
           => Taken(h, s, Command("Bet", to))
      /\ legal.minRaise # None /\ to >= legal.minRaise /\ to < legal.all
           => Taken(h, s, Command("Raise", to))
  BY OfferTaken
<1>2. CASE legal.minRaise # None
  BY <1>1, <1>2 DEF Minimum
<1>3. CASE legal.minRaise = None
  BY <1>1, <1>3 DEF Minimum
<1> QED BY <1>2, <1>3

(* What the raise editor holds is an amount it can send. *)
LEMMA EnteredTaken ==
  ASSUME NEW h, NEW s, NEW legal, Offers(h, s, legal), h.initial \in Nat, legal.all <= h.initial,
         legal.call <= h.initial, Minimum(legal) < legal.all, NEW n \in Int,
         NEW c, c = EnteredRaise(legal, n), c.kind # "AllIn"
  PROVE  Taken(h, s, c)
<1> DEFINE least == Minimum(legal)
           most == Max({n, least})
           to == Min({most, legal.all})
           kind == IF legal.minRaise # None THEN "Raise" ELSE "Bet"
<1>1. least \in Nat /\ legal.all \in Nat
  BY DEF Offers, Minimum
<1>2. legal.minRaise # None \/ legal.minBet # None
  BY <1>1 DEF Minimum
<1>3. least < legal.all
  OBVIOUS
<1>4. c = IF to = legal.all THEN Command("AllIn", to) ELSE Command(kind, to)
  BY DEF EnteredRaise, Clamped
<1> HIDE DEF least
<1>5. most \in Int /\ most >= least
  <2>1. most = IF n >= least THEN n ELSE least
    BY <1>1, MaxOfTwo
  <2> HIDE DEF most
  <2> QED BY <1>1, <2>1
<1> HIDE DEF most
<1>6. to = IF most <= legal.all THEN most ELSE legal.all
  BY <1>1, <1>5, MinOfTwo
<1> HIDE DEF to, kind
<1>7. to # legal.all
  BY <1>4 DEF Command
<1>8. to \in Int /\ to >= least /\ to < legal.all
  BY <1>1, <1>3, <1>5, <1>6, <1>7
<1>9. c = Command(kind, to)
  BY <1>4, <1>7
<1> QED BY <1>2, <1>8, <1>9, SizedTaken DEF least, kind

(* The amounts the programs start from. *)
LEMMA WishesAreInt ==
  ASSUME NEW h, PotTotal(h) \in Int, h.wager \in Int, h.blinds.bb \in Int
  PROVE  \A wish \in WishedWagers(h) : wish \in Int
<1> SUFFICES ASSUME NEW wish \in WishedWagers(h) PROVE wish \in Int
  OBVIOUS
<1>1. CASE h.phase = "Preflop"
  BY <1>1 DEF WishedWagers
<1>2. CASE h.phase # "Preflop"
  <2>1. PICK f \in {1, 2} : wish = h.wager + Max({(PotTotal(h) * f) \div 3, h.blinds.bb})
    BY <1>2 DEF WishedWagers
  <2>2. PICK x : x = PotTotal(h) * f
    OBVIOUS
  <2>3. x \in Int
    BY <2>2
  <2>4. PICK y : y = x \div 3
    OBVIOUS
  <2>5. y \in Int
    BY <2>3, <2>4
  <2>6. PICK z : z = Max({y, h.blinds.bb})
    OBVIOUS
  <2>7. z = IF y >= h.blinds.bb THEN y ELSE h.blinds.bb
    BY <2>5, <2>6, MaxOfTwo
  <2>8. z \in Int
    BY <2>5, <2>7
  <2>9. wish = h.wager + z
    BY <2>1, <2>2, <2>4, <2>6
  <2> QED BY <2>8, <2>9
<1> QED BY <1>1, <1>2

(* The opponents do what is accepted. *)
LEMMA OpponentsTaken ==
  ASSUME NEW h, NEW s, NEW legal, Offers(h, s, legal), h.initial \in Nat, legal.all <= h.initial,
         legal.call <= h.initial, \A wish \in WishedWagers(h) : wish \in Int,
         NEW c \in OpponentActions(h, legal)
  PROVE  Taken(h, s, c)
<1> DEFINE kind == IF legal.minRaise # None THEN "Raise" ELSE "Bet"
           sized == {Command(kind, Min({Max({wish, Minimum(legal)}), legal.all - 1})) : wish \in WishedWagers(h)}
<1>1. OpponentActions(h, legal) = {CheckOrCall(legal)}
        \cup (IF legal.check THEN {} ELSE {Command("Fold", 0)})
        \cup (IF legal.minRaise = None /\ legal.minBet = None THEN {} ELSE sized)
  BY Zenon DEF OpponentActions
<1>2. CASE c = CheckOrCall(legal)
  BY <1>2, KeysTaken
<1>3. CASE ~ legal.check /\ c = Command("Fold", 0)
  <2>1. legal.fold
    BY <1>3 DEF Offers
  <2> QED BY <1>3, <2>1, OfferTaken
<1>4. CASE (legal.minRaise # None \/ legal.minBet # None) /\ c \in sized
  <2> DEFINE least == Minimum(legal)
             most(wish) == Max({wish, least})
  <2>1. PICK wish \in WishedWagers(h) : c = Command(kind, Min({most(wish), legal.all - 1}))
    BY <1>4
  <2>2. least \in Nat /\ legal.all \in Nat /\ least <= legal.all - 1 /\ wish \in Int
    BY <1>4 DEF Offers, Minimum
  <2> HIDE DEF least
  <2>3. PICK m : m = most(wish)
    OBVIOUS
  <2>4. m = IF wish >= least THEN wish ELSE least
    BY <2>2, <2>3, MaxOfTwo
  <2>5. m \in Int /\ m >= least
    BY <2>2, <2>4
  <2>6. PICK last : last = legal.all - 1
    OBVIOUS
  <2>7. last \in Int /\ least <= last /\ last < legal.all
    BY <2>2, <2>6
  <2>8. PICK to : to = Min({m, last})
    OBVIOUS
  <2>9. to = IF m <= last THEN m ELSE last
    BY <2>5, <2>7, <2>8, MinOfTwo
  <2>10. to \in Int /\ to >= least /\ to < legal.all
    BY <2>2, <2>5, <2>7, <2>9
  <2>11. c = Command(kind, to)
    BY <2>1, <2>3, <2>6, <2>8
  <2> QED BY <1>4, <2>10, <2>11, SizedTaken DEF least
<1> HIDE DEF sized
<1> QED BY <1>1, <1>2, <1>3, <1>4

(* The coach names what can be done. *)
LEMMA AdviceFollows ==
  ASSUME NEW h, NEW s, NEW legal, legal = LegalActions(h, s), Offers(h, s, legal),
         h.initial \in Nat, legal.all <= h.initial, legal.call <= h.initial,
         NEW c \in Commands(h), NEW advice \in PostflopAdvice(legal, c.kind)
  PROVE  CanFollow(h, s, advice)
<1>1. c.kind \in {"Fold", "Check", "Call", "Bet", "Raise", "AllIn"}
  BY DEF Commands, Command
<1>2. \/ advice = "check_call"
      \/ advice = "fold" /\ legal.fold
      \/ advice = "raise" /\ (legal.minRaise # None \/ legal.minBet # None)
  BY <1>1 DEF PostflopAdvice, FoldAdvice, RaiseAdvice
<1>3. CASE advice = "check_call"
  <2>1. Accepts(h, s, CheckOrCall(legal))
    BY KeysTaken DEF Taken
  <2> QED BY <1>3, <2>1 DEF CanFollow
<1>4. CASE advice = "fold" /\ legal.fold
  BY <1>4 DEF CanFollow, Offers
<1>5. CASE advice = "raise" /\ (legal.minRaise # None \/ legal.minBet # None)
  <2>1. /\ legal.minBet \in Amounts(h) /\ legal.minRaise \in Amounts(h)
        /\ legal.minBet \in Int /\ legal.minRaise \in Int
    BY DEF Amounts, Offers
  <2>2. legal.minBet # None => MayBet(h, s, legal.minBet)
    BY DEF Offers
  <2>3. legal.minRaise # None => MayRaise(h, s, legal.minRaise)
    BY DEF Offers
  <2>4. \E to \in Amounts(h) : MayBet(h, s, to) \/ MayRaise(h, s, to)
    BY <1>5, <2>1, <2>2, <2>3
  <2> QED BY <1>5, <2>4 DEF CanFollow
<1> QED BY <1>2, <1>3, <1>4, <1>5

(* The presets of the raise editor are amounts. *)
LEMMA PresetsAreInt ==
  ASSUME NEW h, NEW s, NEW legal, Offers(h, s, legal), PotTotal(h) \in Int, h.wager \in Int,
         CallCost(h, s) \in Int, NEW n \in RaisePresets(h, s, legal)
  PROVE  n \in Int
<1> DEFINE base == PotTotal(h) + CallCost(h, s)
           target(fraction) == Clamped(legal, h.wager + CeilFraction(base, fraction))
<1>1. Minimum(legal) \in Int /\ legal.all \in Int
  BY DEF Offers, Minimum
<1>2. ASSUME NEW a \in Int PROVE Clamped(legal, a) \in Int
  <2>1. PICK m : m = Max({a, Minimum(legal)})
    OBVIOUS
  <2>2. m = IF a >= Minimum(legal) THEN a ELSE Minimum(legal)
    BY <1>1, <1>2, <2>1, MaxOfTwo
  <2>3. m \in Int
    BY <1>1, <1>2, <2>2
  <2>4. Min({m, legal.all}) = IF m <= legal.all THEN m ELSE legal.all
    BY <1>1, <2>3, MinOfTwo
  <2>5. Clamped(legal, a) = Min({m, legal.all})
    BY <2>1 DEF Clamped
  <2> QED BY <1>1, <2>3, <2>4, <2>5
<1>3. base \in Int
  OBVIOUS
<1> HIDE DEF base
<1>4. ASSUME NEW x \in Nat, NEW y \in Nat \ {0} PROVE target(<<x, y>>) \in Int
  <2>1. PICK z : z = base * x + y - 1
    OBVIOUS
  <2>2. z \in Int
    BY <1>3, <2>1
  <2>3. PICK w : w = z \div y
    OBVIOUS
  <2>4. w \in Int
    BY <2>2, <2>3
  <2>5. CeilFraction(base, <<x, y>>) = w
    BY <2>1, <2>3 DEF CeilFraction
  <2>6. h.wager + w \in Int
    BY <2>4
  <2> QED BY <1>2, <2>5, <2>6
<1>5. RaisePresets(h, s, legal) = {Minimum(legal), target(<<1, 2>>), target(<<3, 4>>), target(<<1, 1>>), legal.all}
  BY Zenon DEF RaisePresets, base
<1>6. /\ target(<<1, 2>>) \in Int /\ target(<<3, 4>>) \in Int /\ target(<<1, 1>>) \in Int
  BY <1>4
<1> HIDE DEF target
<1> QED BY <1>1, <1>5, <1>6

-----------------------------------------------------------------------------
(* Lemmas about the pot a caller plays for. *)

(* What the other seats put in, and the pots a seat can win. *)
PutIn(total, s) == {total[t] : t \in DOMAIN total \ {s}}
PotsFor(total, eligible, s) == {p \in BuildPots(total, eligible) : s \in p.eligible}

(* Up to the least of what a seat has in and the most that another has, every
   layer is contested; above, the seat has no part in a pot. *)
LEMMA PotsForByLayer ==
  ASSUME NEW total, Contributions(total), NEW eligible, NEW s \in DOMAIN total, s \in eligible,
         NEW r \in DOMAIN total, r # s, \A t \in DOMAIN total \ {s} : total[t] <= total[r],
         NEW m, m = Min({total[s], total[r]})
  PROVE  /\ m \in Layers(total) \cup {0}
         /\ PotsFor(total, eligible, s) = {PotOf(total, eligible, l) : l \in UpTo(Layers(total), m)}
<1> DEFINE D == DOMAIN total
           K == Layers(total)
<1>1. /\ IsFiniteSet(D) /\ \A l \in K : l \in Nat /\ l > 0
      /\ \A t \in D : total[t] \in K \cup {0}
  BY LayersFinite
<1>2. \A t \in D : total[t] \in Nat
  BY DEF Contributions
<1>3. m = IF total[s] <= total[r] THEN total[s] ELSE total[r]
  BY <1>2, MinOfTwo
<1>4. m \in K \cup {0} /\ m <= total[s] /\ m <= total[r] /\ m \in Nat
  BY <1>1, <1>2, <1>3
<1>5. ASSUME NEW l \in K
      PROVE  Cardinality(Contributors(total, l)) > 1 /\ s \in Contributors(total, l) <=> l <= m
  <2> DEFINE C == Contributors(total, l)
  <2>1. l \in Nat
    BY <1>1
  <2>2. \A t \in D : t \in C <=> total[t] >= l
    BY DEF Contributors
  <2>3. C \subseteq D
    BY DEF Contributors
  <2> HIDE DEF C, D
  <2>4. IsFiniteSet(C) /\ Cardinality(C) \in Nat
    BY <1>1, <2>3, FS_Subset, FS_CardinalityType
  <2>5. ASSUME Cardinality(C) > 1, s \in C PROVE l <= m
    <3>1. C # {s}
      BY <2>5, FS_Singleton
    <3>2. PICK t \in C : t # s
      BY <2>5, <3>1
    <3>3. total[t] <= total[r] /\ total[t] >= l /\ total[s] >= l
      BY <2>2, <2>3, <2>5, <3>2 DEF D
    <3>4. total[t] \in Nat /\ total[r] \in Nat /\ total[s] \in Nat
      BY <1>2, <2>3, <3>2 DEF D
    <3> QED BY <1>3, <2>1, <3>3, <3>4
  <2>6. ASSUME l <= m PROVE Cardinality(C) > 1 /\ s \in C
    <3>1. total[s] \in Nat /\ total[r] \in Nat /\ s \in D /\ r \in D
      BY <1>2 DEF D
    <3>2. s \in C /\ r \in C
      BY <1>4, <2>1, <2>2, <2>6, <3>1
    <3>3. IsFiniteSet(C \ {s}) /\ Cardinality(C \ {s}) \in Nat
      BY <2>4, FS_Difference, FS_CardinalityType
    <3>5. Cardinality(C \ {s}) = Cardinality(C) - 1
      BY <2>4, <3>2, PartWithout
    <3>4. Cardinality(C \ {s}) # 0
      BY <3>2, <3>3, FS_EmptySet
    <3> QED BY <2>4, <3>2, <3>3, <3>4, <3>5
  <2> QED BY <2>5, <2>6 DEF C
<1>6. BuildPots(total, eligible) = {PotOf(total, eligible, l) : l \in {l \in K : Cardinality(Contributors(total, l)) > 1}}
  BY Zenon DEF BuildPots, PotOf
<1>7. \A l \in K : s \in PotOf(total, eligible, l).eligible <=> s \in Contributors(total, l)
  BY DEF PotOf
<1>8. \A l \in K : l \in UpTo(K, m) <=> l <= m
  BY DEF UpTo
<1>9. UpTo(K, m) \subseteq K
  BY DEF UpTo
<1> HIDE DEF K
<1>10. ASSUME NEW p \in PotsFor(total, eligible, s)
       PROVE  p \in {PotOf(total, eligible, l) : l \in UpTo(K, m)}
  <2>1. p \in BuildPots(total, eligible) /\ s \in p.eligible
    BY DEF PotsFor
  <2>2. PICK l \in K : Cardinality(Contributors(total, l)) > 1 /\ p = PotOf(total, eligible, l)
    BY <1>6, <2>1
  <2>3. l \in UpTo(K, m)
    BY <1>5, <1>7, <1>8, <2>1, <2>2
  <2> QED BY <2>2, <2>3
<1>11. ASSUME NEW l \in UpTo(K, m) PROVE PotOf(total, eligible, l) \in PotsFor(total, eligible, s)
  <2>1. l \in K /\ l <= m
    BY <1>8, <1>9
  <2>2. Cardinality(Contributors(total, l)) > 1 /\ s \in Contributors(total, l)
    BY <1>5, <2>1
  <2>3. PotOf(total, eligible, l) \in BuildPots(total, eligible)
    BY <1>6, <2>1, <2>2
  <2> QED BY <1>7, <2>1, <2>2, <2>3 DEF PotsFor
<1> QED BY <1>4, <1>10, <1>11 DEF K

(* The pots a seat can win hold, of every other seat's chips, at most what the
   seat has in itself, and of its own what another seat matched. *)
LEMMA PotsForAddUp ==
  ASSUME NEW total, Contributions(total), NEW eligible, NEW s \in DOMAIN total, s \in eligible,
         DOMAIN total \ {s} # {},
         NEW caps, \A t \in DOMAIN total \ {s} : caps[t] = Min({total[s], total[t]}),
         NEW pots, pots = PotsFor(total, eligible, s)
  PROVE  SumFunction([p \in pots |-> p.amount])
           = SumFunctionOnSet(caps, DOMAIN total \ {s}) + Min({total[s], Max(PutIn(total, s))})
<1> DEFINE D == DOMAIN total
           K == Layers(total)
           O == D \ {s}
<1>1. IsFiniteSet(D) /\ IsFiniteSet(K)
  BY LayersFinite
<1>2. \A t \in D : total[t] \in Nat
  BY DEF Contributions
<1>3. PICK r \in O : \A t \in O : total[r] >= total[t]
  <2>1. IsFiniteSet(O)
    BY <1>1, FS_Subset
  <2>2. \A t \in O : total[t] \in Int
    BY <1>2
  <2> HIDE DEF O
  <2>3. O # {}
    BY DEF O
  <2> QED BY <2>1, <2>2, <2>3, StrongestOf
<1>4. r \in D /\ r # s /\ \A t \in D \ {s} : total[t] <= total[r]
  BY <1>2, <1>3
<1>5. Max(PutIn(total, s)) = total[r]
  <2> DEFINE P == PutIn(total, s)
  <2>1. \A x \in P : x \in Nat /\ x <= total[r]
    BY <1>2, <1>3 DEF PutIn
  <2>2. total[r] \in P
    BY DEF PutIn
  <2>3. total[r] \in Nat
    BY <1>2, <1>4
  <2> HIDE DEF P
  <2>4. Max(P) \in P /\ \A x \in P : Max(P) >= x
    BY <2>1, <2>2, <2>3, MaxOfBounded, MaxIsGreatest
  <2>5. Max(P) \in Nat /\ Max(P) <= total[r] /\ Max(P) >= total[r]
    BY <2>1, <2>2, <2>4
  <2> QED BY <2>3, <2>5 DEF P
<1>6. PICK m : m = Min({total[s], total[r]})
  OBVIOUS
<1>7. m = IF total[s] <= total[r] THEN total[s] ELSE total[r]
  BY <1>2, <1>4, <1>6, MinOfTwo
<1> DEFINE amounts == [l \in K |-> LayerAmount(total, l)]
           matched == [t \in D |-> Min({m, total[t]})]
           U == UpTo(K, m)
<1>8. /\ m \in K \cup {0} /\ pots = {PotOf(total, eligible, l) : l \in U}
  BY <1>4, <1>6, PotsForByLayer
<1>9. \A l \in K : amounts[l] = LayerAmount(total, l) /\ amounts[l] \in Nat
  <2> SUFFICES ASSUME NEW l \in K PROVE LayerAmount(total, l) \in Nat
    OBVIOUS
  <2> DEFINE slices == [t \in D |-> Slice(total, l, t)]
  <2>1. \A t \in D : slices[t] = Slice(total, l, t)
    OBVIOUS
  <2> HIDE DEF slices
  <2> QED BY <2>1, LayerIsSlices
<1>10. \A t \in D : matched[t] = Min({m, total[t]})
  OBVIOUS
<1>11. U \subseteq K /\ IsFiniteSet(U)
  <2>1. U \subseteq K
    BY DEF UpTo
  <2> QED BY <1>1, <2>1, FS_Subset
<1> HIDE DEF amounts, matched
<1>12. SumFunctionOnSet(amounts, U) = SumFunctionOnSet(matched, D)
  BY <1>8, <1>9, <1>10, LayersUpTo
<1>13. SumFunction([p \in pots |-> p.amount]) = SumFunctionOnSet(amounts, U)
  <2> HIDE DEF U
  <2>1. U \subseteq Layers(total) /\ \A l \in U : amounts[l] = LayerAmount(total, l) /\ amounts[l] \in Nat
    BY <1>9, <1>11
  <2> QED BY <1>8, <1>11, <2>1, PotsByLayer
<1>14. \A t \in D : matched[t] \in Int
  <2> SUFFICES ASSUME NEW t \in D PROVE matched[t] \in Int
    OBVIOUS
  <2>1. m \in Int /\ total[t] \in Int
    BY <1>2, <1>4, <1>7
  <2>2. Min({m, total[t]}) = IF m <= total[t] THEN m ELSE total[t]
    BY <2>1, MinOfTwo
  <2> QED BY <1>10, <2>1, <2>2
<1>15. matched[s] = m
  <2>1. m \in Int /\ total[s] \in Int /\ m <= total[s]
    BY <1>2, <1>4, <1>7
  <2>2. Min({m, total[s]}) = IF m <= total[s] THEN m ELSE total[s]
    BY <2>1, MinOfTwo
  <2> QED BY <1>10, <2>1, <2>2
<1>16. \A t \in O : matched[t] = caps[t]
  <2> SUFFICES ASSUME NEW t \in O PROVE matched[t] = caps[t]
    OBVIOUS
  <2>1. total[t] \in Int /\ total[s] \in Int /\ total[r] \in Int /\ total[t] <= total[r] /\ m \in Int
    BY <1>2, <1>4, <1>7
  <2>2. Min({m, total[t]}) = IF m <= total[t] THEN m ELSE total[t]
    BY <2>1, MinOfTwo
  <2>3. Min({total[s], total[t]}) = IF total[s] <= total[t] THEN total[s] ELSE total[t]
    BY <2>1, MinOfTwo
  <2>4. Min({m, total[t]}) = Min({total[s], total[t]})
    BY <1>7, <2>1, <2>2, <2>3
  <2> QED BY <1>10, <2>4
<1>17. SumFunctionOnSet(matched, D) = matched[s] + SumFunctionOnSet(matched, O)
  <2> HIDE DEF D
  <2>1. s \in D
    BY DEF D
  <2> QED BY <1>1, <1>14, <2>1, SumWithout
<1>18. SumFunctionOnSet(matched, O) = SumFunctionOnSet(caps, O) /\ SumFunctionOnSet(matched, O) \in Int
  <2>1. IsFiniteSet(O)
    BY <1>1, FS_Subset
  <2>2. \A t \in O : matched[t] \in Int
    BY <1>14
  <2> HIDE DEF O
  <2> QED BY <1>16, <2>1, <2>2, SumSame, SumIsInt
<1>19. m \in Int
  BY <1>2, <1>4, <1>7
<1>20. SumFunction([p \in pots |-> p.amount]) = SumFunctionOnSet(caps, O) + m
  <2> HIDE DEF O, U, D
  <2> QED BY <1>12, <1>13, <1>15, <1>17, <1>18, <1>19
<1> QED BY <1>5, <1>6, <1>20

(* A caller puts in a number of chips. *)
LEMMA CostIsNat ==
  ASSUME HandInv, Worth(hand), NEW s \in Occupied(hand), ToAct(s)
  PROVE  /\ CallCost(hand, s) \in Nat /\ CallCost(hand, s) <= hand.stack[s]
         /\ hand.stack[s] \in Nat
<1>1. InBetting(hand) /\ hand.stack[s] \in Nat
  BY ActorStakes
<1>2. ToCall(hand, s) \in Nat
  BY <1>1, ToCallIsNat
<1>3. CallCost(hand, s) = IF ToCall(hand, s) <= hand.stack[s] THEN ToCall(hand, s) ELSE hand.stack[s]
  BY <1>1, <1>2, MinOfTwo DEF CallCost
<1> QED BY <1>1, <1>2, <1>3

(* The pot a caller is said to play for is what the caller can win. *)
LEMMA PotIsWinnable ==
  ASSUME HandInv, Worth(hand), NEW s \in Occupied(hand), ToAct(s)
  PROVE  ContestablePot(hand, s) = Winnable(hand, s)
<1> DEFINE h == hand
           D == Occupied(h)
           after == AfterCall(h, s)
           O == D \ {s}
           caps == [t \in O |-> Min({after[s], h.total[t]})]
<1>1. /\ InBetting(h) /\ Stakes(h) /\ s \in Live(h)
  BY ActorStakes
<1>2. D \subseteq Seats /\ h.total \in [D -> Nat] /\ Several(D)
  BY <1>1 DEF Stakes, Typed, InBetting, Chips
<1>3. CallCost(h, s) \in Nat
  BY CostIsNat
<1>4. after = [h.total EXCEPT ![s] = @ + CallCost(h, s)]
  BY DEF AfterCall
<1>5. DOMAIN after = D /\ after \in [D -> Nat] /\ \A t \in O : after[t] = h.total[t]
  BY <1>2, <1>3, <1>4
<1>6. s \in Eligible(h)
  BY <1>1 DEF Live, Eligible, CanAct
<1>7. O # {}
  BY <1>2 DEF Several
<1> HIDE DEF after
<1>8. Contributions(after)
  BY <1>2, <1>5 DEF Contributions
<1>9. \A t \in DOMAIN after \ {s} : caps[t] = Min({after[s], after[t]})
  BY <1>5
<1>10. DOMAIN after \ {s} = O /\ s \in DOMAIN after
  BY <1>5
<1>11. PICK pots : pots = PotsFor(after, Eligible(h), s)
  OBVIOUS
<1>12. SumFunction([p \in pots |-> p.amount]) = SumFunctionOnSet(caps, O) + Min({after[s], Max(PutIn(after, s))})
  <2> HIDE DEF caps, O
  <2>1. DOMAIN after \ {s} # {}
    BY <1>7, <1>10
  <2>2. SumFunction([p \in pots |-> p.amount])
          = SumFunctionOnSet(caps, DOMAIN after \ {s}) + Min({after[s], Max(PutIn(after, s))})
    BY <1>6, <1>8, <1>9, <1>10, <1>11, <2>1, PotsForAddUp
  <2> QED BY <1>10, <2>2
<1>13. ContestablePot(h, s) = SumFunction([p \in pots |-> p.amount])
  BY <1>11, Zenon DEF ContestablePot, PotsFor, after
<1>14. PutIn(after, s) = {h.total[t] : t \in O}
  BY <1>5, <1>10 DEF PutIn
<1>15. Winnable(h, s) = SumFunction(caps) + Min({after[s], Max({h.total[t] : t \in O})})
  BY Zenon DEF Winnable, after
<1>16. SumFunction(caps) = SumFunctionOnSet(caps, O)
  BY DEF SumFunction
<1> QED BY <1>12, <1>13, <1>14, <1>15, <1>16

(* What is left to play for against a seat is no more than it has. *)
LEMMA RemainingFits ==
  ASSUME HandInv, Worth(hand), NEW s \in Occupied(hand), ToAct(s), NEW t \in Occupied(hand)
  PROVE  /\ EffectiveRemaining(hand, s, t) <= hand.stack[t]
         /\ hand.part[t] = "AllIn" => EffectiveRemaining(hand, s, t) = 0
<1> DEFINE h == hand
<1>1. CallCost(h, s) \in Nat /\ CallCost(h, s) <= h.stack[s] /\ h.stack[s] \in Nat
  BY CostIsNat
<1>2. InBetting(h) /\ Stakes(h)
  BY ActorStakes
<1>3. h.stack[t] \in Nat
  BY <1>2 DEF InBetting, Chips
<1>4. PICK left : left = h.stack[s] - CallCost(h, s)
  OBVIOUS
<1>5. left \in Nat
  BY <1>1, <1>4
<1>6. PICK m : m = Max({0, left})
  OBVIOUS
<1>7. m = IF 0 >= left THEN 0 ELSE left
  BY <1>5, <1>6, MaxOfTwo
<1>8. m \in Nat
  BY <1>5, <1>7
<1>9. Min({m, h.stack[t]}) = IF m <= h.stack[t] THEN m ELSE h.stack[t]
  BY <1>3, <1>8, MinOfTwo
<1>10. EffectiveRemaining(h, s, t) = Min({m, h.stack[t]})
  BY <1>4, <1>6 DEF EffectiveRemaining
<1>11. h.part[t] = "AllIn" => h.stack[t] = 0
  BY <1>2 DEF Stakes, Spent
<1> QED BY <1>3, <1>8, <1>9, <1>10, <1>11

(* Everything that is derived from the offer is a command the hand accepts. *)
LEMMA OffersHold ==
  ASSUME HandInv, Worth(hand), NEW s \in Occupied(hand)
  PROVE  OfferHolds(hand, s)
<1> DEFINE h == hand
<1> SUFFICES ASSUME NEW legal \in Projection(h, s).legal,
                    NEW accepted, accepted = {c \in Commands(h) : Accepts(h, s, c)},
                    NEW entered, entered = {EnteredRaise(legal, n) : n \in Amounts(h) \cup RaisePresets(h, s, legal)}
    PROVE  /\ accepted = {c \in Commands(h) : ClientAllows(legal, c)}
           /\ {PassiveAction(legal), AllInAction(legal)} \cup OpponentActions(h, legal) \subseteq accepted
           /\ Minimum(legal) < legal.all => {c \in entered : c.kind # "AllIn"} \subseteq accepted
           /\ h.phase # "Preflop" =>
                \A advice \in UNION {PostflopAdvice(legal, c.kind) : c \in accepted} : CanFollow(h, s, advice)
           /\ ContestablePot(h, s) = Winnable(h, s)
           /\ \A t \in Eligible(h) \ {s} :
                /\ EffectiveRemaining(h, s, t) <= h.stack[t]
                /\ h.part[t] = "AllIn" => EffectiveRemaining(h, s, t) = 0
  BY Zenon DEF OfferHolds
<1>1. ToAct(s) /\ legal = LegalActions(h, s)
  BY DEF Projection
<1>2. Offers(h, s, legal) /\ h.initial \in Nat /\ legal.all <= h.initial /\ legal.call <= h.initial
  BY <1>1, OfferFits
<1>3. \A c : c \in accepted <=> Taken(h, s, c)
  BY DEF Taken
<1>4. /\ InBetting(h) /\ Stakes(h) /\ h.wager \in Int /\ h.blinds.bb \in Int
  BY <1>1, ActorStakes
<1>5. PotTotal(h) \in Int
  <2>1. PotTotal(h) = SumFunction(h.total)
    BY <1>4 DEF PotTotal, InBetting, BoardFits
  <2>2. h.total \in [Occupied(h) -> Nat] /\ Occupied(h) \subseteq Seats
    BY <1>4 DEF Stakes, Typed, InBetting, Chips
  <2>3. IsFiniteSet(Occupied(h)) /\ (\A t \in Occupied(h) : h.total[t] \in Int) /\ DOMAIN h.total = Occupied(h)
    BY <2>2, SeatsFinite
  <2> QED BY <2>1, <2>3, SumIsInt DEF SumFunction
<1>6. accepted = {c \in Commands(h) : ClientAllows(legal, c)}
  BY <1>2, ClientExact
<1>7. {PassiveAction(legal), AllInAction(legal)} \subseteq accepted
  BY <1>2, <1>3, KeysTaken
<1>8. OpponentActions(h, legal) \subseteq accepted
  <2>1. \A wish \in WishedWagers(h) : wish \in Int
    BY <1>4, <1>5, WishesAreInt
  <2> QED BY <1>2, <1>3, <2>1, OpponentsTaken
<1>9. ASSUME Minimum(legal) < legal.all, NEW c \in entered, c.kind # "AllIn" PROVE c \in accepted
  <2>1. PICK n \in Amounts(h) \cup RaisePresets(h, s, legal) : c = EnteredRaise(legal, n)
    BY <1>9
  <2>2. CallCost(h, s) \in Int
    BY <1>1, CostIsNat
  <2>3. n \in Int
    <3>1. CASE n \in Amounts(h)
      BY <1>2, <3>1 DEF Amounts
    <3>2. CASE n \in RaisePresets(h, s, legal)
      BY <1>2, <1>4, <1>5, <2>2, <3>2, PresetsAreInt
    <3> QED BY <3>1, <3>2
  <2> QED BY <1>2, <1>3, <1>9, <2>1, <2>3, EnteredTaken
<1>10. \A advice \in UNION {PostflopAdvice(legal, c.kind) : c \in accepted} : CanFollow(h, s, advice)
  <2> SUFFICES ASSUME NEW c \in accepted, NEW advice \in PostflopAdvice(legal, c.kind)
      PROVE  CanFollow(h, s, advice)
    OBVIOUS
  <2>1. c \in Commands(h)
    OBVIOUS
  <2> QED BY <1>1, <1>2, <2>1, AdviceFollows
<1>11. ContestablePot(h, s) = Winnable(h, s)
  BY <1>1, PotIsWinnable
<1>12. ASSUME NEW t \in Eligible(h) \ {s}
       PROVE  /\ EffectiveRemaining(h, s, t) <= h.stack[t]
              /\ h.part[t] = "AllIn" => EffectiveRemaining(h, s, t) = 0
  <2>1. t \in Occupied(h)
    BY DEF Eligible
  <2> QED BY <1>1, <2>1, RemainingFits
<1> QED BY <1>6, <1>7, <1>8, <1>9, <1>10, <1>11, <1>12

-----------------------------------------------------------------------------
(* The theorems. *)

(* A hand is always in betting, in its showdown or over, as HandInv says. *)
LEMMA HandInvariant == Spec => []HandInv
<1>1. Init => HandInv
  <2> SUFFICES ASSUME Init PROVE HandInv
    OBVIOUS
  <2>1. PICK stacks \in Rosters, blinds \in BlindLevels :
          \E button \in Buttons \cap DOMAIN stacks, debts \in [DOMAIN stacks -> Debts] :
            hand = NewHand(stacks, button, blinds, debts)
    BY DEF Init
  <2>2. PICK button \in DOMAIN stacks, debts \in [DOMAIN stacks -> Debts] :
          hand = NewHand(stacks, button, blinds, debts)
    BY <2>1
  <2>3. PICK occupied : occupied \subseteq Seats /\ stacks \in [occupied -> StackChoices]
    BY <2>1 DEF Rosters
  <2>4. DOMAIN stacks = occupied
    BY <2>3
  <2>5. Sound(hand, {})
    BY <2>1, <2>2, <2>3, <2>4, NewHandSound
  <2> QED BY <2>5 DEF Init, HandInv
<1>2. HandInv /\ [Next]_vars => HandInv'
  <2> SUFFICES ASSUME HandInv, [Next]_vars PROVE HandInv'
    OBVIOUS
  <2>1. CASE Act
    BY <2>1, ActStep DEF Act
  <2>2. CASE \E s \in Showers : SetAlwaysShow(s)
    BY <2>2, PreferenceStep
  <2>3. CASE AdvanceShowdown
    BY <2>3, ShowdownStep
  <2>4. CASE UNCHANGED vars
    <3>1. hand' = hand /\ fullRaise' = fullRaise
      BY <2>4 DEF vars
    <3> QED BY <3>1 DEF HandInv
  <2> QED BY <2>1, <2>2, <2>3, <2>4 DEF Next
<1> QED BY <1>1, <1>2, PTL DEF Spec

(* HandsStayHidden: for any table, stacks, blinds, antes and debts, a hand is
   tabled or mucked only in a showdown, and a showdown begins only when the
   betting round is complete and either the board is or at most one seat could
   still bet; a hand that ends by folds shows nothing (begin_showdown,
   advance_showdown and award_fold). *)
THEOREM HandsStayHidden == Spec => []NoEarlyExposure
<1>1. HandInv => NoEarlyExposure
  <2> SUFFICES ASSUME HandInv PROVE NoEarlyExposure
    OBVIOUS
  <2>1. CASE InBetting(hand)
    BY <2>1 DEF InBetting, NoEarlyExposure
  <2>2. CASE InShowdown(hand)
    BY <2>2 DEF InShowdown, NoEarlyExposure
  <2>3. CASE Over(hand)
    BY <2>3 DEF Over, NoEarlyExposure
  <2> QED BY <2>1, <2>2, <2>3 DEF HandInv, Sound
<1> QED BY <1>1, HandInvariant, PTL

(* RaisesReopen: for any table, stacks, blinds, antes and debts, a seat that
   faces a full bet or raise made since it last acted may raise again, however
   many short all-ins follow (raise_reopened_for and apply_validated_action). *)
THEOREM RaisesReopen == Spec => []FullRaiseReopens
<1>1. HandInv => FullRaiseReopens
  BY DEF HandInv, Sound, Reopens, FullRaiseReopens
<1> QED BY <1>1, HandInvariant, PTL

(* What a hand is worth, in every state of every hand. *)
LEMMA WorthInvariant == Spec => []Worth(hand)
<1>1. Init => Worth(hand)
  <2> SUFFICES ASSUME Init PROVE Worth(hand)
    OBVIOUS
  <2>1. PICK stacks \in Rosters, blinds \in BlindLevels :
          \E button \in Buttons \cap DOMAIN stacks, debts \in [DOMAIN stacks -> Debts] :
            hand = NewHand(stacks, button, blinds, debts)
    BY DEF Init
  <2>2. PICK button \in DOMAIN stacks, debts \in [DOMAIN stacks -> Debts] :
          hand = NewHand(stacks, button, blinds, debts)
    BY <2>1
  <2>3. PICK occupied : occupied \subseteq Seats /\ stacks \in [occupied -> StackChoices]
    BY <2>1 DEF Rosters
  <2>4. DOMAIN stacks = occupied
    BY <2>3
  <2>5. Several(occupied)
    <3> SUFFICES ASSUME NEW s \in occupied, occupied = {s} PROVE FALSE
      BY DEF Several
    <3>1. Cardinality(occupied) > 1
      BY <2>1, <2>4 DEF Rosters
    <3> QED BY <3>1, FS_Singleton
  <2> QED BY <2>1, <2>2, <2>3, <2>4, <2>5, NewHandWorth
<1>2. HandInv /\ Worth(hand) /\ [Next]_vars => Worth(hand)'
  <2> SUFFICES ASSUME HandInv, Worth(hand), [Next]_vars PROVE Worth(hand')
    OBVIOUS
  <2>1. CASE Act
    BY <2>1, ActWorth DEF Act
  <2>2. CASE \E s \in Showers : SetAlwaysShow(s)
    BY <2>2, PreferenceWorth
  <2>3. CASE AdvanceShowdown
    BY <2>3, ShowdownWorth
  <2>4. CASE UNCHANGED vars
    <3>1. hand' = hand
      BY <2>4 DEF vars
    <3> QED BY <3>1
  <2> QED BY <2>1, <2>2, <2>3, <2>4 DEF Next
<1> QED BY <1>1, <1>2, HandInvariant, PTL DEF Spec

(* AwardsAreEarned: for any table, stacks, blinds, antes, debts and cards, no
   chip is made or lost, pots are paid only to hands that were tabled, nobody
   collects more than was matched, and the strictly best hand collects all of it
   (commit_chips, build_pots, resolve_showdown and award_fold). *)
THEOREM AwardsAreEarned == Spec => []AwardsEarned
<1>1. HandInv /\ Worth(hand) => AwardsEarned
  <2> SUFFICES ASSUME HandInv, Worth(hand) PROVE AwardsEarned
    OBVIOUS
  <2>1. CASE Settled(hand)
    BY <2>1 DEF Worth, Earned, AwardsEarned
  <2>2. CASE ~ Settled(hand)
    <3>1. Balanced(hand)
      BY <2>2 DEF Worth, Stakes
    <3> QED BY <2>2, <3>1 DEF Settled, AwardsEarned
  <2> QED BY <2>1, <2>2
<1> QED BY <1>1, HandInvariant, WorthInvariant, PTL

(* HandsAdvance: for any table, stacks, blinds, antes, debts and cards, every
   action of a seat and every step of a showdown leads forward: the hand ends, a
   street or the showdown begins, a seat can no longer bet, the wager rises, one
   more seat has answered it, or one more hand is tabled or mucked
   (apply_validated_action, advance_street and advance_showdown). *)
THEOREM HandsAdvance == Spec => HandAdvances
<1>1. HandInv /\ Worth(hand) /\ [Next]_vars
        => [hand'.alwaysShow = hand.alwaysShow => Advances(hand, hand')]_vars
  <2> SUFFICES ASSUME HandInv, Worth(hand), Next
      PROVE  [hand'.alwaysShow = hand.alwaysShow => Advances(hand, hand')]_vars
    OBVIOUS
  <2>1. CASE Act
    BY <2>1, ActWorth DEF Act
  <2>2. CASE \E s \in Showers : SetAlwaysShow(s)
    <3>1. PICK s \in Showers : SetAlwaysShow(s)
      BY <2>2
    <3>2. InBetting(hand)
      BY <3>1 DEF HandInv, Sound, SetAlwaysShow, InShowdown, Over, Settled, AcceptsActions
    <3>3. PICK shown, k : /\ k = [hand EXCEPT !.alwaysShow = shown] /\ k = hand'
      BY <3>1 DEF SetAlwaysShow
    <3>4. k.alwaysShow = shown
      BY <3>2, <3>3 DEF InBetting, Shape, Fields
    <3>5. ASSUME k.alwaysShow = hand.alwaysShow PROVE k = hand
      BY <3>2, <3>3, <3>4, <3>5 DEF InBetting, Shape, Fields
    <3>6. fullRaise' = fullRaise
      BY <3>1 DEF SetAlwaysShow
    <3> QED BY <3>3, <3>5, <3>6 DEF vars
  <2>3. CASE AdvanceShowdown
    BY <2>3, ShowdownWorth
  <2> QED BY <2>1, <2>2, <2>3 DEF Next
<1> QED BY <1>1, HandInvariant, WorthInvariant, PTL DEF Spec, HandAdvances

(* PoliciesAreLegal: for any table, stacks, blinds, antes, debts and cards, what
   the action mapping does not mask is a command the hand accepts, each policy
   has an answer to every observation and answers with an unmasked action, and
   so do the campaign's candidates (map_policy_action, the policies of
   src/training/policy.rs and choose_action of src/game/campaign.rs). *)
THEOREM PoliciesAreLegal == Spec => []PoliciesStayLegal
<1>1. HandInv /\ Worth(hand) => PoliciesStayLegal
  <2> SUFFICES ASSUME HandInv, Worth(hand), NEW s \in Occupied(hand), ToAct(s), NEW o, o = Observation(hand, s)
      PROVE  /\ \A a \in LegalPolicyActions(o) : Accepts(hand, s, MapPolicyAction(o, a))
             /\ Answers(o, CheckCall(o)) /\ Answers(o, FoldCheck(o)) /\ Answers(o, PotPressure(o))
             /\ Answers(o, Jam(o)) /\ Answers(o, LegalPolicyActions(o))
             /\ \A equity \in Equities(o) : Answers(o, EquityPotOddsAt(o, equity))
             /\ CampaignActions(o.legal) # {}
             /\ \A c \in CampaignActions(o.legal) : Accepts(hand, s, c)
    BY Zenon DEF PoliciesStayLegal, Answers
  <2>1. Seen(hand, s, o)
    BY ActorSees
  <2> QED BY <2>1, MappedAccepted, PoliciesAnswer, CandidatesAccepted
<1> QED BY <1>1, HandInvariant, WorthInvariant, PTL

(* ViewsAreHonest: for any table, stacks, blinds, antes, debts and cards, the
   amounts a projection shows add up, a record shows the cards of the hands
   that were paid and of no hand that folded, the client admits exactly what
   the hand accepts, and what the keys, the raise editor, the opponents and the
   coach derive from the offer is accepted (project_hand, prepare_action,
   Facts::calculate, Opponent::choose and from_public_terminal). *)
THEOREM ViewsAreHonest == Spec => []ViewsHonest
<1>1. HandInv /\ Worth(hand) => ViewsHonest
  <2> SUFFICES ASSUME HandInv, Worth(hand)
      PROVE  AmountsAddUp(hand) /\ HistoryIsPublic(hand) /\ \A s \in Occupied(hand) : OfferHolds(hand, s)
    BY DEF ViewsHonest
  <2> QED BY AmountsShown, RecordIsPublic, OffersHold
<1> QED BY <1>1, HandInvariant, WorthInvariant, PTL

=============================================================================
