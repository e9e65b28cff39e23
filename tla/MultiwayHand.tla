---------------------------- MODULE MultiwayHand ----------------------------
(***************************************************************************)
(* The hand authority of OpenFelt: src/src/game/multiway.rs and            *)
(* src/src/game/multiway/showdown.rs.  One no-limit Hold'em hand from the  *)
(* posting of antes, blinds and forced posts, through four betting         *)
(* streets, to an award by folds or an ordered showdown over side pots.    *)
(*                                                                         *)
(* The Rust methods mutate one struct and call each other; here they are   *)
(* operators from hand records to hand records, composed in the same       *)
(* order, and every public entry point is one action.                      *)
(*                                                                         *)
(* Cards are abstracted to what the transitions compare: the strength of a *)
(* seat's final hand.  No transition reads it before the first comparison  *)
(* of the showdown, so the deal is drawn there.  The runtimes enable the   *)
(* paced showdown, and the unpaced one is the same AdvanceShowdown step in *)
(* a loop, so the paced one is modelled.                                   *)
(***************************************************************************)
EXTENDS Integers, FiniteSets, Sequences, FiniteSetsExt, SequencesExt, Functions

CONSTANTS
  TableSize,      \* number of seats of the table
  StackChoices,   \* starting stacks a seat may bring to the hand
  Buttons,        \* seats the button may be on
  BlindLevels,    \* records [sb, bb, ante]
  Debts,          \* blind obligations the lifecycle may turn into posts
  Strengths,      \* abstract strengths of a seven-card hand
  Showers         \* seats whose player may set the always-show preference

Seats  == 0 .. TableSize - 1
NoSeat == -1
NoWager == -1      \* last_action_wager = None
NoDeal  == <<>>    \* showdown_evaluations is empty

(* BlindValues::new and the checks at the head of with_prepared_deck. *)
ASSUME HandAssumption ==
  /\ TableSize \in 2 .. 9
  /\ StackChoices \subseteq Nat \ {0}
  /\ Buttons \subseteq Seats
  /\ \A b \in BlindLevels : /\ b.sb \in Nat \ {0} /\ b.bb \in Nat
                            /\ b.sb < b.bb /\ b.ante \in 0 .. b.bb
  /\ Debts \subseteq {"Clear", "OwesSmallBlind", "OwesBigBlind", "OwesBoth"}
  /\ Strengths \subseteq Nat
  /\ Showers \subseteq Seats

VARIABLES
  hand,      \* the MultiwayHand struct
  fullRaise  \* history: seats that faced a full bet or raise since they last acted
vars == <<hand, fullRaise>>

-----------------------------------------------------------------------------
(* Seat order. *)

(* seat_wrapped read backwards: how many seats clockwise from a to s. *)
Offset(a, s) == (s - a + TableSize) % TableSize

(* The seat of S reached first going clockwise, a itself being first ... *)
FirstFrom(a, S) == IF S = {} THEN NoSeat
                   ELSE CHOOSE s \in S : \A t \in S : Offset(a, s) <= Offset(a, t)

(* clockwise_award_key: the button comes last. *)
AwardKey(button, s) == IF s = button THEN TableSize ELSE Offset(button, s)

(* ... or a being last. *)
FirstAfter(a, S) == IF S = {} THEN NoSeat
                    ELSE CHOOSE s \in S : \A t \in S : AwardKey(a, s) <= AwardKey(a, t)

-----------------------------------------------------------------------------
(* Predicates on a hand. *)

Occupied(h) == DOMAIN h.stack
CanAct(h, s) == h.stack[s] > 0 /\ h.part[s] = "Live"
Eligible(h) == {s \in Occupied(h) : h.part[s] \in {"Live", "AllIn"}}
Live(h) == {s \in Occupied(h) : CanAct(h, s)}
AcceptsActions(h) == h.phase \in {"Preflop", "Flop", "Turn", "River"}

ToCall(h, s) == Max({0, h.wager - h.street[s]})

NeedsAction(h, s) ==
  CanAct(h, s) /\ (h.last[s] = NoWager \/ h.street[s] < h.wager)

BettingRoundComplete(h) ==
  IF Cardinality(Live(h)) <= 1
  THEN \A s \in Live(h) : h.street[s] >= h.wager
  ELSE \A s \in Live(h) : ~NeedsAction(h, s)

(* Mutant: the increase has to exceed a full raise. *)
RaiseReopenedStrictly(h, s) ==
  h.last[s] = NoWager \/ h.wager - h.last[s] > h.raise

RaiseReopened(h, s) ==
  h.last[s] = NoWager \/ h.wager - h.last[s] >= h.raise

-----------------------------------------------------------------------------
(* Chips. *)

WithChips(h, stack, street, total, part) ==
  [h EXCEPT !.stack = stack, !.street = street, !.total = total, !.part = part]

(* commit_chips: the chips count toward the street's wager and the pot. *)
Commit(h, s, requested) ==
  LET actual == Min({requested, h.stack[s]})
  IN  WithChips(h, [h.stack EXCEPT ![s] = @ - actual],
                   [h.street EXCEPT ![s] = @ + actual],
                   [h.total EXCEPT ![s] = @ + actual],
                   IF h.stack[s] = actual THEN [h.part EXCEPT ![s] = "AllIn"] ELSE h.part)

(* commit_chips and commit_dead_chips for every seat: each pays its due from
   its own stack, so the order of the seats is immaterial.  Dead chips count
   toward the pot only. *)
Paid(h, due) == [s \in Occupied(h) |-> Min({due[s], h.stack[s]})]
StackLess(h, paid)  == [s \in Occupied(h) |-> h.stack[s] - paid[s]]
StreetPlus(h, paid) == [s \in Occupied(h) |-> h.street[s] + paid[s]]
TotalPlus(h, paid)  == [s \in Occupied(h) |-> h.total[s] + paid[s]]
PartAfter(h, paid)  == [s \in Occupied(h) |-> IF h.stack[s] = paid[s] THEN "AllIn"
                                              ELSE h.part[s]]
CommitAll(h, due) ==
  LET paid == Paid(h, due)
  IN  WithChips(h, StackLess(h, paid), StreetPlus(h, paid),
                   TotalPlus(h, paid), PartAfter(h, paid))
CommitDead(h, due) ==
  LET paid == Paid(h, due)
  IN  WithChips(h, StackLess(h, paid), h.street, TotalPlus(h, paid), PartAfter(h, paid))

(* build_pots: one layer per distinct contribution.  A layer that a single
   seat reaches is not contested and goes back to that seat. *)
Layers(total) == Range(total) \ {0}
Contributors(total, level) == {s \in DOMAIN total : total[s] >= level}
LayerAmount(total, level) ==
  LET previous == Max({0} \cup {l \in Layers(total) : l < level})
  IN  (level - previous) * Cardinality(Contributors(total, level))
(* Mutant: every seat in the hand may win every layer. *)
BuildPotsForAll(total, eligible) ==
  { [ amount |-> LayerAmount(total, l), level |-> l, eligible |-> eligible ] :
    l \in {l \in Layers(total) : Cardinality(Contributors(total, l)) > 1} }

BuildPots(total, eligible) ==
  { [ amount   |-> LayerAmount(total, l),
      level    |-> l,
      eligible |-> Contributors(total, l) \cap eligible ] :
    l \in {l \in Layers(total) : Cardinality(Contributors(total, l)) > 1} }
Returned(total) ==
  LET single == {l \in Layers(total) : Cardinality(Contributors(total, l)) = 1}
  IN  [s \in DOMAIN total |->
         SumFunction([l \in single |-> IF s \in Contributors(total, l)
                                       THEN LayerAmount(total, l) ELSE 0])]

(* The winners of a pot and the share of each: equal parts, the odd chips to
   the first winners clockwise from the button. *)
Winners(pot, deal) ==
  {s \in pot.eligible : \A t \in pot.eligible : deal[s] >= deal[t]}

Share(pot, winners, button, s) ==
  LET n     == Cardinality(winners)
      index == Cardinality({w \in winners : AwardKey(button, w) < AwardKey(button, s)})
  IN  (pot.amount \div n) + (IF index < pot.amount % n THEN 1 ELSE 0)
Award(pot, deal, button) ==
  LET winners == Winners(pot, deal)
  IN  [ level    |-> pot.level,
        amount   |-> pot.amount,
        eligible |-> pot.eligible,
        payouts  |-> [s \in winners |-> Share(pot, winners, button, s)] ]

(* Chips a seat receives when the hand is settled. *)
Receipts(h, s) ==
  h.returned[s] + SumFunction([a \in h.awards |-> IF s \in DOMAIN a.payouts
                                                  THEN a.payouts[s] ELSE 0])

Zero(h) == [s \in Occupied(h) |-> 0]
ClearContributions(h) ==
  [h EXCEPT !.street = Zero(h), !.total = Zero(h),
            !.last = [s \in Occupied(h) |-> NoWager]]

(* award_fold: the last eligible seat takes every committed chip. *)
AwardFold(h) ==
  LET winner == CHOOSE s \in Eligible(h) : TRUE
      amount == SumFunction(h.total)
      paid   == [h EXCEPT
                   !.settled = h.total,
                   !.stack[winner] = @ + amount,
                   !.awards = {[ level |-> Max(Range(h.total)),
                                 amount |-> amount, eligible |-> {winner},
                                 payouts |-> [s \in {winner} |-> amount] ]},
                   !.progress.active = FALSE,
                   !.toAct = NoSeat,
                   !.phase = "HandComplete"]
  IN  ClearContributions(paid)

(* resolve_showdown. *)
ResolveShowdown(h, deal) ==
  LET pots    == BuildPots(h.total, Eligible(h))
      settled == [h EXCEPT !.settled = h.total,
                           !.deal = deal,
                           !.pots = pots,
                           !.returned = Returned(h.total),
                           !.awards = {Award(p, deal, h.button) : p \in pots},
                           !.progress.active = FALSE,
                           !.toAct = NoSeat,
                           !.phase = "Showdown"]
      paid    == [settled EXCEPT !.stack =
                    [s \in Occupied(h) |-> h.stack[s] + Receipts(settled, s)]]
  IN  ClearContributions(paid)

-----------------------------------------------------------------------------
(* Showdown. *)

(* show_order: clockwise from the button, rotated to start at the last seat
   that bet or raised on the river; the i-th has i - 1 seats before it. *)
ShowOrder(h) ==
  LET first == IF h.aggressor \in Eligible(h) THEN h.aggressor
               ELSE FirstAfter(h.button, Eligible(h))
      before(s) == {t \in Eligible(h) : Offset(first, t) < Offset(first, s)}
  IN  [i \in 1 .. Cardinality(Eligible(h)) |->
         CHOOSE s \in Eligible(h) : Cardinality(before(s)) = i - 1]

(* beaten_by_tabled_hands: in every pot the seat can win, some hand already
   tabled and eligible there is strictly better. *)
BeatenByTabledHands(h, deal, s) ==
  LET relevant == {p \in BuildPots(h.total, Eligible(h)) : s \in p.eligible}
  IN  /\ relevant # {}
      /\ \A p \in relevant :
           \E t \in h.revealed : t \in p.eligible /\ deal[t] > deal[s]

(* begin_showdown with a paced showdown. *)
BeginShowdown(h, allIn) ==
  LET order == ShowOrder(h) IN
  [h EXCEPT !.toAct = NoSeat,
            !.revealed = @ \cup (IF allIn THEN Eligible(h) ELSE {order[1]}),
            !.progress = [ active |-> TRUE, allIn |-> allIn, order |-> order,
                           cursor |-> IF allIn THEN Len(order) ELSE 1 ]]

(* advance_showdown with an all-in and cards still to come: one street. *)
RunOut(h) ==
  LET board == IF h.board = 0 THEN 3 ELSE h.board + 1 IN
  [h EXCEPT !.board = board,
            !.phase = CASE board = 3 -> "Flop" [] board = 4 -> "Turn" [] OTHER -> "River"]

(* advance_showdown otherwise: muck beaten hands up to the next one that is
   tabled; settle when none is left. *)
Pass(h, deal, beaten, cursor) ==
  [h EXCEPT !.mucked = @ \cup beaten, !.progress.cursor = cursor, !.deal = deal]
Reveal(h, s) == [h EXCEPT !.revealed = @ \cup {s}]
TableNextHand(h, deal) ==
  LET order == h.progress.order
      rest  == h.progress.cursor + 1 .. Len(order)
      Shows(i) == order[i] \in h.alwaysShow \/ ~BeatenByTabledHands(h, deal, order[i])
      shows == {i \in rest : Shows(i)}
      stop  == IF shows = {} THEN Len(order) + 1 ELSE Min(shows)
      passed == Pass(h, deal, {order[i] : i \in {j \in rest : j < stop}},
                     Min({stop, Len(order)}))
  IN  IF shows = {} THEN ResolveShowdown(passed, deal) ELSE Reveal(passed, order[stop])

-----------------------------------------------------------------------------
(* Streets. *)

NextPhase(phase) ==
  CASE phase = "Preflop" -> "Flop" [] phase = "Flop" -> "Turn" [] phase = "Turn" -> "River"

(* Mutants: one all-in seat ends the betting; or nothing does. *)
AlwaysLocked(h) == TRUE

(* BettingLocked: no further betting is possible. *)
BettingLocked(h) == Cardinality(Live(h)) <= 1

(* advance_street.  Its last line calls advance_street again when the new
   street is already complete; at least two seats can act then and none has
   acted, so that call is not reachable, and ActorExists would fail if it
   were. *)
AdvanceStreet(h) ==
  LET anyAllIn == \E s \in Occupied(h) : h.part[s] = "AllIn"
      opened   == [h EXCEPT !.street = Zero(h),
                            !.last = [s \in Occupied(h) |-> NoWager],
                            !.wager = 0,
                            !.raise = h.blinds.bb,
                            !.board = IF h.phase = "Preflop" THEN 3 ELSE @ + 1,
                            !.phase = NextPhase(h.phase)]
  IN  IF Cardinality(Eligible(h)) = 1 THEN AwardFold(h)
      ELSE IF h.phase = "River" \/ (BettingLocked(h) /\ anyAllIn) THEN BeginShowdown(h, anyAllIn)
      ELSE [opened EXCEPT !.toAct = FirstAfter(h.button, Live(h))]

(* The tail of apply_validated_action. *)
AfterAction(h, s) ==
  IF Cardinality(Eligible(h)) = 1 THEN AwardFold(h)
  ELSE IF BettingRoundComplete(h) THEN AdvanceStreet(h)
  ELSE [h EXCEPT !.toAct = FirstAfter(s, {t \in Occupied(h) : NeedsAction(h, t)})]

(* Mutant: nothing is remembered of an action. *)
ActedForgetful(h, s) == AfterAction(h, s)

(* A seat that is still live remembers the wager it acted against. *)
Acted(h, s) ==
  AfterAction([h EXCEPT !.last[s] = IF h.part[s] = "Live" THEN h.wager ELSE @], s)

-----------------------------------------------------------------------------
(* Construction: with_prepared_deck, with the forced posts TableLifecycle's
   begin_hand derives from blind obligations. *)

Positions(occupied, button) ==
  IF Cardinality(occupied) = 2
  THEN [sb |-> button, bb |-> FirstAfter(button, occupied), first |-> button]
  ELSE LET sb == FirstAfter(button, occupied)
           bb == FirstAfter(sb, occupied)
       IN  [sb |-> sb, bb |-> bb, first |-> FirstAfter(bb, occupied)]

SmallBlindPost == 1   \* SMALL_BLIND, posted dead
BigBlindPost   == 2   \* BIG_BLIND, posted live

(* begin_hand: a debt is posted unless the seat is in that blind anyway, the
   dead small blind before the live big one. *)
SmallDebts(occupied, debts, sb) ==
  [s \in occupied |-> IF debts[s] \in {"OwesSmallBlind", "OwesBoth"} /\ s # sb
                      THEN SmallBlindPost ELSE 0]
BigDebts(occupied, debts, bb) ==
  [s \in occupied |-> IF debts[s] \in {"OwesBigBlind", "OwesBoth"} /\ s # bb
                      THEN BigBlindPost ELSE 0]

(* The hand before any chip is committed ... *)
Dealt(stacks, button, blinds) ==
  LET occupied == DOMAIN stacks
      pos      == Positions(occupied, button)
      zero     == [s \in occupied |-> 0]
  IN  [ phase |-> "Preflop", board |-> 0,
        button |-> button, sb |-> pos.sb, bb |-> pos.bb,
        blinds |-> blinds, initial |-> SumFunction(stacks),
        stack |-> stacks, street |-> zero, total |-> zero,
        part |-> [s \in occupied |-> "Live"],
        last |-> [s \in occupied |-> NoWager],
        toAct |-> NoSeat, wager |-> 0, raise |-> blinds.bb,
        aggressor |-> NoSeat, alwaysShow |-> {},
        revealed |-> {}, mucked |-> {}, deal |-> NoDeal,
        progress |-> [active |-> FALSE, allIn |-> FALSE, order |-> <<>>, cursor |-> 0],
        pots |-> {}, returned |-> zero, awards |-> {}, settled |-> zero ]

(* ... after the antes, the blinds and the forced posts ... *)
Posted(dealt, debts) ==
  LET blinds == dealt.blinds
      antes  == CommitDead(dealt, [s \in Occupied(dealt) |-> blinds.ante])
      small  == Commit(antes, dealt.sb, blinds.sb)
      blind  == Commit(small, dealt.bb, blinds.bb)
      dead   == CommitDead(blind, SmallDebts(Occupied(dealt), debts, dealt.sb))
  IN  CommitAll(dead, BigDebts(Occupied(dealt), debts, dealt.bb))

(* ... and with a wager and a first seat to act. *)
Opened(h, first) ==
  LET wagered == [h EXCEPT !.wager = Max(Range(h.street))]
  IN  [wagered EXCEPT !.toAct =
         FirstFrom(first, {s \in Occupied(h) : NeedsAction(wagered, s)})]

NewHand(stacks, button, blinds, debts) ==
  LET posted == Posted(Dealt(stacks, button, blinds), debts)
      opened == Opened(posted, Positions(DOMAIN stacks, button).first)
  IN  IF BettingRoundComplete(opened) THEN AdvanceStreet(opened) ELSE opened

Rosters == UNION {[occupied -> StackChoices] :
                    occupied \in {o \in SUBSET Seats : Cardinality(o) > 1}}

Init ==
  /\ \E stacks \in Rosters, blinds \in BlindLevels :
       \E button \in Buttons \cap DOMAIN stacks, debts \in [DOMAIN stacks -> Debts] :
         hand = NewHand(stacks, button, blinds, debts)
  /\ fullRaise = {}

-----------------------------------------------------------------------------
(* The commands of the seat to act: validate_command, legal_actions_for and
   validate_action are the guards, apply_validated_action the effect.  A
   command that fails a guard is rejected and changes nothing. *)

ToAct(s) == /\ AcceptsActions(hand)
            /\ hand.toAct = s
            /\ CanAct(hand, s)

AllInTo(h, s) == h.street[s] + h.stack[s]
OtherLive(h, s) == Live(h) \ {s} # {}

IsFullRaise(h, target) ==
  IF h.wager = 0 THEN target >= h.blinds.bb ELSE target - h.wager >= h.raise

(* History: a full raise is faced by everyone else, an action answers it. *)
Faced(s, full) ==
  fullRaise' = IF AcceptsActions(hand') /\ hand'.phase = hand.phase
               THEN (IF full THEN Occupied(hand) ELSE fullRaise) \ {s}
               ELSE {}

MayFold(h, s)  == ToCall(h, s) > 0
MayCheck(h, s) == ToCall(h, s) = 0
MayCall(h, s)  == ToCall(h, s) > 0 /\ ToCall(h, s) < h.stack[s]
MayBet(h, s, target) ==
  h.wager = 0 /\ OtherLive(h, s) /\ target \in h.blinds.bb .. AllInTo(h, s) - 1
MayRaise(h, s, target) ==
  /\ h.wager > 0 /\ OtherLive(h, s) /\ RaiseReopened(h, s)
  /\ target \in h.wager + h.raise .. AllInTo(h, s) - 1
MayAllIn(h, s) == AllInTo(h, s) > h.wager => RaiseReopened(h, s)

Fold(s) ==
  /\ ToAct(s) /\ MayFold(hand, s)
  /\ hand' = Acted([hand EXCEPT !.part[s] = "Folded"], s)
  /\ Faced(s, FALSE)

Check(s) ==
  /\ ToAct(s) /\ MayCheck(hand, s)
  /\ hand' = Acted(hand, s)
  /\ Faced(s, FALSE)

Call(s) ==
  /\ ToAct(s) /\ MayCall(hand, s)
  /\ hand' = Acted(Commit(hand, s, ToCall(hand, s)), s)
  /\ Faced(s, FALSE)

(* Bet and Raise, to a total that leaves at least one chip behind. *)
WagerTo(s, target) ==
  LET committed == Commit(hand, s, target - hand.street[s])
  IN  [committed EXCEPT !.wager = target,
                        !.raise = target - hand.wager,
                        !.aggressor = IF hand.phase = "River" THEN s ELSE @]

Bet(s) ==
  /\ ToAct(s)
  /\ \E target \in hand.blinds.bb .. AllInTo(hand, s) - 1 :
       MayBet(hand, s, target) /\ hand' = Acted(WagerTo(s, target), s)
  /\ Faced(s, TRUE)

Raise(s) ==
  /\ ToAct(s)
  /\ \E target \in hand.wager + hand.raise .. AllInTo(hand, s) - 1 :
       MayRaise(hand, s, target) /\ hand' = Acted(WagerTo(s, target), s)
  /\ Faced(s, TRUE)

AllIn(s) ==
  LET target    == AllInTo(hand, s)
      full      == target > hand.wager /\ IsFullRaise(hand, target)
      committed == Commit(hand, s, hand.stack[s])
  IN  /\ ToAct(s) /\ MayAllIn(hand, s)
      /\ hand' = Acted([committed EXCEPT
                          !.wager = Max({@, target}),
                          !.raise = IF full THEN target - hand.wager ELSE @], s)
      /\ Faced(s, full)

(* set_always_show: only while betting is open. *)
SetAlwaysShow(s) ==
  /\ s \in Occupied(hand) /\ AcceptsActions(hand) /\ ~hand.progress.active
  /\ \E value \in BOOLEAN :
       hand' = [hand EXCEPT !.alwaysShow = IF value THEN @ \cup {s} ELSE @ \ {s}]
  /\ UNCHANGED fullRaise

(* advance_showdown: one reveal, one runout street, or the settlement. *)
AdvanceShowdown ==
  /\ hand.progress.active
  /\ IF Cardinality(Eligible(hand)) = 1 THEN hand' = AwardFold(hand)
     ELSE IF hand.progress.allIn /\ hand.board < 5 THEN hand' = RunOut(hand)
     ELSE \E deal \in IF hand.deal = NoDeal THEN [Eligible(hand) -> Strengths]
                      ELSE {hand.deal} :
            hand' = TableNextHand(hand, deal)
  /\ fullRaise' = {}

Act == \E s \in Occupied(hand) :
         Fold(s) \/ Check(s) \/ Call(s) \/ Bet(s) \/ Raise(s) \/ AllIn(s)

Next == \/ Act
        \/ \E s \in Showers : SetAlwaysShow(s)
        \/ AdvanceShowdown

Spec == Init /\ [][Next]_vars

-----------------------------------------------------------------------------
(* Properties. *)

Settled(h) == h.phase \in {"Showdown", "HandComplete"}

(* TypeOK: the fields of MultiwayHand have the types the struct declares. *)
TypeOK ==
  /\ Occupied(hand) \subseteq Seats
  /\ hand.phase \in {"Preflop", "Flop", "Turn", "River", "Showdown", "HandComplete"}
  /\ hand.board \in {0, 3, 4, 5}
  /\ hand.stack \in [Occupied(hand) -> Nat]
  /\ hand.street \in [Occupied(hand) -> Nat]
  /\ hand.total \in [Occupied(hand) -> Nat]
  /\ hand.part \in [Occupied(hand) -> {"Live", "Folded", "AllIn"}]
  /\ hand.last \in [Occupied(hand) -> Nat \cup {NoWager}]
  /\ hand.toAct \in Occupied(hand) \cup {NoSeat}
  /\ hand.wager \in Nat /\ hand.raise \in Nat
  /\ hand.alwaysShow \subseteq Occupied(hand)
  /\ hand.revealed \subseteq Occupied(hand)
  /\ hand.mucked \subseteq Occupied(hand)
  /\ hand.settled \in [Occupied(hand) -> Nat]
  /\ fullRaise \subseteq Seats

(* MatchedCap is what a seat may collect from a hand: from every seat, itself
   included, at most its own contribution.  This is the side-pot rule stated
   without layers. *)
MatchedCap(h, s) == SumFunction([t \in Occupied(h) |-> Min({h.settled[s], h.settled[t]})])

(* AwardsEarned: stacks and committed chips always add up to what the seats
   brought, through refunds, odd chips and side pots; a pot is only ever paid to
   a hand that was tabled, so an automatic muck never costs its owner a pot or a
   tie; no seat collects more than it matched, and a seat whose hand beats every
   other eligible hand collects exactly that. *)
Balanced(h) == SumFunction(h.stack) + SumFunction(h.total) = h.initial
PaidToTabled(h) ==
  \A a \in h.awards : /\ DOMAIN a.payouts \subseteq h.revealed
                      /\ DOMAIN a.payouts \cap h.mucked = {}
PaidWhatMatched(h) ==
  \A s \in Eligible(h) :
    /\ Receipts(h, s) <= MatchedCap(h, s)
    /\ (\A t \in Eligible(h) \ {s} : h.deal[s] > h.deal[t])
         => Receipts(h, s) = MatchedCap(h, s)
AwardsEarned ==
  Balanced(hand) /\ (hand.phase = "Showdown" => PaidToTabled(hand) /\ PaidWhatMatched(hand))

(* NoEarlyExposure: hands are tabled only when no betting is left (the river
   round is complete, or at most one seat can still act and it has matched the
   wager), so side-pot betting ends before all-in hands are exposed; a hand
   that ends by folds tables and mucks nothing. *)
NoEarlyExposure ==
  /\ hand.revealed \cup hand.mucked # {} => hand.progress.active \/ hand.phase = "Showdown"
  /\ hand.progress.active => /\ BettingRoundComplete(hand)
                             /\ Cardinality(Live(hand)) > 1 => hand.board = 5

(* FullRaiseReopens: a seat that faces a full bet or raise made since its last
   action may raise again, however many short all-ins came in between. *)
FullRaiseReopens ==
  \A s \in fullRaise \cap Occupied(hand) : CanAct(hand, s) => RaiseReopened(hand, s)

(* HandAdvances: betting and showdown steps only lead forward (a later street
   or phase, fewer live seats, a higher wager, more seats that answered it, more
   hands tabled or mucked), so no sequence of actions keeps a table in a hand
   forever. *)
Answered(h) == {s \in Live(h) : h.last[s] = h.wager}
Decided(h)  == h.revealed \cup h.mucked
Advances(h, k) ==
  \/ Settled(k) /\ ~Settled(h)
  \/ k.board > h.board
  \/ k.progress.active /\ ~h.progress.active
  \/ k.board = h.board /\
       \/ Live(k) \subseteq Live(h) /\ Live(k) # Live(h)
       \/ k.wager > h.wager
       \/ Answered(h) \subseteq Answered(k) /\ Answered(k) # Answered(h)
       \/ Decided(h) \subseteq Decided(k) /\ Decided(k) # Decided(h)
HandAdvances ==
  [][hand'.alwaysShow = hand.alwaysShow => Advances(hand, hand')]_vars

=============================================================================
