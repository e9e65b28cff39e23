---------------------------- MODULE CardStrength ----------------------------
(***************************************************************************)
(* How cards are judged: the best five of seven (src/game/hand.rs), draws  *)
(* and the heads-up starting tiers (src/bot/draws.rs, preflop.rs and the   *)
(* board texture of rule_based.rs), the starting ranges of the trainer's   *)
(* opponents (src/trainer/policy.rs) and the verdicts of its local coach   *)
(* (coaching.rs).  All are functions of visible cards; the machine deals   *)
(* them street by street.                                                  *)
(***************************************************************************)
EXTENDS Integers, FiniteSetsExt, SequencesExt

CONSTANTS
  Decks,     \* sets of cards that a hand is dealt from; a card is <<rank, suit>>
  NoCards

VARIABLES dealt    \* the deck, the player's two cards and the board

RankOf(card) == card[1]
SuitOf(card) == card[2]
Ranks(cards) == {RankOf(c) : c \in cards}
Suits(cards) == {SuitOf(c) : c \in cards}
OfRank(cards, r) == Cardinality({c \in cards : RankOf(c) = r})
OfSuit(cards, s) == {c \in cards : SuitOf(c) = s}
Descending(ranks) == SetToSortSeq(ranks, >)
Ace == 14

-----------------------------------------------------------------------------
(* evaluate_five.  A value is the category, 0 .. 8, then the kickers: the  *)
(* order of HandRank and of Vec<Rank>, as one number.                      *)
Worth(category, kickers) ==
  FoldLeft(LAMBDA total, k : total * 15 + k, category,
           kickers \o [i \in 1 .. 5 - Len(kickers) |-> 0])
Category(worth) == worth \div 15^5

Wheel == {Ace, 2, 3, 4, 5}
(* check_straight, 0 for none; the mutant takes a wheel for an ace-high straight. *)
StraightAceHigh(ranks) == IF ranks = Wheel \/ Max(ranks) - Min(ranks) = 4 THEN Max(ranks) ELSE 0
CheckStraight(ranks) ==
  CASE Cardinality(ranks) < 5 -> 0
    [] ranks = Wheel -> 5
    [] OTHER -> IF Max(ranks) - Min(ranks) = 4 THEN Max(ranks) ELSE 0

EvaluateFive(cards) ==
  LET ranks == Ranks(cards)
      count == [r \in ranks |-> OfRank(cards, r)]
      quads == {r \in ranks : count[r] = 4}
      trips == {r \in ranks : count[r] = 3}
      pairs == {r \in ranks : count[r] = 2}
      high  == CheckStraight(ranks)
      flush == Cardinality(Suits(cards)) = 1
      then(some) == Descending(some) \o Descending(ranks \ some)
  IN  CASE flush /\ high > 0 -> Worth(8, <<high>>)
        [] quads # {} -> Worth(7, then(quads))
        [] trips # {} /\ pairs # {} -> Worth(6, then(trips))
        [] flush /\ high = 0 -> Worth(5, Descending(ranks))
        [] ~flush /\ high > 0 -> Worth(4, <<high>>)
        [] trips # {} /\ pairs = {} -> Worth(3, then(trips))
        [] Cardinality(pairs) = 2 -> Worth(2, then(pairs))
        [] trips = {} /\ Cardinality(pairs) = 1 -> Worth(1, then(pairs))
        [] OTHER -> Worth(0, Descending(ranks))

(* evaluate_partial: of a starting hand.                                   *)
EvaluatePartial(cards) ==
  IF Cardinality(Ranks(cards)) < Cardinality(cards) THEN Worth(1, Descending(Ranks(cards)))
  ELSE Worth(0, Descending(Ranks(cards)))

(* evaluate_best_five and evaluate_hand.                                   *)
BestFive(cards) == Max({EvaluateFive(five) : five \in kSubset(5, cards)})
EvaluateHand(cards) == IF Cardinality(cards) < 5 THEN EvaluatePartial(cards) ELSE BestFive(cards)

(* strength, in units of 1 / 9600. *)
FirstKicker(worth) == (worth \div 15^4) % 15
Strength(worth) == Min({9600, 1200 * Category(worth) + 80 * (FirstKicker(worth) - 2)})

-----------------------------------------------------------------------------
(* detect_draws.  An ace counts as 14 and as 1. *)
Values(cards) == Ranks(cards) \cup (IF Ace \in Ranks(cards) THEN {1} ELSE {})
Windows == {base .. base + 4 : base \in 1 .. 10}
FourOf(hole, board) ==
  {w \in Windows : Cardinality(w \cap Values(hole \cup board)) = 4 /\ w \cap Values(hole) # {}}
Gap(w, cards) == CHOOSE v \in w : v \notin Values(cards)
(* A gap at an end is open when the run goes on at the other end.          *)
OpenEnded(w, cards) ==
  \/ Gap(w, cards) = Min(w) /\ Max(w) < Ace
  \/ Gap(w, cards) = Max(w) /\ Min(w) > 1

Draws(hole, board) ==
  LET cards == hole \cup board
      long(n) == \E s \in Suits(hole) : Cardinality(OfSuit(cards, s)) = n
      flop == Cardinality(board) = 3
  IN  [flush |-> board # {} /\ long(4),
       oesd |-> board # {} /\ \E w \in FourOf(hole, board) : OpenEnded(w, cards),
       gutshot |-> board # {} /\ \E w \in FourOf(hole, board) : ~OpenEnded(w, cards),
       overcards |-> IF board = {} THEN 0
                     ELSE Cardinality({c \in hole : RankOf(c) > Max(Ranks(board))}),
       backdoorFlush |-> flop /\ long(3),
       backdoorStraight |-> flop /\ \E w \in Windows : /\ Cardinality(w \cap Values(cards)) = 3
                                                       /\ w \cap Values(hole) # {}]

(* The opponents' own test, which wants no card of the hand in the run.    *)
OpponentSeesDraw(hole, board) ==
  LET cards == hole \cup board IN
  \/ \E s \in Suits(cards) : Cardinality(OfSuit(cards, s)) = 4
  \/ \E base \in 1 .. 11 : base .. base + 3 \subseteq Values(cards)

(* analyze_board_texture of the bot, board_texture of the coach. *)
BoardTexture(board) ==
  [paired |-> Cardinality(Ranks(board)) < Cardinality(board),
   suited |-> \E s \in Suits(board) : Cardinality(OfSuit(board, s)) >= 3]

-----------------------------------------------------------------------------
(* Heads-up starting tiers, 1 trash .. 5 premium: a row for each low rank  *)
(* from 2, an entry for each higher rank (SUITED, OFFSUIT, PAIR_TIER).     *)
Suited ==
  << <<1, 1, 1, 1, 1, 1, 1, 1, 1, 1, 2, 3>>, <<2, 1, 1, 1, 1, 1, 1, 1, 1, 2, 3>>,
     <<2, 2, 1, 1, 1, 1, 1, 1, 2, 3>>, <<2, 2, 2, 1, 1, 1, 1, 2, 3>>, <<2, 3, 2, 1, 1, 1, 2, 3>>,
     <<3, 3, 2, 1, 1, 2, 3>>, <<3, 3, 2, 2, 2, 3>>, <<3, 3, 2, 3, 3>>, <<3, 3, 3, 4>>,
     <<3, 4, 4>>, <<4, 4>>, <<5>> >>
Offsuit ==
  << <<1, 1, 1, 1, 1, 1, 1, 1, 1, 1, 1, 1>>, <<2, 1, 1, 1, 1, 1, 1, 1, 1, 1, 1>>,
     <<2, 1, 1, 1, 1, 1, 1, 1, 1, 1>>, <<2, 1, 1, 1, 1, 1, 1, 1, 2>>, <<2, 1, 1, 1, 1, 1, 1, 2>>,
     <<2, 1, 1, 1, 1, 1, 2>>, <<2, 1, 1, 1, 1, 2>>, <<2, 1, 1, 1, 2>>, <<2, 2, 2, 3>>,
     <<2, 2, 3>>, <<3, 4>>, <<5>> >>
PairTier == <<2, 2, 2, 2, 3, 3, 3, 3, 4, 4, 5, 5, 5>>

IsPair(hole) == Cardinality(Ranks(hole)) = 1
IsSuited(hole) == Cardinality(Suits(hole)) = 1
High(hole) == Max(Ranks(hole))
Low(hole) == Min(Ranks(hole))
TierOf(high, low, suited) ==
  IF high = low THEN PairTier[high - 1]
  ELSE IF suited THEN Suited[low - 1][high - low] ELSE Offsuit[low - 1][high - low]
ClassifyPreflop(hole) == TierOf(High(hole), Low(hole), IsSuited(hole))
BaseStrength == <<25, 45, 60, 75, 90>>
(* preflop_strength, in units of 1 / 1200. *)
PreflopStrength(hole) ==
  Min({1200, 12 * BaseStrength[ClassifyPreflop(hole)] + 4 * (High(hole) - 2) + (Low(hole) - 2)})

(* preflop_band of the coach, 0 fold .. 4 premium. *)
Premium(hole) == (IsPair(hole) /\ High(hole) >= 10) \/ (High(hole) = Ace /\ Low(hole) >= 12)
PreflopBand(hole) ==
  LET hi == High(hole)
      lo == Low(hole)
      suited == IsSuited(hole)
      strong == \/ IsPair(hole) /\ hi >= 7
                \/ hi >= 12 /\ lo >= 10
                \/ hi = Ace /\ suited /\ lo >= 10
      open == \/ IsPair(hole)
              \/ hi = Ace /\ lo >= 10
              \/ suited /\ hi >= 10 /\ lo >= 9
      late == \/ hi = Ace /\ suited
              \/ suited /\ hi >= 7 /\ hi - lo <= 2
              \/ hi = 13 /\ lo >= 9
  IN  IF Premium(hole) THEN 4 ELSE IF strong THEN 3 ELSE IF open THEN 2 ELSE IF late THEN 1 ELSE 0

(* Opponent::choose and preflop_range: whether the hand is played at all.  *)
BaseRange(hole) ==
  \/ IsPair(hole)
  \/ High(hole) >= 11 /\ Low(hole) >= 10
  \/ High(hole) = Ace /\ IsSuited(hole)
SuitedConnector(hole) == IsSuited(hole) /\ High(hole) - Low(hole) <= 1 /\ High(hole) >= 7
LooseExtra(hole, late) ==
  \/ late /\ (High(hole) = Ace \/ (High(hole) >= 11 /\ Low(hole) >= 8))
  \/ SuitedConnector(hole)
InRange(hole, late, raised, style) ==
  /\ \/ BaseRange(hole)
     \/ style = "Loose" /\ LooseExtra(hole, late)
     \/ style # "Tight" /\ late /\ SuitedConnector(hole)
  /\ raised => BaseRange(hole) \/ (style = "Loose" /\ late)
Plays(hole, late, raised, style) ==
  /\ InRange(hole, late, raised, style)
  /\ raised => Premium(hole) \/ (late /\ BaseRange(hole))

-----------------------------------------------------------------------------
(* feedback and postflop_feedback: the verdicts of the coach on an action  *)
(* ("raise" includes a bet), 0 reconsider, 1 uncertain, 2 reasonable.      *)
Positions == {"Early", "Middle", "Late", "SmallBlind", "BigBlind"}
Required(position) ==
  CASE position = "Early" -> 3
    [] position \in {"Middle", "SmallBlind"} -> 2
    [] position \in {"Late", "BigBlind"} -> 1
Enters == {"call", "raise", "all-in"}
PreflopVerdict(spot, position, band, action) ==
  CASE spot = "raised" ->
         IF \/ band = 4 /\ action \in {"raise", "all-in"}
            \/ band <= 1 /\ action = "fold" THEN 2
         ELSE IF band = 0 /\ action \in Enters THEN 0 ELSE 1
    [] spot = "limped" ->
         IF band >= 3 /\ action = "raise" THEN 2
         ELSE IF band = 0 /\ action \in Enters THEN 0 ELSE 1
    [] spot = "unopened" ->
         IF band >= Required(position) THEN (IF action = "raise" THEN 2 ELSE 1)
         ELSE IF action = "fold" THEN 2 ELSE IF action \in Enters THEN 0 ELSE 1
PostflopVerdict(category, live, cost, action) ==
  LET strong == category >= 2
      nothing == category = 0 /\ ~live
  IN  CASE action \in {"raise", "all-in"} -> IF strong THEN 2 ELSE IF nothing THEN 0 ELSE 1
        [] action = "call"  -> IF strong THEN 2 ELSE IF nothing /\ cost > 0 THEN 0 ELSE 1
        [] action = "check" -> IF strong THEN 1 ELSE 2
        [] action = "fold"  -> IF strong THEN 0 ELSE IF nothing /\ cost > 0 THEN 2 ELSE 1
-----------------------------------------------------------------------------
(* preflop_prior and action_likelihood of src/trainer/ranges.rs: how much  *)
(* a public action says about a hand.  The prior in units of 1 / 840000;   *)
(* the likelihood for a strength in hundredths and a sizing tilt in        *)
(* thousandths, of which 400 is the most, in units of 10^-9.               *)
PreflopPrior(high, low, suited, inPosition) ==
  LET base == IF high = low THEN 3780 + 300 * high
              ELSE 672 + 200 * (high + low) + (IF suited THEN 840 ELSE 0)
                   + 210 * Max({4 - (high - low), 0})
      strength == Min({Max({base, 420}), 8400})
  IN  IF inPosition THEN 28 * 8400 + 72 * strength ELSE 16 * 8400 + 84 * strength
ActionLikelihood(kind, strength, tilt) ==
  LET base == CASE kind = "Fold"  -> 800 + 82 * (100 - strength)
                [] kind = "Check" -> 5500 + 35 * (100 - strength)
                [] kind = "Call"  -> 2500 + 75 * strength
                [] kind = "Wager" -> 1200 + 88 * strength
  IN  Max({base * (100000 + tilt * (strength - 50)), 10000000})

-----------------------------------------------------------------------------
(* One hand, dealt street by street. *)
CardsOf(d) == d.hole \cup d.board
DealHole ==
  /\ dealt = NoCards
  /\ \E deck \in Decks : \E hole \in kSubset(2, deck) :
       dealt' = [deck |-> deck, hole |-> hole, board |-> {}]
(* Three cards, then two more, one at a time. *)
DealBoard ==
  /\ dealt # NoCards /\ Cardinality(dealt.board) < 5
  /\ LET count == IF dealt.board = {} THEN 3 ELSE 1
         rest == dealt.deck \ CardsOf(dealt)
     IN  /\ Cardinality(rest) \in 5 - Cardinality(dealt.board) .. 20
         /\ \E street \in kSubset(count, rest) : dealt' = [dealt EXCEPT !.board = @ \cup street]

CardInit == dealt = NoCards
CardNext == DealHole \/ DealBoard

CardSpec == CardInit /\ [][CardNext]_<<dealt>>

-----------------------------------------------------------------------------
(* The rules of poker, read off all the cards at once.                     *)
Runs == {base .. base + 4 : base \in 2 .. 10} \cup {Wheel}
RunHigh(ranks) ==    \* 0 for none
  Max({0} \cup {IF run = Wheel THEN 5 ELSE Max(run) : run \in {run \in Runs : run \subseteq ranks}})
Top(ranks, n) == SubSeq(Descending(ranks), 1, n)
ByTheRules(cards) ==
  LET ranks == Ranks(cards)
      of(n) == {r \in ranks : OfRank(cards, r) >= n}
      suited == {Ranks(OfSuit(cards, s)) : s \in {s \in Suits(cards) : Cardinality(OfSuit(cards, s)) >= 5}}
      straightFlushes == {RunHigh(held) : held \in suited} \ {0}
      first(n) == Max(of(n))
      second(n) == Max(of(n) \ {first(3)})
      topPairs == {Top(of(2), 2)[1], Top(of(2), 2)[2]}
  IN  CASE straightFlushes # {} -> Worth(8, <<Max(straightFlushes)>>)
        [] of(4) # {} -> Worth(7, <<first(4)>> \o Top(ranks \ {first(4)}, 1))
        [] of(3) # {} /\ Cardinality(of(2)) >= 2 -> Worth(6, <<first(3), second(2)>>)
        [] suited # {} /\ straightFlushes = {} -> Max({Worth(5, Top(held, 5)) : held \in suited})
        [] suited = {} /\ RunHigh(ranks) > 0 -> Worth(4, <<RunHigh(ranks)>>)
        [] of(3) # {} -> Worth(3, <<first(3)>> \o Top(ranks \ {first(3)}, 2))
        [] Cardinality(of(2)) >= 2 -> Worth(2, Descending(topPairs) \o Top(ranks \ topPairs, 1))
        [] Cardinality(of(2)) = 1 -> Worth(1, <<first(2)>> \o Top(ranks \ of(2), 3))
        [] OTHER -> Worth(0, Top(ranks, 5))

(* Ranks that would make a straight of which a hole card is part. *)
Outs(d) ==
  LET held == Values(CardsOf(d)) IN
  {v \in 2 .. Ace : \E w \in Windows : /\ w \ held = {v} \/ (v = Ace /\ w \ held = {1})
                                       /\ w \cap Values(d.hole) # {}}
(* StrengthsAgree: the search over all fives finds the hand the rules      *)
(* name, and no card that comes weakens a hand or the strength a bot sees  *)
(* in it; before a straight is made, a draw is announced exactly when some *)
(* rank completes one with a card of the hand, open-ended only when two    *)
(* do, and the trainer's opponents overlook none that is; suits never make *)
(* a starting hand worse, a higher tier is always the greater strength,    *)
(* the opponents play whatever they would bet and more the looser they     *)
(* are; the coach, for one spot, never thinks worse of putting chips in    *)
(* with a better hand, nor better of folding it; and for the solver's      *)
(* ranges a call or a wager speaks for the better hand, a fold or a check  *)
(* for the worse.                                                          *)
BestFound(d) ==
  Cardinality(CardsOf(d)) >= 5 =>
    /\ BestFive(CardsOf(d)) = ByTheRules(CardsOf(d))
    /\ LET before(c) == EvaluateHand(CardsOf(d) \ (IF Cardinality(d.board) = 3 THEN d.board ELSE {c})) IN
       \A c \in {c \in d.board : RankOf(c) = Max(Ranks(d.board))} :
                          /\ before(c) <= EvaluateHand(CardsOf(d))
                          /\ Strength(before(c)) <= Strength(EvaluateHand(CardsOf(d)))
DrawsExact(d) ==
  LET draws == Draws(d.hole, d.board) IN
  /\ d.board # {} /\ RunHigh(Ranks(CardsOf(d))) = 0 =>
       /\ draws.oesd \/ draws.gutshot <=> Outs(d) # {}
       /\ draws.oesd => Cardinality(Outs(d)) >= 2
  /\ d.board # {} /\ (draws.flush \/ draws.oesd) => OpponentSeesDraw(d.hole, d.board)
RangesNest(hole) ==
  /\ TierOf(High(hole), Low(hole), FALSE) <= TierOf(High(hole), Low(hole), TRUE)
  /\ \A high \in 3 .. Ace : \A low \in 2 .. high - 1 :
       LET other == {<<high, 1>>, <<low, 2>>} IN
       ClassifyPreflop(other) < ClassifyPreflop(hole) => PreflopStrength(other) < PreflopStrength(hole)
  /\ PreflopBand(hole) = 4 => ClassifyPreflop(hole) >= 4
  /\ PreflopBand(hole) = 0 => ClassifyPreflop(hole) <= 2
  /\ \A late, raised \in BOOLEAN :
       /\ Premium(hole) => Plays(hole, late, raised, "Tight")
       /\ Plays(hole, late, raised, "Tight") => Plays(hole, late, raised, "Balanced")
       /\ Plays(hole, late, raised, "Balanced") => Plays(hole, late, raised, "Loose")
       /\ \A style \in {"Tight", "Balanced", "Loose"} :
            Plays(hole, late, TRUE, style) => Plays(hole, late, FALSE, style)
CoachConsistent ==
  LET noWorse(verdict(_, _)) ==
        \A weak, better \in 0 .. 4 : weak < better =>
          /\ \A action \in Enters : verdict(weak, action) <= verdict(better, action)
          /\ verdict(better, "fold") <= verdict(weak, "fold")
  IN  /\ \A spot \in {"raised", "limped", "unopened"}, position \in Positions :
           noWorse(LAMBDA band, action : PreflopVerdict(spot, position, band, action))
      /\ \A live \in BOOLEAN, cost \in {0, 1} :
           noWorse(LAMBDA category, action : PostflopVerdict(category, live, cost, action))
InferenceOrdered ==    \* a check is only ever made at the blind's wager or at none
  /\ \A weak, better \in {0, 20, 40, 60, 80, 100}, tilt \in {0, 55, 130, 250, 400} :
       weak < better =>
         /\ \A kind \in {"Call", "Wager"} :
              ActionLikelihood(kind, weak, tilt) <= ActionLikelihood(kind, better, tilt)
         /\ ActionLikelihood("Fold", better, tilt) <= ActionLikelihood("Fold", weak, tilt)
         /\ tilt <= 55 => ActionLikelihood("Check", better, tilt) <= ActionLikelihood("Check", weak, tilt)
  /\ \A high \in 2 .. Ace : \A low \in 2 .. high : \A inPosition \in BOOLEAN :
       LET prior(suited) == PreflopPrior(high, low, suited, inPosition) IN
       /\ 0 < prior(FALSE) /\ prior(FALSE) <= prior(TRUE) /\ prior(TRUE) <= 840000
       /\ PreflopPrior(high, low, FALSE, FALSE) <= PreflopPrior(high, low, FALSE, TRUE)
StrengthsAgree ==
  dealt # NoCards =>
    /\ BestFound(dealt) /\ DrawsExact(dealt)
    /\ dealt.board = {} => RangesNest(dealt.hole) /\ CoachConsistent /\ InferenceOrdered
=============================================================================
