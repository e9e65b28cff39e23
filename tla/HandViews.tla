----------------------------- MODULE HandViews ------------------------------
(***************************************************************************)
(* What players, spectators and programs are shown of a hand, and what     *)
(* they conclude from it: project_hand of src/protocol.rs, the copy of the *)
(* rules in src/network_client.rs, the observation, the facts, the sizing  *)
(* keys, the heuristic opponents and the local coach of the trainer        *)
(* (src/trainer facts.rs, tui.rs, policy.rs, coaching.rs), and the safe    *)
(* history of a finished hand (src/ring_history.rs).                       *)
(***************************************************************************)
EXTENDS PolicyActions

Watching == -1    \* ProjectionAudience::Spectator
Terminal(h) == h.phase \in {"Showdown", "HandComplete"}

(* Mutant: the pot of a running hand is what is on the street. *)
StreetOnly(h) == SumFunction(h.street)

PotTotal(h) ==
  CASE h.phase = "Showdown" -> SumFunction([p \in h.pots |-> p.amount])
    [] h.phase = "HandComplete" -> SumFunction([a \in h.awards |-> a.amount])
    [] OTHER -> SumFunction(h.total)

(* project_hand: after settlement the contributions are the settled ones.  *)
(* `cards` are the seats whose hole cards the view holds.                  *)
Projection(h, audience) ==
  [ stack |-> h.stack,
    total |-> IF Terminal(h) THEN h.settled ELSE h.total,
    cards |-> {s \in Occupied(h) : s = audience \/ s \in h.revealed},
    pot   |-> PotTotal(h),
    legal |-> IF audience # Watching /\ ToAct(audience) THEN {LegalActions(h, audience)} ELSE {} ]

(* from_public_terminal keeps of the spectators' view. *)
SafeHistory(h) ==
  LET view == Projection(h, Watching)
  IN  [revealed |-> view.cards, awards |-> h.awards, stacks |-> view.stack]

-----------------------------------------------------------------------------
(* The client's rules: what prepare_action lets through, and the keys that *)
(* choose for the player.                                                  *)
ClientAllows(legal, c) ==
  \/ c.kind = "Fold" /\ legal.fold
  \/ c.kind = "Check" /\ legal.check
  \/ c.kind = "Call" /\ legal.call # None /\ legal.call = c.to
  \/ c.kind = "Bet" /\ legal.minBet # None /\ c.to >= legal.minBet /\ c.to < legal.all
  \/ c.kind = "Raise" /\ legal.minRaise # None /\ c.to >= legal.minRaise /\ c.to < legal.all
  \/ c.kind = "AllIn" /\ c.to = legal.all /\ CanAllIn(legal)
PassiveAction(legal) ==
  CASE legal.check -> Command("Check", 0)
    [] ~legal.check /\ legal.call # None -> Command("Call", legal.call)
    [] ~legal.check /\ legal.call = None /\ legal.fold -> Command("Fold", 0)
    [] OTHER -> Command("AllIn", legal.all)
AllInAction(legal) ==
  IF CanAllIn(legal) THEN Command("AllIn", legal.all) ELSE PassiveAction(legal)

Amounts(h) == 0 .. h.initial + 1
Commands(h) ==
  {Command("Fold", 0), Command("Check", 0)}
  \cup {Command(kind, to) : kind \in {"Call", "Bet", "Raise", "AllIn"}, to \in Amounts(h)}

-----------------------------------------------------------------------------
(* Observation and Facts::calculate. *)
CallCost(h, s) == Min({ToCall(h, s), h.stack[s]})
AfterCall(h, s) == [h.total EXCEPT ![s] = @ + CallCost(h, s)]
ContestablePot(h, s) ==
  SumFunction([p \in {p \in BuildPots(AfterCall(h, s), Eligible(h)) : s \in p.eligible} |->
                 p.amount])
EffectiveRemaining(h, s, t) == Min({Max({0, h.stack[s] - CallCost(h, s)}), h.stack[t]})
CheckOrCall(legal) ==
  CASE legal.check -> Command("Check", 0)
    [] ~legal.check /\ legal.call # None -> Command("Call", legal.call)
    [] OTHER -> Command("AllIn", legal.all)

(* The raise editor: opened only when there is a minimum, and every key    *)
(* leaves an amount between the minimum and an all-in.                     *)
Minimum(legal) == IF legal.minRaise # None THEN legal.minRaise
                  ELSE IF legal.minBet # None THEN legal.minBet ELSE legal.all
Clamped(legal, amount) == Min({Max({amount, Minimum(legal)}), legal.all})
RaisePresets(h, s, legal) ==
  LET base == PotTotal(h) + CallCost(h, s)
      target(fraction) == Clamped(legal, h.wager + CeilFraction(base, fraction))
  IN  {Minimum(legal), target(<<1, 2>>), target(<<3, 4>>), target(<<1, 1>>), legal.all}
EnteredRaise(legal, amount) ==
  LET n == Clamped(legal, amount) IN
  IF n = legal.all THEN Command("AllIn", n)
  ELSE Command(IF legal.minRaise # None THEN "Raise" ELSE "Bet", n)

(* Opponent::choose, over all cards, profiles and draws: a sized wager, a  *)
(* passive continuation, or a fold when it cannot check.                   *)
WishedWagers(h) ==
  IF h.phase = "Preflop" THEN {2 * h.blinds.bb, 3 * h.blinds.bb, h.wager + 3 * h.blinds.bb}
  ELSE {h.wager + Max({(PotTotal(h) * f) \div 3, h.blinds.bb}) : f \in {1, 2}}
OpponentActions(h, legal) ==
  {CheckOrCall(legal)}
  \cup (IF legal.check THEN {} ELSE {Command("Fold", 0)})
  \cup (IF legal.minRaise = None /\ legal.minBet = None THEN {}
        ELSE {Command(IF legal.minRaise # None THEN "Raise" ELSE "Bet",
                      Min({Max({wish, Minimum(legal)}), legal.all - 1})) : wish \in WishedWagers(h)})

(* postflop_feedback: the alternatives the coach may name for what was     *)
(* done, over all made hands and draws.                                    *)
RaiseAdvice(legal) == IF legal.minRaise # None \/ legal.minBet # None THEN {"raise"} ELSE {}
FoldAdvice(legal) == IF legal.fold THEN {"fold"} ELSE {}
PostflopAdvice(legal, did) ==
  CASE did \in {"Bet", "Raise", "AllIn"} -> {"check_call"}
    [] did = "Call"  -> FoldAdvice(legal) \cup RaiseAdvice(legal)
    [] did = "Check" -> RaiseAdvice(legal)
    [] did = "Fold"  -> {"check_call"}
(* Whether what is named can be done. *)
CanFollow(h, s, advice) ==
  CASE advice = "fold" -> MayFold(h, s)
    [] advice = "check_call" -> Accepts(h, s, CheckOrCall(LegalActions(h, s)))
    [] advice = "raise" -> \E to \in Amounts(h) : MayBet(h, s, to) \/ MayRaise(h, s, to)

-----------------------------------------------------------------------------
(* What the best hand would collect if the seat called and nobody put in   *)
(* another chip: from every other seat, at most what the seat itself has   *)
(* in, and of its own chips, what somebody matched.                        *)
Winnable(h, s) ==
  LET mine == AfterCall(h, s)[s]
      others == Occupied(h) \ {s}
  IN  SumFunction([t \in others |-> Min({mine, h.total[t]})])
      + Min({mine, Max({h.total[t] : t \in others})})

(* ViewsHonest: the amounts that are shown add up to the chips in play     *)
(* before and after the settlement, and the pot a caller is said to play   *)
(* for is what the caller can win; a finished hand's record shows the      *)
(* cards of the seats a showdown paid and of no seat that folded; the      *)
(* client admits exactly the commands the server accepts, and every        *)
(* amount, key, opponent and piece of advice that is derived from the      *)
(* offer is a command the hand accepts.                                    *)
AmountsAddUp(h) ==
  LET view == Projection(h, Watching) IN
  /\ ~Terminal(h) => SumFunction(view.stack) + view.pot = h.initial
  /\ Terminal(h) => /\ view.pot + SumFunction(h.returned) = SumFunction(view.total)
                    /\ SumFunction(view.stack) = h.initial
HistoryIsPublic(h) ==
  Terminal(h) =>
    LET record == SafeHistory(h) IN
    /\ record.revealed \subseteq Eligible(h)
    /\ h.phase = "Showdown" => \A a \in record.awards : DOMAIN a.payouts \subseteq record.revealed
OfferHolds(h, s) ==
  \A legal \in Projection(h, s).legal :
    LET accepted == {c \in Commands(h) : Accepts(h, s, c)}
        entered  == {EnteredRaise(legal, n) : n \in Amounts(h) \cup RaisePresets(h, s, legal)}
    IN
    /\ accepted = {c \in Commands(h) : ClientAllows(legal, c)}
    /\ {PassiveAction(legal), AllInAction(legal)} \cup OpponentActions(h, legal) \subseteq accepted
    /\ Minimum(legal) < legal.all => {c \in entered : c.kind # "AllIn"} \subseteq accepted
    /\ h.phase # "Preflop" =>
         \A advice \in UNION {PostflopAdvice(legal, c.kind) : c \in accepted} : CanFollow(h, s, advice)
    /\ ContestablePot(h, s) = Winnable(h, s)
    /\ \A t \in Eligible(h) \ {s} :
         /\ EffectiveRemaining(h, s, t) <= h.stack[t]
         /\ h.part[t] = "AllIn" => EffectiveRemaining(h, s, t) = 0
ViewsHonest ==
  AmountsAddUp(hand) /\ HistoryIsPublic(hand) /\ \A s \in Occupied(hand) : OfferHolds(hand, s)
=============================================================================
