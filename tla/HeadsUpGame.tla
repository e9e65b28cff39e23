---------------------------- MODULE HeadsUpGame -----------------------------
(***************************************************************************)
(* The two-seat betting engine (src/game/state.rs) as operators over a     *)
(* game record.  Cards are abstracted to the winner of the showdown, drawn *)
(* when it is resolved.  An action is a kind and an amount: what a call    *)
(* adds, or the street total of a bet, a raise or an all-in.               *)
(***************************************************************************)
EXTENDS Integers, FiniteSets, FiniteSetsExt

CONSTANTS SmallBlind, BigBlind, StartingStack, Nobody

Places == {0, 1}
Rival(s) == 1 - s
Streets == <<"Preflop", "Flop", "Turn", "River">>
Betting(g) == \E i \in DOMAIN Streets : Streets[i] = g.phase
BoardLength(phase) ==
  CASE phase = "Preflop" -> 0 [] phase = "Flop" -> 3 [] phase = "Turn" -> 4 [] OTHER -> 5

MaxBet(g) == Max({g.bet[s] : s \in Places})
ToCall(g, s) == MaxBet(g) - g.bet[s]
MinRaiseTo(g) == MaxBet(g) + Max({g.raiseSize, BigBlind})
EligibleToAct(g, s) == g.stack[s] > 0 /\ g.part[s] = "Live"

Put(g, s, amount) ==
  LET paid == Min({amount, g.stack[s]})
  IN  [g EXCEPT !.stack[s] = @ - paid, !.bet[s] = @ + paid, !.pot = @ + paid]
PostBlind(g, s, blind) ==
  LET posted == Put(g, s, blind)
  IN  IF posted.stack[s] = 0 THEN [posted EXCEPT !.part[s] = "AllIn"] ELSE posted

(* start_new_hand; both seats have chips.  The button is the small blind   *)
(* and is given the first turn, with or without chips left.                *)
StartNewHand(g) ==
  LET button == Rival(g.button)
      clean  == [g EXCEPT !.phase = "Preflop", !.board = 0, !.pot = 0,
                          !.bet = [s \in Places |-> 0], !.part = [s \in Places |-> "Live"],
                          !.button = button, !.aggressor = Nobody, !.opener = Nobody,
                          !.raiseSize = BigBlind, !.last = Nobody, !.acted = 0,
                          !.winner = Nobody, !.toAct = button]
  IN  PostBlind(PostBlind(clean, button, SmallBlind), Rival(button), BigBlind)
NewGame ==
  StartNewHand([phase |-> "Preflop", board |-> 0, pot |-> 0,
                stack |-> [s \in Places |-> StartingStack],
                bet |-> [s \in Places |-> 0], part |-> [s \in Places |-> "NotDealt"],
                toAct |-> 0, button |-> 1, aggressor |-> Nobody, opener |-> Nobody,
                raiseSize |-> BigBlind, last |-> Nobody, acted |-> 0, winner |-> Nobody])

-----------------------------------------------------------------------------
(* validate_command *)
LegalAmount(g, s, a) ==
  LET call  == ToCall(g, s)
      total == g.bet[s] + g.stack[s]
  IN  CASE a.kind = "Fold"  -> call > 0
        [] a.kind = "Check" -> call = 0
        [] a.kind = "Call"  -> call > 0 /\ call < g.stack[s] /\ a.amount = call
        [] a.kind = "Bet"   -> /\ call = 0 /\ a.amount < total
                               /\ a.amount >= IF MaxBet(g) = 0 THEN BigBlind ELSE MinRaiseTo(g)
        [] a.kind = "Raise" -> call > 0 /\ a.amount \in MinRaiseTo(g) .. total - 1
        [] a.kind = "AllIn" -> a.amount = total /\ g.stack[s] > 0
Valid(g, s, a) == Betting(g) /\ EligibleToAct(g, s) /\ s = g.toAct /\ LegalAmount(g, s, a)

Aggressive(g, a) == a.kind \in {"Bet", "Raise"} \/ (a.kind = "AllIn" /\ a.amount > MaxBet(g))

(* Mutant: the uncalled part of a bet is returned and stays in the pot.    *)
ReturnKeepsPot(g) ==
  LET effective == Min({g.bet[s] : s \in Places})
  IN  [g EXCEPT !.stack = [s \in Places |-> @[s] + g.bet[s] - effective],
                !.bet   = [s \in Places |-> effective]]

(* return_uncalled_heads_up_excess *)
ReturnExcess(g) ==
  LET effective == Min({g.bet[s] : s \in Places})
  IN  [g EXCEPT !.stack = [s \in Places |-> @[s] + g.bet[s] - effective],
                !.bet   = [s \in Places |-> effective],
                !.pot   = @ - (MaxBet(g) - effective)]

(* resolve_showdown, for a winner or a tie; the odd chip of a tie goes to  *)
(* the seat after the button.                                              *)
Resolve(g, winner) ==
  LET odd == Rival(g.button)
      share == [s \in Places |-> IF winner = Nobody
                                 THEN g.pot \div 2 + (IF s = odd THEN g.pot % 2 ELSE 0)
                                 ELSE IF s = winner THEN g.pot ELSE 0]
  IN  [g EXCEPT !.stack = [s \in Places |-> @[s] + share[s]],
                !.pot = 0, !.phase = "Showdown", !.winner = winner]

(* advance_phase: the games it may lead to.  When nobody can act the turn  *)
(* stays where it was; after the betting only the bets are cleared.        *)
AdvancePhase(g) ==
  LET settled == [ReturnExcess(g) EXCEPT !.bet = [s \in Places |-> 0], !.aggressor = Nobody, !.acted = 0]
      index   == CHOOSE i \in DOMAIN Streets : Streets[i] = g.phase
      able    == {s \in Places : EligibleToAct(settled, s)}
      first   == IF Rival(g.button) \in able THEN Rival(g.button) ELSE g.button
  IN  IF ~Betting(g) THEN {settled}
      ELSE IF g.phase = "River"
      THEN {Resolve(settled, winner) : winner \in Places \cup {Nobody}}
      ELSE {[settled EXCEPT !.phase = Streets[index + 1], !.board = BoardLength(Streets[index + 1]),
                            !.toAct = IF able = {} THEN @ ELSE first]}

(* is_betting_round_complete *)
RoundComplete(g) ==
  IF \E s \in Places : g.stack[s] = 0
  THEN \/ \A s \in Places : g.stack[s] = 0
       \/ \E s \in Places : g.stack[s] = 0 /\ g.bet[s] <= g.bet[Rival(s)]
  ELSE /\ g.bet[0] = g.bet[1]
       /\ g.aggressor # Nobody
          \/ IF g.phase = "Preflop" THEN g.last = [by |-> Rival(g.button), kind |-> "Check"]
             ELSE g.acted >= 2

(* handle_fold *)
FoldHand(g, s) ==
  [g EXCEPT !.part[s] = "Folded", !.stack[Rival(s)] = @ + g.pot, !.pot = 0,
            !.phase = "HandComplete", !.winner = Rival(s)]

(* apply_validated_action: the games an action may lead to. *)
Bets(g, s, a) ==
  LET paid  == Put(g, s, IF a.kind = "Call" THEN a.amount ELSE a.amount - g.bet[s])
      party == IF a.kind = "AllIn" THEN [paid EXCEPT !.part[s] = "AllIn"] ELSE paid
  IN  IF a.kind = "Check" THEN g
      ELSE IF ~Aggressive(g, a) THEN party
      ELSE [party EXCEPT !.aggressor = s, !.raiseSize = a.amount - MaxBet(g),
                         !.opener = IF g.phase = "Preflop" THEN s ELSE @]
Applied(g, s, a) ==
  LET counted == [g EXCEPT !.last = [by |-> s, kind |-> a.kind], !.acted = @ + 1]
      betted  == Bets(counted, s, a)
  IN  IF a.kind = "Fold" THEN {FoldHand(counted, s)}
      ELSE IF RoundComplete(betted) THEN AdvancePhase(betted)
      ELSE {[betted EXCEPT !.toAct = IF EligibleToAct(betted, Rival(s)) THEN Rival(s) ELSE s]}

-----------------------------------------------------------------------------
(* What a controller is offered: available_actions. *)
CanCall(g, s)  == ToCall(g, s) > 0 /\ ToCall(g, s) < g.stack[s]
MayRaise(g, s) == ToCall(g, s) > 0 /\ MinRaiseTo(g) < g.stack[s]
MinBet(g, s)   == IF ToCall(g, s) = 0 /\ g.stack[s] > 0 THEN Min({BigBlind, g.stack[s]}) ELSE 0
Do(kind, amount) == [kind |-> kind, amount |-> amount]

(***************************************************************************)
(* The rule-based bot (src/bot/rule_based.rs): the actions it can decide   *)
(* on in a position, over all hand strengths, aggressions and draws of its *)
(* random numbers.  Amounts at or above the stack become an all-in.        *)
(***************************************************************************)
RaiseOrShove(g, s, amount, kind) ==
  LET total == g.bet[s] + g.stack[s]
  IN  IF amount >= total THEN Do("AllIn", total) ELSE Do(kind, amount)
CallOrShove(g, s) ==
  IF ToCall(g, s) >= g.stack[s] THEN Do("AllIn", g.bet[s] + g.stack[s]) ELSE Do("Call", ToCall(g, s))

PreflopRaises(g, s) ==
  LET floor == IF ToCall(g, s) = 0 THEN IF MinBet(g, s) = 0 THEN BigBlind ELSE MinBet(g, s)
               ELSE IF MayRaise(g, s) THEN MinRaiseTo(g) ELSE 0
      kind  == IF ToCall(g, s) = 0 THEN "Bet" ELSE "Raise"
  IN  {RaiseOrShove(g, s, Max({floor, amount}), kind) : amount \in {3 * BigBlind, (5 * BigBlind) \div 2}}
Reraises(g, s) ==
  IF ~MayRaise(g, s) THEN {}
  ELSE LET total == g.bet[s] + g.stack[s]
           three == Max({3 * MaxBet(g), MinRaiseTo(g)})
           light == {Max({(5 * MaxBet(g)) \div 2, MinRaiseTo(g)}), Max({7 * BigBlind, MinRaiseTo(g)})}
       IN  {RaiseOrShove(g, s, three, "Raise")} \cup {Do("Raise", n) : n \in {m \in light : m < total}}
BotPreflop(g, s) ==
  IF ToCall(g, s) = 0 THEN PreflopRaises(g, s) \cup {Do("Check", 0)}
  ELSE {CallOrShove(g, s), Do("Fold", 0)}
       \cup (IF g.aggressor = Nobody THEN PreflopRaises(g, s) ELSE Reraises(g, s))

(* Bets are 30, 60 or 85 % of the pot. *)
BotBets(g, s) ==
  IF MinBet(g, s) = 0 THEN {}
  ELSE LET sized(percent) == Min({Max({(g.pot * percent) \div 100, MinBet(g, s)}), g.stack[s]})
       IN  {IF sized(p) >= g.stack[s] THEN Do("AllIn", g.bet[s] + g.stack[s]) ELSE Do("Bet", sized(p))
              : p \in {30, 60, 85}}
BotPostflop(g, s) ==
  IF ToCall(g, s) = 0 THEN BotBets(g, s) \cup {Do("Check", 0)}
  ELSE LET raised == Max({(g.pot * 70) \div 100 + g.bet[s], MinRaiseTo(g)})
       IN  {CallOrShove(g, s), Do("Fold", 0)}
           \cup (IF MayRaise(g, s) THEN {RaiseOrShove(g, s, raised, "Raise")} ELSE {})
BotDecisions(g, s) ==
  IF ~Betting(g) THEN {Do("Check", 0)}
  ELSE IF g.phase = "Preflop" THEN BotPreflop(g, s) ELSE BotPostflop(g, s)

(* The learner's keys (src/ui/input.rs): raises are typed in big blinds    *)
(* and clamped between the least raise and the stack.                      *)
TypedRaise(g, s, blinds) ==
  LET total == g.bet[s] + g.stack[s]
      floor == IF MayRaise(g, s) THEN MinRaiseTo(g)
               ELSE IF MinBet(g, s) = 0 THEN BigBlind ELSE MinBet(g, s)
      wager == Min({Max({blinds * BigBlind, floor}), total})
  IN  IF wager >= total THEN Do("AllIn", total)
      ELSE Do(IF ToCall(g, s) > 0 THEN "Raise" ELSE "Bet", wager)
TypedActions(g, s) ==
  (IF ToCall(g, s) > 0 THEN {Do("Fold", 0)} ELSE {Do("Check", 0)})
  \cup (IF CanCall(g, s) THEN {Do("Call", ToCall(g, s))} ELSE {})
  \cup (IF g.stack[s] > 0 THEN {Do("AllIn", g.bet[s] + g.stack[s])} ELSE {})
  \cup (IF MayRaise(g, s) \/ MinBet(g, s) > 0
        THEN {TypedRaise(g, s, n) : n \in 1 .. (2 * StartingStack) \div BigBlind} ELSE {})

=============================================================================
