--------------------------- MODULE PolicyActions ---------------------------
(***************************************************************************)
(* What players and programs are offered in a hand, and what the policies  *)
(* of src/training answer: the legal-action offer of                       *)
(* MultiwayHand::legal_actions_for, the observation derived from it, the   *)
(* nine abstract actions of src/training/action.rs and their mapping to    *)
(* commands, the baseline policies of policy.rs, and the command chooser   *)
(* of src/game/campaign.rs.  The offer and the mapping never change the    *)
(* hand: they are operators, and the arena's step submits one command.     *)
(***************************************************************************)
EXTENDS MultiwayHand

None == 0    \* an Option without a value: every amount offered is positive

(* legal_actions_for. *)
LegalActions(h, s) ==
  LET toCall == ToCall(h, s)
      most   == AllInTo(h, s) - 1
      bet    == h.wager = 0 /\ OtherLive(h, s) /\ most >= h.blinds.bb
      raise  == h.wager > 0 /\ OtherLive(h, s) /\ RaiseReopened(h, s) /\ most >= h.wager + h.raise
  IN  [fold     |-> toCall > 0,
       check    |-> toCall = 0,
       call     |-> IF toCall > 0 /\ toCall < h.stack[s] THEN toCall ELSE None,
       minBet   |-> IF bet THEN h.blinds.bb ELSE None,
       minRaise |-> IF raise THEN h.wager + h.raise ELSE None,
       all      |-> AllInTo(h, s),
       reopened |-> RaiseReopened(h, s)]
CanAllIn(legal) == legal.reopened \/ (~legal.check /\ legal.call = None)

(* from_authorized: the parts of the acting seat's projection that the     *)
(* mapping and the policies read.                                          *)
ScaledRatio(numerator, denominator, scale) == (numerator * scale) \div denominator
Observation(h, s) ==
  LET pot == SumFunction(h.total) IN
  [legal |-> LegalActions(h, s), mine |-> h.street[s], wager |-> h.wager, pot |-> pot,
   toCall |-> ToCall(h, s),
   odds |-> IF ToCall(h, s) > 0 THEN ScaledRatio(ToCall(h, s), pot + ToCall(h, s), 1000000)
            ELSE 0]

-----------------------------------------------------------------------------
(* map_policy_action: a command, or None for a masked action. *)
Masked == [kind |-> "Masked", to |-> 0]
Command(kind, to) == [kind |-> kind, to |-> to]
PotFractions ==
  [BetRaiseQuarterPot |-> <<1, 4>>, BetRaiseHalfPot |-> <<1, 2>>, BetRaiseThreeQuarterPot |-> <<3, 4>>,
   BetRaisePot |-> <<1, 1>>, BetRaiseOneAndHalfPot |-> <<3, 2>>]
CeilFraction(value, fraction) == (value * fraction[1] + fraction[2] - 1) \div fraction[2]

(* Mutant: whoever cannot raise shoves, reopened or not. *)
ShoveAnyway(o, fraction) ==
  LET least == Max({o.legal.minBet, o.legal.minRaise})
      wish == Max({o.wager + CeilFraction(o.pot + o.toCall, fraction), least})
  IN  IF least = None \/ wish >= o.legal.all THEN Command("AllIn", o.legal.all)
      ELSE Command(IF o.legal.minBet # None THEN "Bet" ELSE "Raise", wish)

(* map_fraction: held between the minimum and an all-in. *)
MapFraction(o, fraction) ==
  LET opens == o.legal.minBet # None
      least == IF opens THEN o.legal.minBet ELSE o.legal.minRaise
      wish  == IF opens THEN o.mine + CeilFraction(o.pot, fraction)
               ELSE o.wager + CeilFraction(o.pot + o.toCall, fraction)
      shove == Command("AllIn", o.legal.all)
  IN  CASE least # None /\ Max({wish, least}) >= o.legal.all -> shove
        [] least # None /\ Max({wish, least}) < o.legal.all ->
             Command(IF opens THEN "Bet" ELSE "Raise", Max({wish, least}))
        [] least = None /\ o.legal.all > o.mine /\ CanAllIn(o.legal) -> shove
        [] OTHER -> Masked

MapPolicyAction(o, action) ==
  CASE action = "Fold"  -> IF o.legal.fold THEN Command("Fold", 0) ELSE Masked
    [] action = "Check" -> IF o.legal.check THEN Command("Check", 0) ELSE Masked
    [] action = "Call"  -> IF o.legal.call # None THEN Command("Call", o.legal.call)
                           ELSE IF o.toCall > 0 /\ o.legal.all > o.mine
                           THEN Command("AllIn", o.legal.all) ELSE Masked
    [] action = "AllIn" -> IF o.legal.all > o.mine /\ CanAllIn(o.legal)
                           THEN Command("AllIn", o.legal.all) ELSE Masked
    [] OTHER -> MapFraction(o, PotFractions[action])

PolicyActionNames == {"Fold", "Check", "Call", "AllIn"} \cup DOMAIN PotFractions
LegalPolicyActions(o) == {a \in PolicyActionNames : MapPolicyAction(o, a) # Masked}

-----------------------------------------------------------------------------
(* The policies: the answers each may give to an observation. *)
PreferLegal(o, wishes) ==
  LET legal == {i \in DOMAIN wishes : wishes[i] \in LegalPolicyActions(o)}
  IN  IF legal = {} THEN {} ELSE {wishes[Min(legal)]}
Else(answers, others) == IF answers # {} THEN answers ELSE others
PassiveFallback(o) == PreferLegal(o, <<"Check", "Call", "AllIn", "Fold">>)
Big == <<"BetRaisePot", "BetRaiseThreeQuarterPot", "BetRaiseHalfPot">>

CheckCall(o) == IF o.legal.check THEN {"Check"} ELSE IF o.toCall > 0 THEN {"Call"} ELSE {}
FoldCheck(o) == IF o.legal.check THEN {"Check"} ELSE IF o.legal.fold THEN {"Fold"}
                ELSE PassiveFallback(o)
PotPressure(o) == Else(PreferLegal(o, Big), PassiveFallback(o))
Jam(o) == Else(PreferLegal(o, <<"AllIn">>), PassiveFallback(o))

(* The sampled equity, in millionths, around the thresholds it is compared *)
(* with.                                                                   *)
Equities(o) == {0, o.odds, 580000, 650000, 750000, 1000000} \cup {Max({o.odds - 1, 0})}
EquityPotOddsAt(o, equity) ==
  IF o.toCall = 0
  THEN Else(PreferLegal(o, IF equity >= 750000 THEN Big
                           ELSE IF equity >= 580000 THEN <<"BetRaiseHalfPot", "BetRaiseQuarterPot">>
                           ELSE <<>>), PassiveFallback(o))
  ELSE LET raise == IF equity >= Max({o.odds + 200000, 650000}) THEN PreferLegal(o, Big) ELSE {}
           rest  == IF equity >= o.odds THEN Else(PreferLegal(o, <<"Call">>), PassiveFallback(o))
                    ELSE IF o.legal.fold THEN {"Fold"} ELSE PassiveFallback(o)
       IN  Else(raise, rest)

(* choose_action of the campaign picks any one of these. *)
CampaignActions(legal) ==
  (IF legal.fold THEN {Command("Fold", 0)} ELSE {})
  \cup (IF legal.check THEN {Command("Check", 0)} ELSE {})
  \cup (IF legal.call # None THEN {Command("Call", legal.call)} ELSE {})
  \cup (IF legal.minBet # None THEN {Command("Bet", legal.minBet)} ELSE {})
  \cup (IF legal.minRaise # None THEN {Command("Raise", legal.minRaise)} ELSE {})
  \cup (IF CanAllIn(legal) THEN {Command("AllIn", legal.all)} ELSE {})

-----------------------------------------------------------------------------
(* What the hand would do with a command of the seat to act. *)
Accepts(h, s, command) ==
  \/ command.kind = "Fold" /\ MayFold(h, s)
  \/ command.kind = "Check" /\ MayCheck(h, s)
  \/ command.kind = "Call" /\ MayCall(h, s) /\ command.to = ToCall(h, s)
  \/ command.kind = "Bet" /\ MayBet(h, s, command.to)
  \/ command.kind = "Raise" /\ MayRaise(h, s, command.to)
  \/ command.kind = "AllIn" /\ MayAllIn(h, s) /\ command.to = AllInTo(h, s)

(* PoliciesStayLegal: in every position with a seat to act, whatever is    *)
(* not masked maps to a command the hand accepts, every policy has an      *)
(* answer and answers with an action that is not masked (the arena counts  *)
(* anything else as a failed episode), the campaign's candidates are       *)
(* accepted too, and there is always one.                                  *)
PoliciesStayLegal ==
  \A s \in {s \in Occupied(hand) : ToAct(s)} :
    LET o == Observation(hand, s)
        legal == LegalPolicyActions(o)
        Answers(answer) == answer # {} /\ answer \subseteq legal
    IN  /\ \A a \in legal : Accepts(hand, s, MapPolicyAction(o, a))
        /\ Answers(CheckCall(o)) /\ Answers(FoldCheck(o)) /\ Answers(PotPressure(o))
        /\ Answers(Jam(o)) /\ Answers(legal)
        /\ \A equity \in Equities(o) : Answers(EquityPotOddsAt(o, equity))
        /\ CampaignActions(o.legal) # {}
        /\ \A c \in CampaignActions(o.legal) : Accepts(hand, s, c)
=============================================================================
