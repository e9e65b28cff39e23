---------------------------- MODULE RiverReview -----------------------------
(***************************************************************************)
(* The hand-over of a river decision to the solver: which decisions the    *)
(* trainer offers for review (eligibility of src/trainer/live_solver.rs),  *)
(* who is out of position (ranges.rs), and the replay of the river's       *)
(* actions into a tree with two players and one effective stack (context,  *)
(* replay_record, map_action, ensure_action).  The hand is MultiwayHand's, *)
(* with the action history that Session::observation copies from it.  The  *)
(* solver itself is a library; of the ranges only the places matter here.  *)
(***************************************************************************)
EXTENDS PolicyActions

CONSTANTS
  MaxHistory,    \* bound: MAX_HISTORY, river actions before the decision
  MaxLog         \* bound: actions of a hand

VARIABLES
  log,           \* MultiwayHand::action_history
  decision       \* the Decision recorded for the action just taken
reviewVars == <<hand, fullRaise, log, decision>>

NoDecisionYet == <<>>
PhaseIndex == [Preflop |-> 0, Flop |-> 1, Turn |-> 2, River |-> 3, Showdown |-> 4, HandComplete |-> 5]

(* The observation of the seat to act, and the action it chose. *)
DecisionOf(h, s, command) == <<[hand |-> h, actor |-> s, command |-> command, log |-> log]>>

OnRiver(records) == SelectSeq(records, LAMBDA a : a.phase = "River")
Passive == {"Fold", "Check", "Call"}

-----------------------------------------------------------------------------
(* eligibility. *)
ValidAccepted(d) ==
  LET legal == LegalActions(d.hand, d.actor)
      c == d.command
  IN  CASE c.kind = "Fold"  -> legal.fold
        [] c.kind = "Check" -> legal.check
        [] c.kind = "Call"  -> legal.call # None /\ legal.call = c.to
        [] c.kind = "Bet"   -> legal.minBet # None /\ c.to \in legal.minBet .. legal.all - 1
        [] c.kind = "Raise" -> /\ legal.reopened /\ legal.minRaise # None
                               /\ c.to \in legal.minRaise .. legal.all - 1
        [] c.kind = "AllIn" -> /\ CanAllIn(legal) /\ c.to = legal.all
                               /\ c.to > d.hand.street[d.actor]

InHand(h) == {s \in Occupied(h) : h.part[s] = "Live"}
HistoryIsWhole(d) ==
  /\ d.log # <<>>
  /\ \A i \in 1 .. Len(d.log) - 1 : PhaseIndex[d.log[i].phase] <= PhaseIndex[d.log[i + 1].phase]
  /\ \A i \in DOMAIN d.log : PhaseIndex[d.log[i].phase] <= 3
Reviewable(d) ==
  LET h == d.hand
      live == InHand(h)
      river == OnRiver(d.log)
  IN  /\ h.phase = "River" /\ h.board = 5
      /\ Cardinality(live) = 2 /\ \A s \in Occupied(h) : h.part[s] # "AllIn"
      /\ d.actor \in live /\ \A s \in live : h.stack[s] > 0
      /\ Len(river) <= MaxHistory
      /\ \A i \in DOMAIN river : river[i].kind \notin {"Fold", "AllIn"} /\ river[i].seat \in live
      /\ \A s \in Occupied(h) \ live : h.street[s] = 0
      /\ Cardinality({h.total[s] - h.street[s] : s \in live}) = 1
      /\ h.wager = Max({h.street[s] : s \in live})
      /\ HistoryIsWhole(d)
      /\ ValidAccepted(d)

-----------------------------------------------------------------------------
(* ranges_from_observation: of the two, the one further after the button   *)
(* is in position; the button itself comes last.                           *)
(* Mutant: the button is no seat after itself. *)
DistanceFromButton(h, s) == Offset(h.button, s)
DistanceAfterButton(h, s) == IF s = h.button THEN TableSize ELSE Offset(h.button, s)
InPosition(h) ==
  CHOOSE s \in InHand(h) : \A t \in InHand(h) : DistanceAfterButton(h, t) <= DistanceAfterButton(h, s)
OutOfPosition(h) == CHOOSE s \in InHand(h) : s # InPosition(h)

(* Players of the solver: 1 is out of position, 2 in position. *)
Players(h) == <<OutOfPosition(h), InPosition(h)>>
PlayerAt(index) == IF index % 2 = 1 THEN 1 ELSE 2
EffectiveStack(h) == Min({h.stack[s] + h.street[s] : s \in InHand(h)})
RootPot(h) == SumFunction(h.total) - h.street[OutOfPosition(h)] - h.street[InPosition(h)]

(* map_action: an action of the tree, or one without a name. *)
Unmapped == [name |-> "None", to |-> 0]
MapAction(c, wager, effective) ==
  CASE c.kind \in Passive -> [name |-> c.kind, to |-> 0]
    [] /\ c.to = effective
       /\ \/ c.kind = "Bet" /\ wager = 0
          \/ c.kind = "Raise" /\ wager > 0
          \/ c.kind = "AllIn" /\ c.to > wager -> [name |-> "AllIn", to |-> c.to]
    [] c.to < effective /\ c.kind = "Bet" /\ wager = 0 -> [name |-> "Bet", to |-> c.to]
    [] c.to < effective /\ c.kind = "Raise" /\ wager > 0 -> [name |-> "Raise", to |-> c.to]
    [] OTHER -> Unmapped

(* replay_record, on what was replayed so far. *)
Start == [put |-> <<0, 0>>, wager |-> 0, line |-> <<>>, fault |-> "none"]
Replayed(r, a, player, effective) ==
  LET own == r.put[player]
      sized == /\ a.to <= effective
               /\ \/ a.kind = "Bet" /\ r.wager = 0 /\ own = 0 /\ a.to > 0
                  \/ a.kind = "Raise" /\ r.wager > own /\ a.to > r.wager
      fits == \/ a.kind = "Check" /\ own = r.wager
              \/ a.kind = "Call" /\ r.wager > own /\ a.to = r.wager - own
              \/ sized
      after == IF sized THEN a.to ELSE r.wager
  IN  CASE r.fault # "none" -> r
        [] r.fault = "none" /\ ~fits -> [r EXCEPT !.fault = "unsupported"]
        [] r.fault = "none" /\ fits /\ a.wager # after -> [r EXCEPT !.fault = "wager"]
        [] OTHER -> [r EXCEPT !.put[player] = IF a.kind = "Check" THEN @ ELSE after,
                              !.wager = after,
                              !.line = Append(@, MapAction(a, r.wager, effective))]
Replay(d) ==
  LET river == OnRiver(d.log)
      step(r, i) ==
        LET player == PlayerAt(i) IN
        IF r.fault = "none" /\ river[i].seat # Players(d.hand)[player]
        THEN [r EXCEPT !.fault = "order"]
        ELSE Replayed(r, river[i], player, EffectiveStack(d.hand))
  IN  FoldLeft(step, Start, [i \in DOMAIN river |-> i])

(* context: the first thing that is wrong with the decision, or none. *)
ContextFault(d) ==
  LET r == Replay(d)
      h == d.hand
      next == Players(h)[PlayerAt(Len(OnRiver(d.log)) + 1)]
  IN  CASE RootPot(h) = 0 -> "pot"
        [] RootPot(h) > 0 /\ r.fault # "none" -> r.fault
        [] RootPot(h) > 0 /\ r.fault = "none" /\ ( \/ r.put # [p \in 1 .. 2 |-> h.street[Players(h)[p]]]
                                                  \/ r.wager # h.wager ) -> "contributions"
        [] RootPot(h) > 0 /\ r.fault = "none" /\ r.put = [p \in 1 .. 2 |-> h.street[Players(h)[p]]]
             /\ r.wager = h.wager /\ d.actor # next -> "actor"
        [] OTHER -> IF MapAction(d.command, r.wager, EffectiveStack(h)) = Unmapped THEN "size"
                    ELSE "none"

-----------------------------------------------------------------------------
(* The tree of solve_with_ranges at a line of actions: what put in how     *)
(* much, who is next, and which passive actions it offers (ensure_action   *)
(* adds a missing size, never a missing passive action).                   *)
TreePut(line) ==
  LET step(put, i) ==
        LET p == PlayerAt(i) IN
        [put EXCEPT ![p] = IF line[i].name = "Call" THEN put[3 - p]
                           ELSE IF line[i].name = "Check" THEN @ ELSE line[i].to]
  IN  FoldLeft(step, <<0, 0>>, [i \in DOMAIN line |-> i])
Offered(line, name) ==
  LET put == TreePut(line)
      behind == put[1] # put[2]
  IN  CASE name = "Check" -> ~behind
        [] name \in {"Fold", "Call"} -> behind
        [] OTHER -> TRUE
(* The line still waits for an action. *)
Open(line) ==
  LET n == Len(line) IN
  n > 0 => /\ line[n].name # "Call" /\ line[n].name # "Fold"
           /\ ~(n > 1 /\ line[n].name = "Check" /\ line[n - 1].name = "Check")

-----------------------------------------------------------------------------
(* A hand of the trainer: before the river players check, call and fold.   *)
Record(s, command) ==
  /\ log' = Append(log, [phase |-> hand.phase, seat |-> s, kind |-> command.kind, to |-> command.to,
                         wager |-> IF command.kind \in {"Bet", "Raise", "AllIn"}
                                   THEN Max({hand.wager, command.to}) ELSE hand.wager])
  /\ decision' = DecisionOf(hand, s, command)

Passively(s) ==
  \/ Fold(s) /\ Record(s, Command("Fold", 0))
  \/ Check(s) /\ Record(s, Command("Check", 0))
  \/ Call(s) /\ Record(s, Command("Call", ToCall(hand, s)))
Wagers(s) ==
  /\ hand.phase = "River"
  /\ \/ /\ Bet(s) /\ Record(s, Command("Bet", hand'.total[s] - hand.total[s] + hand.street[s]))
     \/ /\ Raise(s) /\ Record(s, Command("Raise", hand'.total[s] - hand.total[s] + hand.street[s]))
     \/ /\ AllIn(s) /\ Record(s, Command("AllIn", AllInTo(hand, s)))

ReviewInit == Init /\ log = <<>> /\ decision = NoDecisionYet
ReviewNext ==
  \E s \in Occupied(hand) :
    /\ Len(log) < MaxLog
    /\ Passively(s) \/ Wagers(s)

ReviewSpec == ReviewInit /\ [][ReviewNext]_reviewVars

(* LineIsTheHand: whatever decision the gate lets through, the replay      *)
(* never disagrees with the hand about whose turn it is, about the wager   *)
(* or about what was put in: a review is refused for an amount the tree    *)
(* has no room for, and for nothing else.  When it goes on, the tree is at *)
(* a node where the player to act is the one who acted, with the same      *)
(* chips in, and it offers what was done.                                  *)
LineIsTheHand ==
  \A d \in Range(decision) :
    Reviewable(d) =>
      LET fault == ContextFault(d)
          h == d.hand
          line == Replay(d).line
          large == \/ \E a \in Range(OnRiver(d.log)) :
                        a.kind \in {"Bet", "Raise"} /\ a.to > EffectiveStack(h)
                   \/ d.command.kind \notin Passive /\ d.command.to > EffectiveStack(h)
                   \/ d.command.kind = "AllIn" /\ d.command.to <= h.wager
      IN  /\ fault \in {"none", "unsupported", "size"}
          /\ fault = "none" <=> ~large
          /\ fault = "none" =>
               /\ Unmapped \notin Range(line) /\ Open(line)
               /\ TreePut(line) = [p \in 1 .. 2 |-> h.street[Players(h)[p]]]
               /\ Players(h)[PlayerAt(Len(line) + 1)] = d.actor
               /\ Offered(line, MapAction(d.command, h.wager, EffectiveStack(h)).name)
               /\ RootPot(h) + TreePut(line)[1] + TreePut(line)[2] = SumFunction(h.total)
=============================================================================
