------------------------------- MODULE HeadsUp -------------------------------
(***************************************************************************)
(* The two-seat program around HeadsUpGame (src/ui/app.rs, src/main.rs,    *)
(* src/stats): one pending event at a time paces the table, the learner    *)
(* sits in place 0 and the bot in place 1, and counters are kept of what   *)
(* the learner did.  A delay passes at any time; texts are left out.       *)
(***************************************************************************)
EXTENDS HeadsUpGame

CONSTANTS
  Quiet,         \* no pending event
  MaxGames,      \* bound: hands of one session
  MaxSessions    \* bound: sessions

VARIABLES
  game,       \* App.game_state
  event,      \* the one pending event, or Quiet
  shown,      \* what the screen shows: board cards, result, and the last phase seen
  marks,      \* per-hand marks of the statistics
  stats,      \* PlayerStats
  counts      \* hands and sessions so far
headsUpVars == <<game, event, shown, marks, stats, counts>>

Learner == 0
Machine == 1

NoMarks == [flop |-> FALSE, vpip |-> FALSE, threeBet |-> FALSE, raised |-> FALSE,
            cbet |-> FALSE, facing |-> FALSE]
NoStats == [hands |-> 0, vpip |-> 0, pfr |-> 0, threeBetChances |-> 0, threeBets |-> 0,
            cbetChances |-> 0, cbets |-> 0, foldChances |-> 0, folds |-> 0,
            flops |-> 0, showdowns |-> 0, won |-> 0]
Fresh == [board |-> 0, result |-> FALSE, phase |-> "Preflop"]
Bump(s, field, yes) == IF yes THEN [s EXCEPT ![field] = @ + 1] ELSE s

HeadsUpInit ==
  /\ game = NewGame /\ event = "PostSmallBlind" /\ shown = Fresh /\ marks = NoMarks
  /\ stats = [NoStats EXCEPT !.hands = 1] /\ counts = [hands |-> 1, sessions |-> 1]

-----------------------------------------------------------------------------
(* enqueue_next_events, when no event is pending: counts the flop, notes   *)
(* the phase, and puts off play while a new card is hidden.                *)
BothHaveChips(g) == \A s \in Places : g.stack[s] > 0
NextEvent(g, screen) ==
  CASE g.phase = "HandComplete" -> IF BothHaveChips(g) THEN "StartNewHand" ELSE Quiet
    [] g.phase = "Showdown" -> "RevealShowdown"
    [] g.phase \in {"SessionEnd", "Summary"} -> Quiet
    [] Betting(g) /\ g.phase # screen.phase /\ screen.board < g.board -> "RevealCards"
    [] OTHER -> IF g.toAct = Machine THEN "BotAction" ELSE Quiet
Enqueue(g, screen, noted, counted) ==
  LET flop == ~noted.flop /\ g.board >= 3
  IN  /\ game' = g
      /\ event' = NextEvent(g, screen)
      /\ shown' = [screen EXCEPT !.phase = g.phase]
      /\ marks' = [noted EXCEPT !.flop = @ \/ flop]
      /\ stats' = Bump(counted, "flops", flop)

-----------------------------------------------------------------------------
(* apply_player_action: the statistics read the position before the action *)
(* is applied.                                                             *)
ThreeBetChance(g, noted) ==
  /\ ~noted.threeBet /\ ~noted.raised /\ g.board = 0
  /\ g.aggressor = Machine /\ ToCall(g, Learner) > 0
CbetChance(g, noted) ==
  ~noted.cbet /\ g.phase = "Flop" /\ g.opener = Learner /\ g.aggressor = Nobody
Voluntary(g, noted, a) == ~noted.vpip /\ g.board = 0 /\ a.kind \notin {"Fold", "Check"}
Marked(g, noted, a) ==
  [noted EXCEPT !.threeBet = @ \/ ThreeBetChance(g, noted),
                !.raised = @ \/ (g.board = 0 /\ Aggressive(g, a)),
                !.cbet = @ \/ CbetChance(g, noted), !.facing = FALSE,
                !.vpip = @ \/ Voluntary(g, noted, a)]
Counted(g, noted, a) ==
  LET bold   == Aggressive(g, a)
      three  == Bump(stats, "threeBetChances", ThreeBetChance(g, noted))
      three2 == Bump(three, "threeBets", ThreeBetChance(g, noted) /\ bold)
      cbet   == Bump(three2, "cbetChances", CbetChance(g, noted))
      cbet2  == Bump(cbet, "cbets", CbetChance(g, noted) /\ bold)
      faced  == Bump(cbet2, "foldChances", noted.facing)
      faced2 == Bump(faced, "folds", noted.facing /\ a.kind = "Fold")
      raise  == Bump(faced2, "pfr", bold /\ g.board = 0)
  IN  Bump(raise, "vpip", Voluntary(g, noted, a))

(* A key of the learner, taken only when nothing is pending. *)
LearnerActs ==
  /\ event = Quiet /\ Betting(game) /\ game.toAct = Learner
  /\ \E a \in TypedActions(game, Learner) :
       /\ Valid(game, Learner, a)
       /\ \E g \in Applied(game, Learner, a) :
            Enqueue(g, shown, Marked(game, marks, a), Counted(game, marks, a))
  /\ UNCHANGED counts

(* process_next_event: a rejected decision of the bot leaves nothing       *)
(* pending.                                                                *)
BotActs ==
  /\ event = "BotAction"
  /\ \E a \in BotDecisions(game, Machine) :
       IF Valid(game, Machine, a)
       THEN LET cbet == /\ game.phase = "Flop" /\ game.opener = Machine
                        /\ game.aggressor = Nobody /\ Aggressive(game, a)
            IN  \E g \in Applied(game, Machine, a) :
                  Enqueue(g, shown, [marks EXCEPT !.facing = @ \/ cbet], stats)
       ELSE event' = Quiet /\ UNCHANGED <<game, shown, marks, stats>>
  /\ UNCHANGED counts

DealNextHand ==
  /\ event = "StartNewHand" /\ counts.hands < MaxGames
  /\ game' = StartNewHand(game) /\ shown' = Fresh /\ marks' = NoMarks
  /\ stats' = Bump(stats, "hands", TRUE) /\ event' = "PostSmallBlind"
  /\ counts' = [counts EXCEPT !.hands = @ + 1]

ShowSmallBlind ==
  /\ event = "PostSmallBlind" /\ event' = "PostBigBlind"
  /\ UNCHANGED <<game, shown, marks, stats, counts>>
ShowBigBlind ==
  /\ event = "PostBigBlind" /\ Enqueue(game, shown, marks, stats) /\ UNCHANGED counts

(* The board is shown; with an empty stack at the table the next street    *)
(* follows without betting.                                                *)
Uncover(screen, g) == [screen EXCEPT !.board = g.board]
RevealCards ==
  /\ event = "RevealCards"
  /\ LET open == Uncover(shown, game)
     IN  IF ~BothHaveChips(game)
         THEN \E g \in AdvancePhase(game) : Enqueue(g, open, marks, stats)
         ELSE IF game.toAct = Machine
         THEN /\ shown' = open /\ event' = "BotAction" /\ UNCHANGED <<game, marks, stats>>
         ELSE Enqueue(game, open, marks, stats)
  /\ UNCHANGED counts

RevealShowdown ==
  /\ event = "RevealShowdown" /\ event' = "ShowResult"
  /\ stats' = Bump(Bump(stats, "showdowns", TRUE), "won", game.winner = Learner)
  /\ UNCHANGED <<game, shown, marks, counts>>
ShowResult ==
  /\ event = "ShowResult" /\ event' = Quiet /\ shown' = [shown EXCEPT !.result = TRUE]
  /\ UNCHANGED <<game, marks, stats, counts>>

(* Any key once the result is shown.  After a fold both seats have chips, *)
(* so that the check of the loop finds nothing to end.                    *)
Continue ==
  /\ game.phase = "Showdown" /\ shown.result
  /\ IF BothHaveChips(game) THEN event' = "StartNewHand" /\ game' = game
     ELSE event' = Quiet /\ game' = [game EXCEPT !.phase = "SessionEnd"]
  /\ UNCHANGED <<shown, marks, stats, counts>>
NewSessionKey ==
  /\ game.phase = "SessionEnd" /\ counts.sessions < MaxSessions
  /\ game' = NewGame /\ event' = "PostSmallBlind" /\ shown' = Fresh /\ marks' = NoMarks
  /\ stats' = Bump(stats, "hands", TRUE) /\ counts' = [hands |-> 1, sessions |-> counts.sessions + 1]
(* Q leaves for the summary; an event still pending is not withdrawn. *)
Quit ==
  /\ game.phase \notin {"SessionEnd", "Summary"}
  /\ game' = [game EXCEPT !.phase = "Summary"]
  /\ UNCHANGED <<event, shown, marks, stats, counts>>

HeadsUpNext ==
  \/ LearnerActs \/ BotActs \/ DealNextHand \/ ShowSmallBlind \/ ShowBigBlind
  \/ RevealCards \/ RevealShowdown \/ ShowResult \/ Continue \/ NewSessionKey \/ Quit

HeadsUpSpec == HeadsUpInit /\ [][HeadsUpNext]_headsUpVars

-----------------------------------------------------------------------------
(* Chips are neither made nor lost, uncalled bets and odd chips included;   *)
(* and when the program waits for a key during a hand, every card is shown *)
(* and the learner has a legal action, unless the small blind took the     *)
(* button's last chip before the flop, which nobody plays on               *)
(* (src/game/state.rs is_betting_round_complete, advance_phase;            *)
(* src/ui/app.rs enqueue_next_events).  Every statistic is a share: no     *)
(* chance is used twice or counted without being there, across hands that  *)
(* end early and new sessions (src/stats/models.rs).                       *)
LastChipPosted == /\ game.phase = "Preflop" /\ game.stack[game.button] = 0
                  /\ game.bet[game.button] = SmallBlind /\ game.last = Nobody
HeadsUpSound ==
  /\ game.stack[0] + game.stack[1] + game.pot = 2 * StartingStack
  /\ (event = Quiet /\ Betting(game) /\ ~LastChipPosted) =>
       /\ shown.board = game.board /\ game.toAct = Learner
       /\ \E a \in TypedActions(game, Learner) : Valid(game, Learner, a)
  /\ stats.vpip <= stats.hands /\ stats.flops <= stats.hands
  /\ stats.threeBets <= stats.threeBetChances /\ stats.threeBetChances <= stats.hands
  /\ stats.cbets <= stats.cbetChances /\ stats.cbetChances <= stats.flops
  /\ stats.folds <= stats.foldChances /\ stats.foldChances <= stats.flops
  /\ stats.won <= stats.showdowns /\ stats.showdowns <= stats.flops

=============================================================================
