-------------------------- MODULE MCLocalPrograms ---------------------------
(***************************************************************************)
(* The machines with no part in the multi-table server, for TLC: practice, *)
(* review and training programs, the single-table server, the tournament's *)
(* clock and one connection's framing.  They share no state,               *)
(* so a behaviour is one of them, chosen in the initial state and named by *)
(* `machine`; the variables of the others keep their initial values, and   *)
(* the states of the machines add up instead of multiplying.               *)
(***************************************************************************)
EXTENDS TrainerDesk, Updater, TurnAttention, CloudCoaching, ReplayBrowser, RiverPractice, FixedTable,
        TournamentTable, PracticeTable

CONSTANTS Nobody, NoEvent

VARIABLES
  machine,
  game, event, shown, marks, stats, counts,                                 \* HeadsUp
  host, worker, wire, guest, entry,                                         \* GameClient
  plan, draw, score, bench,                                                 \* TrainingRuns
  dealt,                                                                    \* CardStrength
  reviewHand, facedRaise, actionLog, reviewed,                              \* RiverReview
  ends, tls, spoken, heard                                                  \* Framing

-----------------------------------------------------------------------------
(* Releases: none, an old one, two newer ones, a newer pre-release, one    *)
(* without its files, and the newest alone.                                *)
Published(v, stable, complete) == [version |-> v, stable |-> stable, complete |-> complete]
MCReleases ==
  {<<>>, <<Published(1, TRUE, TRUE)>>, <<Published(3, TRUE, TRUE), Published(2, TRUE, TRUE)>>,
   <<Published(4, FALSE, TRUE)>>, <<Published(1, TRUE, TRUE), Published(4, TRUE, FALSE)>>,
   <<Published(4, TRUE, TRUE)>>}

(* A break after the first and after the last level, and payout plans      *)
(* whose shares do not divide the pool.                                    *)
MCStructure == << [duration |-> 2, rest |-> 1, blind |-> 1],
                  [duration |-> 1, rest |-> 0, blind |-> 2],
                  [duration |-> 3, rest |-> 2, blind |-> 3] >>
MCPlans == {<<10000>>, <<3333, 3333, 3334>>, <<6000, 3999, 1>>}
MCCup(n, parts) == [entrants |-> n, levels |-> MCStructure, pool |-> 10, shares |-> parts]
MCCups == {MCCup(2, <<10000>>)} \cup {MCCup(3, parts) : parts \in MCPlans}

(* What a host may type, at both ends of every range, and what a table may *)
(* offer: an opening bet or a raise, with room to size it or only all-in.  *)
MCAnswers ==
  [entrants : {2, 9}, stack : {100, 1000000}, small : {1, 49999}, big : {2, 50000},
   ante : {0, 2, 50000}, minutes : {1, 120}, levels : {1, 17, 64}, breakAfter : {0, 16},
   rest : {0, 30}, pool : {1000}, payout : 1 .. 3]
MCLegals == [min : {2, 4}, all : {4, 9}, bet : BOOLEAN, pot : {3}, call : {0, 2},
             wager : {0, 2}, mine : {0}]

(* Ranges whose combinations share cards with each other and the deal. *)
Combo(a, b, w) == [cards |-> <<a, b>>, weight |-> w]
MCRanges == {<<Combo(1, 2, 2), Combo(3, 4, 1), Combo(2, 9, 3)>>, <<Combo(5, 6, 1), Combo(6, 7, 2)>>}

(* Cards around a wheel, cards around broadway, and two whole suits, of    *)
(* which only starting hands are dealt.                                    *)
Cards(suit, ranks) == {<<r, suit>> : r \in ranks}
MCDecks ==
  {Cards("s", {14, 2, 3, 4, 5, 6}) \cup {<<14, "h">>, <<14, "d">>, <<14, "c">>},
   Cards("s", 9 .. 13) \cup Cards("h", {9, 13, 14}) \cup {<<13, "d">>},
   Cards("s", 2 .. 14) \cup Cards("h", 2 .. 14)}

(* A computer with one store and a budget, one with two stores and a key in *)
(* its environment; and one sound answer beside answers with one fault each. *)
MCComputers == {[budget |-> 9, mac |-> FALSE, env |-> {}, legal |-> [fold |-> TRUE, raise |-> FALSE]],
                [budget |-> 0, mac |-> TRUE, env |-> {"Anthropic"}, legal |-> [fold |-> TRUE, raise |-> FALSE]]}
SoundReply == [status |-> 200, size |-> 3, leak |-> "no", completed |-> TRUE, schema |-> TRUE, echo |-> TRUE,
               claims |-> FALSE, alternative |-> "fold"]
MCReplies == {SoundReply, [SoundReply EXCEPT !.status = 401], [SoundReply EXCEPT !.size = 9],
              [SoundReply EXCEPT !.leak = "plain"], [SoundReply EXCEPT !.leak = "escaped"],
              [SoundReply EXCEPT !.completed = FALSE], [SoundReply EXCEPT !.schema = FALSE],
              [SoundReply EXCEPT !.echo = FALSE], [SoundReply EXCEPT !.claims = TRUE],
              [SoundReply EXCEPT !.alternative = "raise"]}

Heads == INSTANCE HeadsUp WITH
           StartingStack <- 5, Quiet <- NoEvent, MaxGames <- 2, MaxSessions <- 2
Guest == INSTANCE GameClient WITH
           HostAnswers <- MCAnswers, Legals <- MCLegals, MaxHands <- 3, MaxCredentials <- 3,
           MaxSockets <- 4, NoEntry <- Nil
Training == INSTANCE TrainingRuns WITH
              DeckSize <- 13, TableSize <- 3, Tables <- 1, Deals <- 2, SeatCounts <- {2, 3}, Stack <- 1,
              Hands <- 4, Parallelism <- 3, Ranges <- MCRanges, NoPlan <- Nil
Judging == INSTANCE CardStrength WITH
               Decks <- MCDecks, NoCards <- Nil
Reviews == INSTANCE RiverReview WITH
             TableSize <- 3, StackChoices <- {6, 11}, Buttons <- {0}, Debts <- {"Clear"},
             BlindLevels <- {[sb |-> 1, bb |-> 2, ante |-> 0]}, Strengths <- {1}, Showers <- {},
             MaxHistory <- 4, MaxLog <- 20,
             hand <- reviewHand, fullRaise <- facedRaise, log <- actionLog, decision <- reviewed
Wire == INSTANCE Framing WITH
         HeaderBytes <- 2, MaxFrame <- 2, MaxBuffer <- 8, ChunkBytes <- 3, SocketRoom <- 4,
         Replies <- {1, 3, 4}, Hello <- 1, Goodbye <- 2, Size <- <<1, 1, 2, 3>>, MaxReplies <- 3,
         SavedProfiles <- {"none", "loopback"}

(* Scenarios whose solutions have two hands, one and none; and a full table *)
(* or one with a guest who has no seat.                                    *)
MCCombos == <<2, 1, 0>>
MCLineups == {{"s0", "s1"}, {"s1", "guest"}}

(* The learner and two bots. *)
MCSeatNames == <<"me", "bot1", "bot2">>

(* A learner starts with all the help there is, or on a first run with     *)
(* none, and may turn to local help without pauses, with as many seats as  *)
(* the table has or with one more.                                         *)
Helped == [coaching |-> "Openai", model |-> "m", solver |-> TRUE, pace |-> "Learn", seats |-> 2]
Alone == [Helped EXCEPT !.coaching = "Local", !.solver = FALSE]
MCInitial == {Helped, Alone}
MCDrafts == {[Alone EXCEPT !.pace = "Play", !.seats = n] : n \in {2, 3}}

-----------------------------------------------------------------------------
Machines == {"trainer", "heads-up", "practice", "updater", "river", "replay", "tournament",
             "client", "training", "cards", "review", "fixed table", "framing", "cloud", "attention"}

(* A machine that is not run has one initial state.                        *)
LocalInit ==
  /\ machine \in Machines
  /\ DeskInit /\ Heads!HeadsUpInit /\ PracticeInit /\ UpdaterInit
  /\ RiverInit /\ ReplayInit /\ TournamentInit /\ Guest!GameClientInit
  /\ Training!TrainingInit
  /\ Judging!CardInit
  /\ Reviews!ReviewInit
  /\ machine # "review" => DOMAIN reviewHand.stack = {0, 1} /\ reviewHand.initial = 12
  /\ FixedInit
  /\ Wire!FramingInit
  /\ CloudInit
  /\ AttentionInit
  /\ books.firstRun <=> settings = Alone
  /\ machine # "trainer" => ~books.firstRun
  /\ machine # "practice" => authority.turn = "pacing"
  /\ follows <=> Intact(files["backup"])
  /\ machine # "updater" => ~follows
  /\ machine # "fixed table" => /\ runtime.turn = "s0"
                                /\ \A p \in DOMAIN people : people[p].phase = "start" <=> p # "guest"
  /\ machine # "framing" => tls = {}
  /\ machine # "attention" => desktop.open /\ ~desktop.topmost /\ ~desktop.minimized
  /\ machine # "cloud" => terms.budget # 0
  /\ machine # "tournament" => ctl.cfg = [entrants |-> 2, levels |-> MCStructure, pool |-> 10,
                                          shares |-> <<10000>>]

(* The variables of each machine. *)
gameVars == <<game, event, shown, marks, stats, counts>>
guestVars == <<host, worker, wire, guest, entry>>
trainingVars == <<plan, draw, score, bench>>
cardVars == <<dealt>>
reviewVars == <<reviewHand, facedRaise, actionLog, reviewed>>
framingVars == <<ends, tls, spoken, heard>>

Runs(m) ==
  /\ machine = m /\ UNCHANGED machine
  /\ IF m = "trainer" THEN TRUE ELSE UNCHANGED deskVars
  /\ IF m = "heads-up" THEN TRUE ELSE UNCHANGED gameVars
  /\ IF m = "practice" THEN TRUE ELSE UNCHANGED practiceVars
  /\ IF m = "updater" THEN TRUE ELSE UNCHANGED updaterVars
  /\ IF m = "river" THEN TRUE ELSE UNCHANGED riverVars
  /\ IF m = "replay" THEN TRUE ELSE UNCHANGED replayVars
  /\ IF m = "tournament" THEN TRUE ELSE UNCHANGED tvars
  /\ IF m = "client" THEN TRUE ELSE UNCHANGED guestVars
  /\ IF m = "training" THEN TRUE ELSE UNCHANGED trainingVars
  /\ IF m = "cards" THEN TRUE ELSE UNCHANGED cardVars
  /\ IF m = "review" THEN TRUE ELSE UNCHANGED reviewVars
  /\ IF m = "fixed table" THEN TRUE ELSE UNCHANGED fixedVars
  /\ IF m = "framing" THEN TRUE ELSE UNCHANGED framingVars
  /\ IF m = "cloud" THEN TRUE ELSE UNCHANGED cloudVars
  /\ IF m = "attention" THEN TRUE ELSE UNCHANGED attentionVars

(* Bound: a learner who asks no provider, and never will again, leaves the *)
(* API keys alone.                                                         *)
KeysLeftAlone == CloudOf(settings) = {} => UNCHANGED <<creds, keyring, requests>>

(* Bound: other settings are saved once, in a first setup with the seats   *)
(* the table has, otherwise with one more; the first setup is saved before *)
(* a second hand is dealt.                                                 *)
SettingsChangeOnce ==
  /\ settings' # settings =>
       settings \in MCInitial /\ settings'.seats = IF books.firstRun THEN 2 ELSE 3
  /\ books.firstRun => session'.hand = 1

(* Bound: the newest release is offered once the one before is installed.  *)
NewestLater == offer' = 4 => running = 3

LocalNext ==
  \/ Runs("trainer") /\ DeskNext /\ KeysLeftAlone /\ SettingsChangeOnce
  \/ Runs("heads-up") /\ Heads!HeadsUpNext
  \/ Runs("practice") /\ PracticeNext
  \/ Runs("updater") /\ UpdaterNext /\ NewestLater
  \/ Runs("river") /\ RiverNext
  \/ Runs("replay") /\ ReplayNext
  \/ Runs("tournament") /\ TournamentNext
  \/ Runs("client") /\ Guest!GameClientNext
  \/ Runs("training") /\ Training!TrainingNext
  \/ Runs("cards") /\ Judging!CardNext
  \/ Runs("review") /\ Reviews!ReviewNext
  \/ Runs("fixed table") /\ FixedNext
  \/ Runs("framing") /\ Wire!FramingNext
  \/ Runs("cloud") /\ CloudNext
  \/ Runs("attention") /\ AttentionNext
localVars == <<machine, deskVars, gameVars, practiceVars, updaterVars, riverVars, replayVars, tvars,
               guestVars, trainingVars, cardVars, reviewVars, fixedVars, framingVars, cloudVars, attentionVars>>

LocalSpec == LocalInit /\ [][LocalNext]_localVars

-----------------------------------------------------------------------------
(* What is checked of each machine: its own invariants, stated and         *)
(* explained in its module.  Where a machine is named, the others have its *)
(* variables in one of its own initial states.                             *)

(* HeadsUp: no chip is made or lost, no hand waits for a decision the keys *)
(* cannot give, and no statistic exceeds its chances.                      *)
HeadsUpSound == machine = "heads-up" => Heads!HeadsUpSound
(* GameClient and Framing: what the player reads is so, what is typed is   *)
(* accepted; and what one end of a connection hears is what the other      *)
(* said, whole and in order.                                               *)
HeardAndToldTruly ==
  /\ machine = "client" => Guest!ClientToldTruly
  /\ machine = "framing" => Wire!FramesIntact
(* TrainingRuns: hands are dealt as planned, and reports add up. *)
DealtAsPlanned == machine = "training" => Training!DealtAsPlanned
(* CardStrength and RiverReview: the hand found is the hand the rules      *)
(* name, draws are what completes them, ranges and verdicts keep their     *)
(* order; and a reviewed decision is replayed as it was played.            *)
JudgedAsPlayed ==
  /\ machine = "cards" => Judging!StrengthsAgree
  /\ machine = "review" => Reviews!LineIsTheHand
=============================================================================
