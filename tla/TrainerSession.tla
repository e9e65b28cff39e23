--------------------------- MODULE TrainerSession ---------------------------
(***************************************************************************)
(* The cash session of the practice table (src/trainer/mod.rs): one        *)
(* learner and one opponent, hand after hand, with a pause after each of   *)
(* the learner's decisions, a record of every decision for later review,   *)
(* and a cash ledger kept apart from the profit.  The session is a record  *)
(* and every operation of the code is an operator from session to session. *)
(*                                                                         *)
(* The hand itself is module MultiwayHand; here it is who acts, how many   *)
(* actions were accepted (the revision), whether it is over, and how it    *)
(* divides the chips.                                                      *)
(***************************************************************************)
EXTENDS Integers, Sequences, FiniteSets, SequencesExt, FiniteSetsExt

CONSTANTS
  BuyIn,        \* 100 big blinds, in chips
  SmallBlind, BigBlind,
  MaxActions,   \* bound: accepted actions of one hand
  NoDecision    \* coaching is not paused on a decision

ASSUME SessionAssumption ==
  /\ SmallBlind \in Nat \ {0} /\ BigBlind \in Nat /\ SmallBlind < BigBlind
  /\ BuyIn \in Nat /\ BuyIn > BigBlind
  /\ MaxActions \in Nat \ {0}
  /\ NoDecision \notin [session : Nat, hand : Nat, revision : Nat]

Hero == 0
Bot  == 1
Chairs == {Hero, Bot}
Other(chair) == 1 - chair
NoActor == -1

(***************************************************************************)
(* Dealing: the button posts the small blind, the other seat the big one.  *)
(* When the posts leave nobody a decision the hand is constructed with a   *)
(* pending showdown and no actor; constructors pace showdowns, so nothing  *)
(* runs it out here and only advance_showdown would.                       *)
(***************************************************************************)
Posted(stack, button) ==
  [c \in Chairs |-> Min({stack[c], IF c = button THEN SmallBlind ELSE BigBlind})]
LockedAtDeal(stack, button) ==
  LET posted == Posted(stack, button)
      live   == {c \in Chairs : stack[c] > posted[c]}
      wager  == Max(Range(posted))
  IN  \/ live = {}
      \/ Cardinality(live) = 1 /\ \A c \in live : posted[c] >= wager
FirstActor(stack, button) ==
  IF LockedAtDeal(stack, button) THEN NoActor
  ELSE IF stack[button] > Posted(stack, button)[button] THEN button ELSE Other(button)

(* What an accepted action may lead to: the other seat's turn, or the end  *)
(* of the hand with the chips moved by at most the smaller stack.          *)
Outcomes(s) ==
  LET risk == Min({s.stack[Hero], s.stack[Bot]})
  IN  {[toAct |-> NoActor, over |-> TRUE,
        stack |-> [s.stack EXCEPT ![Hero] = @ + won, ![Bot] = @ - won]] : won \in {-risk, 0, risk}}
      \cup (IF s.revision + 1 < MaxActions
            THEN {[toAct |-> chair, over |-> FALSE, stack |-> s.stack] : chair \in Chairs}
            ELSE {})
Apply(s, outcome) == [s EXCEPT !.revision = @ + 1, !.toAct = outcome.toAct,
                               !.over = outcome.over, !.stack = outcome.stack]

NewSession(id) ==
  LET stack == [c \in Chairs |-> BuyIn]
  IN  [id |-> id, hand |-> 1, revision |-> 0, button |-> Hero, stack |-> stack,
       toAct |-> FirstActor(stack, Hero), over |-> FALSE, coaching |-> NoDecision,
       decisions |-> <<>>, ready |-> <<>>, events |-> <<>>, opening |-> BuyIn,
       profit |-> 0, completed |-> 0, settled |-> FALSE]

Finished(s) == s.coaching = NoDecision /\ s.over

Settle(s) ==
  IF Finished(s) /\ ~s.settled
  THEN [s EXCEPT !.profit = @ + s.stack[Hero] - s.opening, !.completed = @ + 1,
                 !.ready = Append(@, [session |-> s.id, hand |-> s.hand, decisions |-> s.decisions]),
                 !.decisions = <<>>, !.settled = TRUE]
  ELSE s

(* The decision the learner would make now, with the session it belongs to. *)
DecisionOf(s) == [session |-> s.id, hand |-> s.hand, revision |-> s.revision]
LocalFeedback(decision) == [of |-> decision, basis |-> "local"]

CanSubmit(s) == s.coaching = NoDecision /\ s.toAct = Hero
Submit(s, outcome) ==
  LET decision == DecisionOf(s)
  IN  [Apply(s, outcome) EXCEPT
         !.coaching = decision,
         !.decisions = Append(@, [decision |-> decision, feedback |-> LocalFeedback(decision)])]
ContinueHand(s) == Settle([s EXCEPT !.coaching = NoDecision])

CanStepBot(s) == s.coaching = NoDecision /\ ~Finished(s) /\ s.toAct = Bot
StepBot(s, outcome) == Settle(Apply(s, outcome))

(***************************************************************************)
(* Reviews that arrive later: the first record of the hand and revision,   *)
(* the running hand's records before the completed hands.  A record with   *)
(* solver evidence is not replaced by one without.                         *)
(***************************************************************************)
MatchesRevisionOnly(record, feedback) == record.decision.revision = feedback.of.revision
SameDecision(record, feedback) ==
  /\ record.decision.hand = feedback.of.hand
  /\ record.decision.revision = feedback.of.revision
Replaceable(record, feedback) ==
  ~(record.feedback.basis = "solver" /\ feedback.basis # "solver")
RecordsOf(s) == s.decisions \o FlattenSeq([i \in DOMAIN s.ready |-> s.ready[i].decisions])
Reviewable(s, feedback) ==
  LET records == RecordsOf(s)
      hits == {i \in DOMAIN records : SameDecision(records[i], feedback)}
  IN  hits # {} /\ Replaceable(records[Min(hits)], feedback)
Amend(records, feedback) ==
  LET hits == {i \in DOMAIN records : SameDecision(records[i], feedback)}
  IN  IF hits = {} THEN records ELSE [records EXCEPT ![Min(hits)].feedback = feedback]
RecordReview(s, feedback) ==
  IF ~Reviewable(s, feedback) THEN s
  ELSE IF \E i \in DOMAIN s.decisions : SameDecision(s.decisions[i], feedback)
  THEN [s EXCEPT !.decisions = Amend(@, feedback)]
  ELSE LET holder == Min({i \in DOMAIN s.ready :
                            \E j \in DOMAIN s.ready[i].decisions :
                               SameDecision(s.ready[i].decisions[j], feedback)})
       IN  [s EXCEPT !.ready[holder].decisions = Amend(@, feedback)]

(***************************************************************************)
(* Cash between hands.  A cash event names the seat, the hand it follows   *)
(* and the chips added (negative: withdrawn).                              *)
(***************************************************************************)
Event(s, seat, chips) == [hand |-> s.hand, seat |-> seat, chips |-> chips]
TopUp(s) ==
  LET added == Max({BuyIn - s.stack[Hero], 0})
  IN  [s EXCEPT !.stack[Hero] = @ + added,
                !.events = IF added > 0 THEN Append(@, Event(s, Hero, added)) ELSE @]
Withdraw(s, chips) ==
  [s EXCEPT !.stack[Hero] = @ - chips, !.events = Append(@, Event(s, Hero, -chips))]

(* next_hand logs the rebuys and takes the opening stack before it deals,  *)
(* and deals only when the next button, counted modulo the seats of the    *)
(* settings, is a seat of this table.                                      *)
CanDealNext(s) == Finished(s) /\ s.stack[Hero] > 0
OpeningOfLastHand(s) == s.opening
OpeningStack(s) == s.stack[Hero]
NextHand(s, seats) ==
  LET rebuy  == IF s.stack[Bot] = 0 THEN BuyIn ELSE 0
      button == (s.button + 1) % seats
      stack  == [s.stack EXCEPT ![Bot] = @ + rebuy]
      logged == [s EXCEPT !.events = IF rebuy > 0 THEN Append(@, Event(s, Bot, rebuy)) ELSE @,
                          !.opening = OpeningStack(s)]
  IN  IF button \notin Chairs THEN logged
      ELSE [logged EXCEPT !.stack = stack, !.button = button, !.hand = @ + 1, !.revision = 0,
                          !.toAct = FirstActor(stack, button), !.over = FALSE,
                          !.decisions = <<>>, !.settled = FALSE]

(* Chips brought in, less chips taken out, by a set of seats. *)
CashOf(s, chairs) ==
  SumFunctionOnSet([i \in DOMAIN s.events |-> s.events[i].chips],
                   {i \in DOMAIN s.events : s.events[i].seat \in chairs})

=============================================================================
