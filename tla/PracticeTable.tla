---------------------------- MODULE PracticeTable ----------------------------
(***************************************************************************)
(* Quick Practice of the installed shell (src/local_practice.rs and        *)
(* run_quick_practice of src/bin/sneakyblinders.rs): hand after hand       *)
(* against passive bots, each hand with a runtime of its own.  Although    *)
(* it is one process, the screen is a client like any other: it knows what *)
(* its bounded subscription told it, and the runtime's clock acts for a    *)
(* seat that is late and paces the showdown between any two of its steps.  *)
(*                                                                         *)
(* A turn is "me", the name of a bot, "pacing" while nobody may act, or    *)
(* "none" once the hand is settled.                                        *)
(***************************************************************************)
EXTENDS ProjectionClient, FiniteSets, Functions

CONSTANTS
  SeatNames,        \* who sits where, the learner ("me") first; nine seats in the shell
  QuickStack,       \* quick_starting_stack
  UpdateBuffer,     \* SUBSCRIPTION_BUFFER_CAPACITY
  MaxEvents,        \* bound: events of a hand, the last of which settles it
  MaxWarnings,      \* bound: deadline warnings of a session
  MaxPracticeHands  \* bound: hands

ASSUME PracticeAssumption ==
  /\ SeatNames \in Seq(STRING) /\ Len(SeatNames) > 0
  /\ QuickStack \in Nat \ {0} /\ UpdateBuffer \in Nat
  /\ Null \notin [id : Nat, expected : Nat, acts : BOOLEAN]

VARIABLES
  practice,   \* PracticeSession and the current LocalPractice
  authority,  \* the runtime: turn, revision, sequence, stacks, and whether a raise is open
  stream,     \* the learner's subscription: what is queued, and whether it ended
  app,        \* NetworkApp: a ProjectionClient
  step,       \* where run_quick_practice is: "poll", "bot", "keys", "over" or "failed"
  warnings
practiceVars == <<practice, authority, stream, app, step, warnings>>

PracticeSeats == DOMAIN SeatNames
Me == 1
Bots == {SeatNames[s] : s \in PracticeSeats \ {Me}}
DealtIn(stacks) == {s \in PracticeSeats : stacks[s] > 0}
Total == Cardinality(PracticeSeats) * QuickStack

(* Who may act next, and what a settled hand pays: any division of the     *)
(* chips among the seats that were dealt in.                               *)
NextTurns(dealt) == {SeatNames[s] : s \in DealtIn(dealt)} \cup {"pacing"}
Settlements(dealt) ==
  {final \in [PracticeSeats -> 0 .. Total] :
     /\ SumFunctionOnSet(final, PracticeSeats) = SumFunctionOnSet(dealt, PracticeSeats)
     /\ \A s \in PracticeSeats : dealt[s] = 0 => final[s] = 0}

(* A projection also says whether an all-in would be legal (can_all_in). *)
ProjectionOf(hand, a) == [hand |-> hand, rev |-> a.rev, turn |-> a.turn, canAllIn |-> a.canAllIn]

(* LocalPractice::from_stacks: a runtime, bound seats, and the bootstrap   *)
(* of the learner's client from its first update.                          *)
FreshRuntime(stacks, turn) == [turn |-> turn, rev |-> 0, seq |-> 0, stacks |-> stacks, canAllIn |-> TRUE]
Watching(hand, a) == Bootstrap(UpdateOf(0, "Initial", Null, ProjectionOf(hand, a)))
Quiet == [queue |-> <<>>, ended |-> FALSE]

PracticeInit ==
  LET stacks == [s \in PracticeSeats |-> QuickStack]
  IN  /\ practice = [hand |-> 1, button |-> Me, opening |-> stacks, histories |-> <<>>]
      /\ \E turn \in NextTurns(stacks) : authority = FreshRuntime(stacks, turn)
      /\ app = Watching(1, authority) /\ stream = Quiet /\ step = "poll" /\ warnings = 0

-----------------------------------------------------------------------------
(* The runtime's own steps.  An event is broadcast to the learner unless   *)
(* the buffer is full, which ends the subscription.                        *)
Announce(reason, id, a) ==
  IF stream.ended THEN stream
  ELSE IF Len(stream.queue) = UpdateBuffer THEN [stream EXCEPT !.ended = TRUE]
  ELSE [stream EXCEPT !.queue = Append(@, UpdateOf(a.seq, reason, id, ProjectionOf(practice.hand, a)))]
PracticeEvent(a, turn, stacks, legal) ==
  [turn |-> turn, rev |-> a.rev + 1, seq |-> a.seq + 1, stacks |-> stacks, canAllIn |-> legal]
Advances(a) ==
  {PracticeEvent(a, "none", final, a.canAllIn) : final \in Settlements(a.stacks)} \cup
  {PracticeEvent(a, turn, a.stacks, legal) :
     turn \in {t \in NextTurns(a.stacks) : a.rev + 1 # MaxEvents}, legal \in BOOLEAN}
Anonymous == 0   \* the command identity of somebody else
Playing == step \in {"poll", "bot", "keys"}
Clock ==
  /\ Playing /\ authority.turn # "none"
  /\ \/ /\ authority' \in Advances(authority)
        /\ stream' = Announce("TimeoutAction", Anonymous, authority')
        /\ UNCHANGED warnings
     \/ /\ warnings < MaxWarnings /\ warnings' = warnings + 1
        /\ authority' = [authority EXCEPT !.seq = @ + 1]
        /\ stream' = Announce("DeadlineWarning", Null, authority')
  /\ UNCHANGED <<practice, app, step>>

-----------------------------------------------------------------------------
(* apply_updates *)
Drained(c, s) ==
  LET told[n \in 0 .. Len(s.queue)] ==
        IF n = 0 THEN c ELSE ApplyUpdate(told[n - 1], s.queue[n])
      received == told[Len(s.queue)]
  IN  IF s.ended /\ received.conn # "Failed" THEN MarkDisconnected(received) ELSE received
Emptied(s) == [s EXCEPT !.queue = <<>>]

(* step_bot acts for the seat its snapshot shows; a projection in which    *)
(* that seat has nothing to decide ends the program with an error.         *)
PollUpdates ==
  /\ step = "poll" /\ app' = Drained(app, stream) /\ stream' = Emptied(stream)
  /\ step' = CASE app'.conn = "Failed" -> "failed"
               [] app'.snap.turn \in Bots -> "bot"
               [] OTHER -> "keys"
  /\ UNCHANGED <<practice, authority, warnings>>
BotActs ==
  /\ step = "bot"
  /\ IF authority.turn # app.snap.turn THEN step' = "failed" /\ UNCHANGED <<authority, stream, app>>
     ELSE /\ authority' \in Advances(authority)
          /\ LET sent == Announce("ActionAccepted", Anonymous, authority')
             IN  app' = Drained(app, sent) /\ stream' = Emptied(sent)
          /\ step' = "keys"
  /\ UNCHANGED <<practice, warnings>>
(* The bots wait between their actions. *)
BotWaits == step = "bot" /\ step' = "keys" /\ UNCHANGED <<practice, authority, stream, app, warnings>>

NothingTyped == step = "keys" /\ ~IsTerminal(app) /\ step' = "poll"
         /\ UNCHANGED <<practice, authority, stream, app, warnings>>

(* submit_local: the response is applied before the updates queued behind  *)
(* it.  An intention made on an overtaken projection is rejected.          *)
OwnCommand == 1
Submitted == Prepared(app, OwnCommand, TRUE)
ResponseOf(a) == [kind |-> "Response", id |-> OwnCommand, seq |-> a.seq, snap |-> ProjectionOf(practice.hand, a)]
UpToDate == authority.rev = app.snap.rev /\ authority.turn = "me"
LearnerActs ==
  /\ step = "keys" /\ ControlsEnabled(app)
  /\ \/ /\ UpToDate /\ authority' \in Advances(authority)
        /\ LET sent == Announce("ActionAccepted", OwnCommand, authority')
           IN  app' = Drained(ApplyResponse(Submitted, ResponseOf(authority')), sent) /\ stream' = Emptied(sent)
     \/ /\ ~UpToDate /\ UNCHANGED authority
        /\ app' = Drained(ApplyResponse(Submitted, ResponseOf(authority)), stream) /\ stream' = Emptied(stream)
  /\ step' = IF app'.conn = "Failed" THEN "failed" ELSE "poll"
  /\ UNCHANGED <<practice, warnings>>
(* An all-in typed when it is not legal is refused by the client and ends  *)
(* the program with an error.                                              *)
IllegalAllIn ==
  /\ step = "keys" /\ ControlsEnabled(app) /\ ~app.snap.canAllIn /\ step' = "failed"
  /\ UNCHANGED <<practice, authority, stream, app, warnings>>
LeaveTable == step = "keys" /\ step' = "over" /\ UNCHANGED <<practice, authority, stream, app, warnings>>

-----------------------------------------------------------------------------
(* complete_hand, after the result was shown for a while. *)
AnyChair(final, s) == TRUE
HasChips(final, s) == final[s] > 0
NextButton(final, from) ==
  CHOOSE s \in PracticeSeats :
    /\ HasChips(final, s)
    /\ LET steps(c) == (c - from - 1) % Cardinality(PracticeSeats)
       IN  \A c \in PracticeSeats : HasChips(final, c) => steps(s) <= steps(c)
CompletePractice ==
  /\ step = "keys" /\ IsTerminal(app)
  /\ LET final   == authority.stacks
         record  == [hand |-> practice.hand, button |-> practice.button,
                     opening |-> practice.opening, final |-> final]
         histories == Append(practice.histories, record)
     IN  IF final[Me] > 0 /\ Cardinality(DealtIn(final)) >= 2 /\ practice.hand < MaxPracticeHands
         THEN /\ practice' = [hand |-> practice.hand + 1, opening |-> final, histories |-> histories,
                              button |-> NextButton(final, practice.button)]
              /\ \E turn \in NextTurns(final) : authority' = FreshRuntime(final, turn)
              /\ app' = Watching(practice.hand + 1, authority')
              /\ stream' = Quiet /\ step' = "poll"
         ELSE /\ practice' = [practice EXCEPT !.histories = histories]
              /\ step' = "over" /\ UNCHANGED <<authority, stream, app>>
  /\ UNCHANGED warnings

PracticeNext ==
  \/ Clock \/ PollUpdates \/ BotActs \/ BotWaits \/ NothingTyped \/ LearnerActs \/ IllegalAllIn \/ LeaveTable
  \/ CompletePractice

PracticeSpec == PracticeInit /\ [][PracticeNext]_practiceVars

-----------------------------------------------------------------------------
(* Over any number of hands, timeouts and overtaken intentions: the hands  *)
(* of a session are numbered without gaps and each is dealt from what the  *)
(* last one paid, so that the nets add up to the session's; no chip is     *)
(* lost when a broke seat is left out; the button is a seat that was dealt *)
(* in and skips none; and the screen is never left behind its own runtime  *)
(* with nothing more to be told, unless it was too slow for its buffer     *)
(* (src/local_practice.rs complete_hand, apply_updates).                   *)
ChairAfter(from, s, to) ==
  (s - from) % Cardinality(PracticeSeats) \in 1 .. ((to - from - 1) % Cardinality(PracticeSeats))
PracticeAddsUp ==
  /\ \A n \in DOMAIN practice.histories :
       LET h == practice.histories[n]
       IN  /\ h.hand = n /\ h.opening[h.button] > 0
           /\ SumFunctionOnSet(h.final, PracticeSeats) = Total
           /\ n > 1 => LET before == practice.histories[n - 1]
                       IN  /\ h.opening = before.final /\ h.opening[Me] > 0
                           /\ \A s \in PracticeSeats :
                                ChairAfter(before.button, s, h.button) => h.opening[s] = 0
  /\ app.pending = Null /\ app.conn \in {"Connected", "Disconnected"}
  /\ app.conn = "Disconnected" => stream.ended
  /\ (stream = Quiet /\ app.conn = "Connected") => app.snap = ProjectionOf(practice.hand, authority)

=============================================================================
