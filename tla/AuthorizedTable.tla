-------------------------- MODULE AuthorizedTable ---------------------------
(***************************************************************************)
(* The authorized runtime of one hand: RuntimeState of                     *)
(* src/src/authorized_table.rs in front of the table actor of              *)
(* src/src/table_actor.rs, which owns the ProtocolAuthority.               *)
(*                                                                         *)
(* One worker thread takes requests from a bounded mailbox, one at a time, *)
(* and waits for the actor inside each of them; the actor has no other     *)
(* caller.  A request is therefore one action here.  What interleaves is   *)
(* the order in which sessions, the clock, the showdown pacing and the     *)
(* owner of the runtime get their requests in, and the receivers that      *)
(* drain their subscriptions in the meantime.                              *)
(***************************************************************************)
EXTENDS Integers, FiniteSets, Sequences

CONSTANTS
  ClientIds, ServerIds, MalformedIds, Versions, Tables, Payloads, HandStates,
  InitialHand, Refused, ApplyCommand, AdvanceHand, MaxRecorded, MaxRevision, Null,
  Sessions,         \* GuestSessionId
  Seats,            \* the seats of the table
  Dealt,            \* the seats that were dealt into this hand
  Spectator,        \* SessionRole::Spectator
  Unbound,          \* a session without a role
  Nobody,           \* nobody is to act
  Actions,          \* the payloads that are actions, not preferences
  SeatOf,           \* [Payloads -> Seats]
  ToAct,            \* [HandStates -> Dealt \cup {Nobody}]
  CanCheck,         \* the hand states in which the actor may check
  CheckOf, FoldOf,  \* [Dealt -> Actions]
  TimeoutId,        \* srv-timeout-h-g: one identity per deadline generation
  TimeoutTicks,     \* ACTION_TIMEOUT_TICKS
  WarningTicks,     \* ACTION_WARNING_TICKS
  BufferCapacity,   \* SUBSCRIPTION_BUFFER_CAPACITY
  MaxLate,          \* bound: how late after a deadline a tick may come
  MaxStream         \* bound: updates after which nobody reconnects any more

Generations == 1 .. MaxRecorded + 1
TimeoutPayload(h) == IF h \in CanCheck THEN CheckOf[ToAct[h]] ELSE FoldOf[ToAct[h]]

ASSUME RuntimeAssumption ==
  /\ Dealt \subseteq Seats /\ Nobody \notin Seats
  /\ Spectator \notin Seats /\ Unbound \notin Seats \cup {Spectator}
  /\ Actions \subseteq Payloads /\ SeatOf \in [Payloads -> Seats]
  /\ ToAct \in [HandStates -> Dealt \cup {Nobody}]
  /\ CheckOf \in [Dealt -> Actions] /\ FoldOf \in [Dealt -> Actions]
  /\ TimeoutId \in [Generations -> ServerIds]
  /\ \A g, h \in Generations : TimeoutId[g] = TimeoutId[h] => g = h
  /\ ServerIds \cap MalformedIds = {}
  /\ TimeoutTicks \in Nat /\ WarningTicks \in 1 .. TimeoutTicks
  /\ BufferCapacity \in Nat \ {0} /\ MaxLate \in Nat /\ MaxStream \in Nat

(* What the hand guarantees to the runtime: whoever is to act may check or
   fold, an action is accepted only from the seat that is to act, a preference
   leaves the turn alone, and a showdown never goes back to betting. *)
ASSUME HandAssumption ==
  /\ InitialHand \in HandStates /\ Refused \notin HandStates
  /\ ApplyCommand \in [HandStates -> [Payloads -> HandStates \cup {Refused}]]
  /\ AdvanceHand \in [HandStates -> HandStates \cup {Refused}]
  /\ \A h \in HandStates :
       /\ ToAct[h] # Nobody => ApplyCommand[h][TimeoutPayload(h)] # Refused
       /\ AdvanceHand[h] # Refused =>
            ToAct[h] = Nobody /\ ToAct[AdvanceHand[h]] = Nobody
       /\ \A p \in Payloads : ApplyCommand[h][p] # Refused =>
            IF p \in Actions THEN ToAct[h] = SeatOf[p]
                             ELSE ToAct[ApplyCommand[h][p]] = ToAct[h]

VARIABLES
  \* the ProtocolAuthority behind the actor
  hand, revision, recorded, reply, events, applied,
  \* RuntimeState
  binding,         \* sessions: role of every session, or Unbound
  connected,       \* the sessions whose binding is connected
  subscribers,     \* the sessions whose sender is registered
  now,             \* now_tick
  deadline,        \* ActionDeadline or Null
  generation,      \* deadline_generation
  streamSequence,
  acceptedEvents,  \* identities of the events kept for the hand history
  running,         \* the worker has not been shut down
  \* the receiving ends
  listening,       \* sessions whose receiver exists
  queue,           \* updates in the channel of a session
  seen,            \* history: the last update a receiver took, or Null
  \* history
  turnStart,       \* the tick at which the current decision was asked for
  warnings         \* the generations that were warned, in order

authority == <<hand, revision, recorded, reply, events, applied>>
channels  == <<listening, queue, seen>>
clock     == <<now, deadline, generation, turnStart, warnings>>
vars == <<authority, binding, connected, subscribers, clock, streamSequence,
          acceptedEvents, running, channels>>

Authority == INSTANCE ProtocolAuthority WITH handId <- 1, MaxHands <- 1

Roles == Seats \cup {Spectator}
Deadlines == [seat : Dealt, warning : Nat, due : Nat, warned : BOOLEAN,
              generation : Nat]
Reasons == {"Initial", "ActionAccepted", "DeadlineWarning", "TimeoutAction",
            "ConnectionStateChanged"}
Updates == [sequence : Nat, reason : Reasons, revision : Nat,
            deadline : Deadlines \cup {Null}]
Update(sequence, reason, rev, dl) ==
  [sequence |-> sequence, reason |-> reason, revision |-> rev, deadline |-> dl]

ASSUME AbsenceAssumption ==
  Null \notin Deadlines /\ Null \notin Updates /\ Null \notin Authority!Entries

(* The ledger has finitely many identities to meet and room for some. *)
ASSUME LedgerAssumption == IsFiniteSet(Authority!Ids) /\ MaxRecorded \in Nat \ {0}

-----------------------------------------------------------------------------
(* reschedule_deadline, broadcast *)

NewDeadline(seat, tick) ==
  [seat |-> seat, warning |-> tick + TimeoutTicks - WarningTicks,
   due |-> tick + TimeoutTicks, warned |-> FALSE, generation |-> generation + 1]

(* reschedule_deadline, against the hand h at logical time tick. *)
Reschedule(h, tick) ==
  IF ToAct[h] = Nobody
    THEN deadline' = Null /\ UNCHANGED generation
    ELSE /\ deadline' = NewDeadline(ToAct[h], tick)
         /\ generation' = generation + 1

(* The registered sessions an update reaches. *)
Served(registered) ==
  {s \in registered : /\ s \in connected' /\ s \in listening
                       /\ Len(queue[s]) < BufferCapacity}

(* Mutant: the update is built before the deadline is rescheduled. *)
NextUpdateOldDeadline(reason) ==
  Update(streamSequence + 1, reason, revision', deadline)

NextUpdate(reason) == Update(streamSequence + 1, reason, revision', deadline')

(* broadcast: one sequence number for the table; a session that is no longer
   connected, whose receiver is gone or whose buffer is full loses its
   subscription. *)
Broadcast(reason, registered) ==
  /\ streamSequence' = streamSequence + 1
  /\ subscribers' = Served(registered)
  /\ queue' = [s \in Sessions |-> IF s \in Served(registered)
                                    THEN Append(queue[s], NextUpdate(reason))
                                    ELSE queue[s]]
  /\ UNCHANGED <<listening, seen>>

(* Mutant: the history does not keep what the clock did. *)
KeepPlayerEvents(id) ==
  acceptedEvents' = IF id \in ServerIds THEN acceptedEvents
                                        ELSE Append(acceptedEvents, id)

(* Every event the authority accepts is kept for the hand history. *)
KeepEvent(id) == acceptedEvents' = Append(acceptedEvents, id)

-----------------------------------------------------------------------------
Init ==
  /\ hand = InitialHand /\ revision = 0 /\ recorded = [i \in Authority!Ids |-> Null]
  /\ reply = Null /\ events = <<>> /\ applied = <<>>
  /\ binding = [s \in Sessions |-> Unbound]
  /\ connected = {} /\ subscribers = {}
  /\ now = 0
  /\ generation = IF ToAct[InitialHand] = Nobody THEN 0 ELSE 1
  /\ deadline = IF ToAct[InitialHand] = Nobody THEN Null
                ELSE [seat |-> ToAct[InitialHand], due |-> TimeoutTicks,
                      warning |-> TimeoutTicks - WarningTicks,
                      warned |-> FALSE, generation |-> 1]
  /\ streamSequence = 0 /\ acceptedEvents = <<>>
  /\ running = TRUE
  /\ listening = {} /\ queue = [s \in Sessions |-> <<>>]
  /\ seen = [s \in Sessions |-> Null]
  /\ turnStart = 0 /\ warnings = <<>>

(* bind refuses a seat that has an owner or that was not dealt in. *)
SeatIsFree(role) ==
  /\ role \in Dealt \cup {Spectator}
  /\ role # Spectator => \A s \in Sessions : binding[s] # role

Bind(s, role) ==
  /\ running
  /\ binding[s] = Unbound /\ SeatIsFree(role)
  /\ binding' = [binding EXCEPT ![s] = role]
  /\ connected' = connected \cup {s}
  /\ UNCHANGED <<authority, subscribers, clock, streamSequence, acceptedEvents,
                 running, channels>>

(* submit lets a connected player act for its own seat in this hand only. *)
MaySubmit(s, env) ==
  /\ s \in connected /\ binding[s] \in Seats
  /\ env.table = Authority!ThisTable /\ env.hand = 1
  /\ SeatOf[env.payload] = binding[s]

(* Mutant: every accepted command restarts the clock. *)
MovesTheTurnAlways(payload) == TRUE

(* Only an accepted action reschedules the deadline; a preference does not. *)
MovesTheTurn(payload) == payload \in Actions

(* A command that was accepted just now. *)
SubmitAccepted(s, env) ==
  /\ running /\ MaySubmit(s, env)
  /\ Authority!AcceptCommand(env, FALSE)
  /\ IF MovesTheTurn(env.payload)
       THEN Reschedule(hand', now)
       ELSE UNCHANGED <<deadline, generation>>
  /\ turnStart' = IF env.payload \in Actions THEN now ELSE turnStart
  /\ KeepEvent(env.id)
  /\ UNCHANGED <<binding, connected, now, warnings, running>>
  /\ Broadcast("ActionAccepted", subscribers)

(* A retry of an earlier command, or a rejection: nothing is published. *)
SubmitAnswered(s, env) ==
  /\ running /\ MaySubmit(s, env)
  /\ Authority!AnswerOnly(env, FALSE) \/ Authority!RejectRecorded(env, FALSE)
  /\ UNCHANGED <<binding, connected, subscribers, clock, streamSequence,
                 acceptedEvents, running, channels>>

(* subscribe: the first update of a subscription carries the current cursor of
   the stream.  A transport holds one receiver per session. *)
Subscribe(s) ==
  /\ running
  /\ s \in connected /\ s \notin subscribers /\ s \notin listening
  /\ subscribers' = subscribers \cup {s}
  /\ listening' = listening \cup {s}
  /\ queue' = [queue EXCEPT ![s] =
                 <<Update(streamSequence, "Initial", revision, deadline)>>]
  /\ seen' = [seen EXCEPT ![s] = Null]
  /\ UNCHANGED <<authority, binding, connected, clock, streamSequence,
                 acceptedEvents, running>>

(* recv and try_recv of a subscription. *)
Receive(s) ==
  /\ s \in listening /\ queue[s] # <<>>
  /\ seen' = [seen EXCEPT ![s] = Head(queue[s])]
  /\ queue' = [queue EXCEPT ![s] = Tail(queue[s])]
  /\ UNCHANGED <<authority, binding, connected, subscribers, clock,
                 streamSequence, acceptedEvents, running, listening>>

(* The receiver of a subscription is dropped. *)
DropReceiver(s) ==
  /\ s \in listening
  /\ listening' = listening \ {s}
  /\ queue' = [queue EXCEPT ![s] = <<>>]
  /\ seen' = [seen EXCEPT ![s] = Null]
  /\ UNCHANGED <<authority, binding, connected, subscribers, clock,
                 streamSequence, acceptedEvents, running>>

Disconnect(s) ==
  /\ running
  /\ binding[s] # Unbound /\ s \in connected
  /\ connected' = connected \ {s}
  /\ UNCHANGED <<authority, binding, clock, acceptedEvents, running>>
  /\ Broadcast("ConnectionStateChanged", subscribers \ {s})

Reconnect(s) ==
  /\ running
  /\ binding[s] # Unbound /\ s \notin connected
  /\ streamSequence < MaxStream
  /\ connected' = connected \cup {s}
  /\ UNCHANGED <<authority, binding, clock, acceptedEvents, running>>
  /\ Broadcast("ConnectionStateChanged", subscribers)

-----------------------------------------------------------------------------
(* advance_time: time never runs backwards, and may jump.  Past the deadline
   of the last decision it matters to nobody. *)

Ticks == IF deadline = Null THEN {now} ELSE now .. deadline.due + MaxLate

(* Mutant: expiry is compared with the wrong bound. *)
ExpiredAfter(tick) == deadline # Null /\ tick > deadline.due

(* Mutant: the warning tick already expires the deadline. *)
ExpiredAtWarning(tick) == deadline # Null /\ tick >= deadline.warning

Expired(tick) == deadline # Null /\ tick >= deadline.due

MustWarn(tick) ==
  /\ deadline # Null /\ ~Expired(tick)
  /\ tick >= deadline.warning /\ ~deadline.warned

TickQuietly(tick) ==
  /\ running
  /\ ~Expired(tick) /\ ~MustWarn(tick)
  /\ now' = tick
  /\ UNCHANGED <<authority, binding, connected, subscribers, deadline,
                 generation, turnStart, warnings, streamSequence,
                 acceptedEvents, running, channels>>

WarnedDeadline == [deadline EXCEPT !.warned = TRUE]

TickWarns(tick) ==
  /\ running /\ MustWarn(tick)
  /\ now' = tick
  /\ deadline' = WarnedDeadline
  /\ warnings' = Append(warnings, deadline.generation)
  /\ UNCHANGED <<authority, binding, connected, generation, turnStart,
                 acceptedEvents, running>>
  /\ Broadcast("DeadlineWarning", subscribers)

(* Mutant: the deadline command expects the revision the turn began with. *)
TimeoutEnvelopeOfTurn ==
  [version |-> Authority!CurrentVersion, id |-> TimeoutId[deadline.generation],
   table |-> Authority!ThisTable, hand |-> 1,
   expected |-> deadline.generation - 1,
   payload |-> IF hand \in CanCheck THEN CheckOf[deadline.seat]
                                    ELSE FoldOf[deadline.seat]]

(* The command expire_deadline builds: check when that is legal, else fold. *)
TimeoutEnvelope ==
  [version |-> Authority!CurrentVersion, id |-> TimeoutId[deadline.generation],
   table |-> Authority!ThisTable, hand |-> 1, expected |-> revision,
   payload |-> IF hand \in CanCheck THEN CheckOf[deadline.seat]
                                    ELSE FoldOf[deadline.seat]]

TickExpires(tick) ==
  /\ running /\ Expired(tick)
  /\ ToAct[hand] = deadline.seat
  /\ now' = tick
  /\ Authority!AcceptCommand(TimeoutEnvelope, TRUE)
  /\ KeepEvent(TimeoutEnvelope.id)
  /\ Reschedule(hand', tick)
  /\ turnStart' = tick
  /\ UNCHANGED <<binding, connected, warnings, running>>
  /\ Broadcast("TimeoutAction", subscribers)

(* expire_deadline fails: the deadline's seat has no legal action, or the
   authority does not accept the command.  The clock has moved all the same. *)
TickFails(tick) ==
  /\ running /\ Expired(tick)
  /\ now' = tick
  /\ IF ToAct[hand] = deadline.seat
       THEN \/ Authority!AnswerOnly(TimeoutEnvelope, TRUE)
            \/ Authority!RejectRecorded(TimeoutEnvelope, TRUE)
       ELSE UNCHANGED authority
  /\ UNCHANGED <<binding, connected, subscribers, deadline, generation,
                 turnStart, warnings, streamSequence, acceptedEvents, running,
                 channels>>

(* progress_showdown: with a showdown pending, the worker takes one step every
   1.5 seconds of wall-clock time. *)
ShowdownStep ==
  /\ running
  /\ Authority!AdvanceShowdown
  /\ KeepEvent(Authority!Showdown)
  /\ Reschedule(hand', now)
  /\ UNCHANGED <<binding, connected, now, turnStart, warnings, running>>
  /\ Broadcast("ActionAccepted", subscribers)

(* The owner shuts the runtime down; the senders are dropped with it, and the
   receivers may still drain their channels. *)
Shutdown ==
  /\ running /\ running' = FALSE
  /\ subscribers' = {}
  /\ UNCHANGED <<authority, binding, connected, clock, streamSequence,
                 acceptedEvents, channels>>

AdvanceTime == \E tick \in Ticks :
  TickQuietly(tick) \/ TickWarns(tick) \/ TickExpires(tick) \/ TickFails(tick)

Request(s) ==
  \/ \E role \in Roles : Bind(s, role)
  \/ \E env \in Authority!Sendable : SubmitAccepted(s, env) \/ SubmitAnswered(s, env)
  \/ Subscribe(s) \/ Disconnect(s) \/ Reconnect(s)

Transport(s) == Receive(s) \/ DropReceiver(s)

Next ==
  \/ \E s \in Sessions : Request(s) \/ Transport(s)
  \/ AdvanceTime \/ ShowdownStep \/ Shutdown

Spec == Init /\ [][Next]_vars

(* The clock keeps ticking: whoever owns the logical time goes on reporting
   it until the deadline that is pending has come. *)
TickOn == \E tick \in Ticks : tick > now /\
  (TickQuietly(tick) \/ TickWarns(tick) \/ TickExpires(tick) \/ TickFails(tick))
FairSpec == Spec /\ WF_vars(TickOn)

-----------------------------------------------------------------------------
(* Properties. *)

(* TypeOK: the runtime's fields have their types and no channel holds more
   than its capacity. *)
TypeOK ==
  /\ binding \in [Sessions -> Roles \cup {Unbound}]
  /\ connected \subseteq Sessions /\ subscribers \subseteq Sessions
  /\ listening \subseteq Sessions
  /\ queue \in [Sessions -> Seq(Updates)]
  /\ \A s \in Sessions : Len(queue[s]) <= BufferCapacity
  /\ seen \in [Sessions -> Updates \cup {Null}]
  /\ now \in Nat /\ turnStart \in Nat /\ generation \in Nat
  /\ deadline \in Deadlines \cup {Null}
  /\ streamSequence \in Nat /\ running \in BOOLEAN
  /\ acceptedEvents \in Seq(Authority!Ids \cup {Authority!Showdown})
  /\ warnings \in Seq(Nat)

(* What a receiver has taken last, followed by what is still in its channel. *)
Delivered(s) == (IF seen[s] = Null THEN <<>> ELSE <<seen[s]>>) \o queue[s]

(* SubscriberIsCurrent: whatever a subscription delivers, from its first update
   to the point where it is given up, has consecutive sequence numbers, and the
   authority's revision moves by at most one from one update to the next; and a
   session that is registered and listens misses nothing: the last update it was
   sent shows the present revision, deadline and place in the stream. *)
SubscriberIsCurrent ==
  /\ \A s \in listening : \A i \in 2 .. Len(Delivered(s)) :
       /\ Delivered(s)[i].sequence = Delivered(s)[i - 1].sequence + 1
       /\ Delivered(s)[i].revision - Delivered(s)[i - 1].revision \in {0, 1}
  /\ \A s \in subscribers \cap listening :
       LET last == Delivered(s)[Len(Delivered(s))]
       IN  /\ last.sequence = streamSequence
           /\ last.revision = revision
           /\ last.deadline = deadline

(* DeadlineNamesActor: there is a deadline exactly while somebody is to act,
   and it is that seat's, whoever acted before: a player, the clock or the
   showdown. *)
DeadlineNamesActor ==
  IF ToAct[hand] = Nobody THEN deadline = Null
  ELSE deadline # Null /\ deadline.seat = ToAct[hand]

(* ClockNotExtended: a decision is due TimeoutTicks after it was asked for;
   preferences, retries, rejected commands, warnings, disconnects and
   reconnects do not move the deadline. *)
ClockNotExtended ==
  deadline # Null => deadline.due = turnStart + TimeoutTicks

(* HistoryComplete: the events the runtime keeps for the hand history are the
   authority's, in its order: players' actions, timeouts and showdown steps. *)
HistoryComplete == acceptedEvents = events

(* NoEarlyTimeout: the clock acts for a seat only when that seat is to act and
   has had all of its time. *)
NoEarlyTimeout ==
  [][applied' # applied /\ applied'[Len(applied')].server =>
       /\ now' >= turnStart + TimeoutTicks
       /\ SeatOf[applied'[Len(applied')].env.payload] = ToAct[hand]]_vars

(* ImplementsAuthority: seen from the actor, the runtime is one of the clients
   and servers ProtocolAuthority admits; what is proved of it holds here. *)
ImplementsAuthority == Authority!Spec

(* TurnEnds: as long as the clock ticks and the ledger has room, no decision
   stays open for ever. *)
TurnEnds ==
  \A g \in Generations :
    (deadline # Null /\ generation = g) ~>
      (deadline = Null \/ generation # g \/ ~running \/ Authority!LedgerFull)

=============================================================================
