----------------------- MODULE AuthorizedTableProofs ------------------------
(***************************************************************************)
(* Proofs about AuthorizedTable: the action clock, the history, the update *)
(* streams, and the refinement of the protocol authority.                  *)
(***************************************************************************)
EXTENDS AuthorizedTable, FiniteSetTheorems, SequenceTheorems, TLAPS

(* The clock: what there is to know about the pending deadline. *)
ClockTypes ==
  /\ hand \in HandStates
  /\ now \in Nat /\ turnStart \in Nat /\ generation \in Nat
  /\ deadline \in Deadlines \cup {Null}
ClockInv == ClockTypes /\ DeadlineNamesActor /\ ClockNotExtended

(* RescheduledClock: reschedule_deadline at the start of a decision gives the
   seat that is to act its full time. *)
LEMMA RescheduledClock ==
  ASSUME NEW tick \in Nat, ClockTypes, hand' \in HandStates,
         Reschedule(hand', tick)
  PROVE  /\ generation' \in Nat
         /\ deadline' \in Deadlines \cup {Null}
         /\ DeadlineNamesActor'
         /\ deadline' # Null => deadline'.due = tick + TimeoutTicks
<1>1. CASE ToAct[hand'] = Nobody
  BY <1>1 DEF Reschedule, ClockTypes, DeadlineNamesActor
<1>2. CASE ToAct[hand'] # Nobody
  <2>1. ToAct[hand'] \in Dealt
    BY <1>2, RuntimeAssumption
  <2>2. NewDeadline(ToAct[hand'], tick) \in Deadlines
    BY <2>1, RuntimeAssumption DEF NewDeadline, Deadlines, ClockTypes
  <2>3. NewDeadline(ToAct[hand'], tick) # Null
    BY <2>2, AbsenceAssumption
  <2>4. deadline' = NewDeadline(ToAct[hand'], tick) /\ generation' = generation + 1
    BY <1>2 DEF Reschedule
  <2>5. deadline'.seat = ToAct[hand'] /\ deadline'.due = tick + TimeoutTicks
    BY <2>4 DEF NewDeadline
  <2>6. DeadlineNamesActor'
    BY <1>2, <2>3, <2>4, <2>5 DEF DeadlineNamesActor
  <2>7. generation' \in Nat
    BY <2>4 DEF ClockTypes
  <2> QED
    BY <2>2, <2>4, <2>5, <2>6, <2>7
<1> QED BY <1>1, <1>2

(* AcceptedHand: an accepted command leads to a state of the hand, and one that
   is no action leaves the turn where it was. *)
LEMMA AcceptedHand ==
  ASSUME NEW env \in Authority!Sendable, NEW server \in BOOLEAN,
         hand \in HandStates, Authority!AcceptCommand(env, server)
  PROVE  /\ hand' \in HandStates
         /\ env.payload \notin Actions => ToAct[hand'] = ToAct[hand]
<1>1. env.payload \in Payloads
  BY DEF Authority!Sendable
<1>2. hand' = ApplyCommand[hand][env.payload] /\ ApplyCommand[hand][env.payload] # Refused
  BY DEF Authority!AcceptCommand
<1> QED BY <1>1, <1>2, HandAssumption

(* ClockInit: the clock of a fresh runtime. *)
LEMMA ClockInit == Init => ClockInv
<1> SUFFICES ASSUME Init PROVE ClockInv
  OBVIOUS
<1>1. CASE ToAct[InitialHand] = Nobody
  BY <1>1, RuntimeAssumption, HandAssumption
  DEF Init, ClockInv, ClockTypes, DeadlineNamesActor, ClockNotExtended
<1>2. CASE ToAct[InitialHand] # Nobody
  <2>1. ToAct[InitialHand] \in Dealt
    BY <1>2, RuntimeAssumption, HandAssumption
  <2>2. deadline \in Deadlines /\ deadline.seat = ToAct[hand]
                              /\ deadline.due = turnStart + TimeoutTicks
    BY <1>2, <2>1, RuntimeAssumption DEF Init, Deadlines
  <2>3. deadline # Null
    BY <2>2, AbsenceAssumption
  <2> QED
    BY <1>2, <2>2, <2>3, HandAssumption
    DEF Init, ClockInv, ClockTypes, DeadlineNamesActor, ClockNotExtended
<1> QED BY <1>1, <1>2

(* ClockKept: nothing but an action of the seat to act, the expiry of its
   deadline or a showdown step touches the clock. *)
LEMMA ClockKept ==
  ASSUME ClockInv, UNCHANGED <<hand, deadline, generation, turnStart>>, now' \in Nat
  PROVE  ClockInv'
BY DEF ClockInv, ClockTypes, DeadlineNamesActor, ClockNotExtended

(* ClockSubmit: a player's command, accepted, keeps the clock right. *)
LEMMA ClockSubmit ==
  ASSUME ClockInv, NEW s \in Sessions, NEW env \in Authority!Sendable,
         SubmitAccepted(s, env)
  PROVE  ClockInv'
<1>1. hand' \in HandStates /\ (env.payload \notin Actions => ToAct[hand'] = ToAct[hand])
  BY AcceptedHand DEF ClockInv, ClockTypes, SubmitAccepted
<1>2. now' = now /\ now \in Nat
  BY DEF SubmitAccepted, ClockInv, ClockTypes
<1>3. CASE env.payload \in Actions
  <2>1. Reschedule(hand', now) /\ turnStart' = now
    BY <1>3 DEF SubmitAccepted, MovesTheTurn
  <2> QED
    BY <1>1, <1>2, <2>1, RescheduledClock DEF ClockInv, ClockTypes, ClockNotExtended
<1>4. CASE env.payload \notin Actions
  <2>1. UNCHANGED <<deadline, generation, turnStart>>
    BY <1>4 DEF SubmitAccepted, MovesTheTurn
  <2> QED
    BY <1>1, <1>2, <1>4, <2>1
    DEF ClockInv, ClockTypes, DeadlineNamesActor, ClockNotExtended
<1> QED BY <1>3, <1>4

(* ClockExpires: so does the expiry of a deadline. *)
LEMMA ClockExpires ==
  ASSUME ClockInv, NEW tick \in Ticks, TickExpires(tick)
  PROVE  ClockInv'
<1>1. tick \in Nat
  BY DEF Ticks, ClockInv, ClockTypes, Deadlines
<1>2. hand' \in HandStates
  <2>1. deadline \in Deadlines /\ deadline.seat \in Dealt
    BY DEF TickExpires, Expired, ClockInv, ClockTypes, Deadlines
  <2>2. TimeoutEnvelope.payload \in Payloads
    BY <2>1, RuntimeAssumption DEF TimeoutEnvelope
  <2> QED
    BY <2>2, HandAssumption
    DEF TickExpires, Authority!AcceptCommand, ClockInv, ClockTypes
<1>3. Reschedule(hand', tick) /\ turnStart' = tick /\ now' = tick
  BY DEF TickExpires
<1> QED
  BY <1>1, <1>2, <1>3, RescheduledClock DEF ClockInv, ClockTypes, ClockNotExtended

(* ClockWarns: a warning only marks the deadline. *)
LEMMA ClockWarns ==
  ASSUME ClockInv, NEW tick \in Ticks, TickWarns(tick)
  PROVE  ClockInv'
<1>1. tick \in Nat
  BY DEF Ticks, ClockInv, ClockTypes, Deadlines
<1>2. deadline \in Deadlines
  BY DEF TickWarns, MustWarn, ClockInv, ClockTypes
<1>3. /\ deadline' \in Deadlines
      /\ deadline'.seat = deadline.seat /\ deadline'.due = deadline.due
  BY <1>2 DEF TickWarns, WarnedDeadline, Deadlines
<1>4. deadline # Null /\ deadline' # Null
  BY <1>2, <1>3, AbsenceAssumption
<1>5. UNCHANGED <<hand, generation, turnStart>> /\ now' = tick
  BY DEF TickWarns, authority
<1> QED
  BY <1>1, <1>3, <1>4, <1>5
  DEF ClockInv, ClockTypes, DeadlineNamesActor, ClockNotExtended

(* ClockShowdown: a showdown step leaves no deadline behind. *)
LEMMA ClockShowdown == ClockInv /\ ShowdownStep => ClockInv'
<1> SUFFICES ASSUME ClockInv, ShowdownStep PROVE ClockInv'
  OBVIOUS
<1>1. hand' = AdvanceHand[hand] /\ AdvanceHand[hand] # Refused
  BY DEF ShowdownStep, Authority!AdvanceShowdown
<1>2. hand' \in HandStates /\ ToAct[hand'] = Nobody
  BY <1>1, HandAssumption DEF ClockInv, ClockTypes
<1>3. deadline' = Null /\ UNCHANGED <<generation, now, turnStart>>
  BY <1>2 DEF ShowdownStep, Reschedule
<1> QED
  BY <1>2, <1>3 DEF ClockInv, ClockTypes, DeadlineNamesActor, ClockNotExtended

(* ClockStep: every step of the runtime keeps the clock right. *)
LEMMA ClockStep == ClockInv /\ [Next]_vars => ClockInv'
<1> SUFFICES ASSUME ClockInv, [Next]_vars PROVE ClockInv'
  OBVIOUS
<1>0. now \in Nat
  BY DEF ClockInv, ClockTypes
<1>1. ASSUME NEW s \in Sessions, Request(s) \/ Transport(s) PROVE ClockInv'
  <2>1. ASSUME NEW role \in Roles, Bind(s, role) PROVE ClockInv'
    BY <1>0, <2>1, ClockKept DEF Bind, authority, clock
  <2>2. ASSUME NEW env \in Authority!Sendable, SubmitAccepted(s, env) PROVE ClockInv'
    BY <2>2, ClockSubmit
  <2>3. ASSUME NEW env \in Authority!Sendable, SubmitAnswered(s, env) PROVE ClockInv'
    BY <1>0, <2>3, ClockKept
    DEF SubmitAnswered, Authority!AnswerOnly, Authority!RejectRecorded, clock
  <2>4. CASE Subscribe(s)
    BY <1>0, <2>4, ClockKept DEF Subscribe, authority, clock
  <2>5. CASE Disconnect(s)
    BY <1>0, <2>5, ClockKept DEF Disconnect, authority, clock
  <2>6. CASE Reconnect(s)
    BY <1>0, <2>6, ClockKept DEF Reconnect, authority, clock
  <2>7. CASE Receive(s)
    BY <1>0, <2>7, ClockKept DEF Receive, authority, clock
  <2>8. CASE DropReceiver(s)
    BY <1>0, <2>8, ClockKept DEF DropReceiver, authority, clock
  <2> QED
    BY <1>1, <2>1, <2>2, <2>3, <2>4, <2>5, <2>6, <2>7, <2>8 DEF Request, Transport
<1>2. ASSUME NEW tick \in Ticks,
             TickQuietly(tick) \/ TickWarns(tick) \/ TickExpires(tick) \/ TickFails(tick)
      PROVE  ClockInv'
  <2>0. tick \in Nat
    BY DEF Ticks, ClockInv, ClockTypes, Deadlines
  <2>1. CASE TickQuietly(tick)
    BY <2>0, <2>1, ClockKept DEF TickQuietly, authority
  <2>2. CASE TickWarns(tick)
    BY <2>2, ClockWarns
  <2>3. CASE TickExpires(tick)
    BY <2>3, ClockExpires
  <2>4. CASE TickFails(tick)
    <3>1. hand' = hand
      <4>1. CASE ToAct[hand] = deadline.seat
        BY <2>4, <4>1 DEF TickFails, Authority!AnswerOnly, Authority!RejectRecorded
      <4>2. CASE ToAct[hand] # deadline.seat
        BY <2>4, <4>2 DEF TickFails, authority
      <4> QED BY <4>1, <4>2
    <3> QED
      BY <2>0, <2>4, <3>1, ClockKept DEF TickFails
  <2> QED BY <1>2, <2>1, <2>2, <2>3, <2>4
<1>3. CASE ShowdownStep
  BY <1>3, ClockShowdown
<1>4. CASE Shutdown
  BY <1>0, <1>4, ClockKept DEF Shutdown, authority, clock
<1>5. CASE UNCHANGED vars
  BY <1>0, <1>5, ClockKept DEF vars, authority, clock
<1> QED
  BY <1>1, <1>2, <1>3, <1>4, <1>5 DEF Next, AdvanceTime

(* ClockCorrect: whatever the sessions, the clock and the showdown do, there is
   a deadline exactly while a seat is to act, it is that seat's, and it is due
   TimeoutTicks after the decision was asked for. *)
THEOREM ClockCorrect == Spec => [](DeadlineNamesActor /\ ClockNotExtended)
<1>1. ClockInv => DeadlineNamesActor /\ ClockNotExtended
  BY DEF ClockInv
<1> QED BY <1>1, ClockInit, ClockStep, PTL DEF Spec

-----------------------------------------------------------------------------
(* The commands of deadlines, and the log of the commands applied so far. *)
ClockCommands ==
  [version : {Authority!CurrentVersion}, id : {TimeoutId[g] : g \in Nat},
   table : {Authority!ThisTable}, hand : {1}, expected : Nat, payload : Actions]
Entries == [env : Authority!Sendable \cup ClockCommands, server : BOOLEAN,
            revision : Nat]
LogInv == ClockInv /\ revision \in Nat /\ applied \in Seq(Entries)

(* TimeoutSent: the command of a deadline is an action of its seat. *)
LEMMA TimeoutSent ==
  ASSUME LogInv, deadline # Null
  PROVE  TimeoutEnvelope \in ClockCommands
<1>1. deadline \in Deadlines
  BY DEF LogInv, ClockInv, ClockTypes
<1>2. deadline.seat \in Dealt /\ deadline.generation \in Nat
  BY <1>1 DEF Deadlines
<1>3. CheckOf[deadline.seat] \in Actions /\ FoldOf[deadline.seat] \in Actions
  BY <1>2, RuntimeAssumption
<1> QED BY <1>2, <1>3 DEF TimeoutEnvelope, ClockCommands, LogInv

(* What a step adds to the log is its last entry: a player's command, or that of
   a deadline that is due. *)
LogGrows ==
  \/ UNCHANGED applied
  \/ \E entry \in Entries :
       /\ applied' = Append(applied, entry)
       /\ entry.server => /\ now' >= turnStart + TimeoutTicks
                          /\ SeatOf[entry.env.payload] = ToAct[hand]

(* LogStep: the log stays a sequence of such commands. *)
LEMMA LogStep ==
  ASSUME LogInv, [Next]_vars
  PROVE  revision' \in Nat /\ LogGrows
<1>0. revision \in Nat
  BY DEF LogInv
<1>1. ASSUME UNCHANGED <<revision, applied>> PROVE revision' \in Nat /\ LogGrows
  BY <1>0, <1>1 DEF LogGrows
<1>2. ASSUME NEW s \in Sessions, Request(s) \/ Transport(s)
      PROVE  revision' \in Nat /\ LogGrows
  <2>1. ASSUME NEW role \in Roles, Bind(s, role) PROVE UNCHANGED <<revision, applied>>
    BY <2>1 DEF Bind, authority
  <2>2. ASSUME NEW env \in Authority!Sendable, SubmitAccepted(s, env)
        PROVE  revision' \in Nat /\ LogGrows
    <3> DEFINE entry == [env |-> env, server |-> FALSE, revision |-> revision + 1]
    <3>1. revision' = revision + 1 /\ applied' = Append(applied, entry)
      BY <2>2 DEF SubmitAccepted, Authority!AcceptCommand
    <3>2. entry \in Entries /\ ~entry.server
      BY <1>0 DEF Entries
    <3> QED BY <1>0, <3>1, <3>2 DEF LogGrows
  <2>3. ASSUME NEW env \in Authority!Sendable, SubmitAnswered(s, env)
        PROVE  UNCHANGED <<revision, applied>>
    BY <2>3 DEF SubmitAnswered, Authority!AnswerOnly, Authority!RejectRecorded
  <2>4. ASSUME Subscribe(s) \/ Disconnect(s) \/ Reconnect(s) PROVE UNCHANGED <<revision, applied>>
    BY <2>4 DEF Subscribe, Disconnect, Reconnect, authority
  <2>5. ASSUME Transport(s) PROVE UNCHANGED <<revision, applied>>
    BY <2>5 DEF Transport, Receive, DropReceiver, authority
  <2> QED BY <1>1, <1>2, <2>1, <2>2, <2>3, <2>4, <2>5 DEF Request
<1>3. ASSUME NEW tick \in Ticks,
             TickQuietly(tick) \/ TickWarns(tick) \/ TickExpires(tick) \/ TickFails(tick)
      PROVE  revision' \in Nat /\ LogGrows
  <2>1. ASSUME TickExpires(tick) PROVE revision' \in Nat /\ LogGrows
    <3> DEFINE entry == [env |-> TimeoutEnvelope, server |-> TRUE,
                         revision |-> revision + 1]
    <3>1. revision' = revision + 1 /\ applied' = Append(applied, entry)
      BY <2>1 DEF TickExpires, Authority!AcceptCommand
    <3>2. TimeoutEnvelope \in ClockCommands
      BY <2>1, TimeoutSent DEF TickExpires, Expired
    <3>3. entry \in Entries
      BY <1>0, <3>2 DEF Entries
    <3>4. now' >= turnStart + TimeoutTicks
      BY <2>1 DEF TickExpires, Expired, LogInv, ClockInv, ClockNotExtended
    <3>5. SeatOf[TimeoutEnvelope.payload] = ToAct[hand]
      <4>1. TimeoutEnvelope.payload \in Actions /\ TimeoutEnvelope.payload \in Payloads
        BY <3>2, RuntimeAssumption DEF ClockCommands
      <4>2. ApplyCommand[hand][TimeoutEnvelope.payload] # Refused
        BY <2>1 DEF TickExpires, Authority!AcceptCommand
      <4>3. hand \in HandStates
        BY DEF LogInv, ClockInv, ClockTypes
      <4> QED BY <4>1, <4>2, <4>3, HandAssumption
    <3>6. entry.env = TimeoutEnvelope
      OBVIOUS
    <3> HIDE DEF entry
    <3> QED BY <1>0, <3>1, <3>3, <3>4, <3>5, <3>6 DEF LogGrows
  <2>2. ASSUME TickQuietly(tick) \/ TickWarns(tick) PROVE UNCHANGED <<revision, applied>>
    BY <2>2 DEF TickQuietly, TickWarns, authority
  <2>3. ASSUME TickFails(tick) PROVE UNCHANGED <<revision, applied>>
    BY <2>3 DEF TickFails, Authority!AnswerOnly, Authority!RejectRecorded, authority
  <2> QED BY <1>1, <1>3, <2>1, <2>2, <2>3
<1>4. CASE ShowdownStep
  BY <1>0, <1>4 DEF ShowdownStep, Authority!AdvanceShowdown, LogGrows
<1>5. CASE Shutdown
  BY <1>1, <1>5 DEF Shutdown, authority
<1>6. CASE UNCHANGED vars
  BY <1>1, <1>6 DEF vars, authority
<1> QED
  BY <1>2, <1>3, <1>4, <1>5, <1>6 DEF Next, AdvanceTime

(* LogKept: the log invariant is inductive. *)
LEMMA LogKept == LogInv /\ [Next]_vars => LogInv'
<1> SUFFICES ASSUME LogInv, [Next]_vars PROVE LogInv'
  OBVIOUS
<1>1. ClockInv'
  BY ClockStep DEF LogInv
<1>2. revision' \in Nat /\ LogGrows
  BY LogStep
<1>3. applied \in Seq(Entries)
  BY DEF LogInv
<1>4. applied' \in Seq(Entries)
  <2>1. CASE UNCHANGED applied
    BY <1>3, <2>1
  <2>2. ASSUME NEW entry \in Entries, applied' = Append(applied, entry)
        PROVE  applied' \in Seq(Entries)
    BY <1>3, <2>2
  <2> QED BY <1>2, <2>1, <2>2 DEF LogGrows
<1> QED BY <1>1, <1>2, <1>4 DEF LogInv

(* TimeoutsAreDue: the clock acts for a seat only when that seat is to act and
   has had all of its time (expire_deadline), however commands and ticks
   interleave. *)
THEOREM TimeoutsAreDue == Spec => NoEarlyTimeout
<1> DEFINE Due == applied' # applied /\ applied'[Len(applied')].server =>
                    /\ now' >= turnStart + TimeoutTicks
                    /\ SeatOf[applied'[Len(applied')].env.payload] = ToAct[hand]
<1>1. Init => LogInv
  BY ClockInit DEF Init, LogInv
<1>2. LogInv /\ [Next]_vars => [Due]_vars
  <2> SUFFICES ASSUME LogInv, [Next]_vars PROVE Due
    OBVIOUS
  <2>1. CASE UNCHANGED applied
    BY <2>1
  <2>2. ASSUME NEW entry \in Entries, applied' = Append(applied, entry),
               entry.server => /\ now' >= turnStart + TimeoutTicks
                               /\ SeatOf[entry.env.payload] = ToAct[hand]
        PROVE  Due
    <3>1. applied'[Len(applied')] = entry
      BY <2>2 DEF LogInv
    <3> QED BY <2>2, <3>1
  <2> QED BY <2>1, <2>2, LogStep DEF LogGrows
<1> QED BY <1>1, <1>2, LogKept, PTL DEF Spec, NoEarlyTimeout
-----------------------------------------------------------------------------
(* The history: what the runtime keeps is what the authority did. *)

(* HistoryKept: wherever an event is accepted, it is kept as well. *)
LEMMA HistoryKept ==
  ASSUME [Next]_vars
  PROVE  \/ UNCHANGED <<events, acceptedEvents>>
         \/ \E id : events' = Append(events, id) /\ acceptedEvents' = Append(acceptedEvents, id)
<1> DEFINE Same == UNCHANGED <<events, acceptedEvents>>
           Both == \E id : /\ events' = Append(events, id)
                           /\ acceptedEvents' = Append(acceptedEvents, id)
<1>1. ASSUME NEW s \in Sessions, Request(s) \/ Transport(s) PROVE Same \/ Both
  <2>1. ASSUME NEW env \in Authority!Sendable, SubmitAccepted(s, env) PROVE Both
    BY <2>1 DEF SubmitAccepted, Authority!AcceptCommand, KeepEvent
  <2>2. ASSUME NEW env \in Authority!Sendable, SubmitAnswered(s, env) PROVE Same
    BY <2>2 DEF SubmitAnswered, Authority!AnswerOnly, Authority!RejectRecorded
  <2>3. ASSUME NEW role \in Roles, Bind(s, role) PROVE Same
    BY <2>3 DEF Bind, authority
  <2>4. ASSUME Subscribe(s) \/ Disconnect(s) \/ Reconnect(s) \/ Transport(s) PROVE Same
    BY <2>4 DEF Subscribe, Disconnect, Reconnect, Transport, Receive, DropReceiver, authority
  <2> QED BY <1>1, <2>1, <2>2, <2>3, <2>4 DEF Request
<1>2. ASSUME NEW tick \in Ticks,
             TickQuietly(tick) \/ TickWarns(tick) \/ TickExpires(tick) \/ TickFails(tick)
      PROVE  Same \/ Both
  <2>1. ASSUME TickExpires(tick) PROVE Both
    BY <2>1 DEF TickExpires, Authority!AcceptCommand, KeepEvent
  <2>2. ASSUME TickQuietly(tick) \/ TickWarns(tick) \/ TickFails(tick) PROVE Same
    BY <2>2
    DEF TickQuietly, TickWarns, TickFails, Authority!AnswerOnly, Authority!RejectRecorded,
        authority
  <2> QED BY <1>2, <2>1, <2>2
<1>3. ASSUME ShowdownStep PROVE Both
  BY <1>3 DEF ShowdownStep, Authority!AdvanceShowdown, KeepEvent
<1>4. ASSUME Shutdown \/ UNCHANGED vars PROVE Same
  BY <1>4 DEF Shutdown, vars, authority
<1> QED BY <1>1, <1>2, <1>3, <1>4 DEF Next, AdvanceTime

(* HistoryIsWhole: the hand history holds the authority's events, all of them
   and in their order, whether a player, the clock or the showdown made them. *)
THEOREM HistoryIsWhole == Spec => []HistoryComplete
<1>1. Init => HistoryComplete
  BY DEF Init, HistoryComplete
<1>2. HistoryComplete /\ [Next]_vars => HistoryComplete'
  BY HistoryKept DEF HistoryComplete
<1> QED BY <1>1, <1>2, PTL DEF Spec
-----------------------------------------------------------------------------
(* The ledger and the deadlines.  A decision that was timed costs an entry of
   the ledger before the next one begins, so the identities of the deadline
   commands last as long as the ledger does: no two deadlines share one. *)

DeadlineIsLatest ==
  deadline # Null => deadline.generation = generation /\ generation \in Generations
LedgerInv ==
  /\ ClockInv
  /\ revision \in Nat
  /\ recorded \in [Authority!Ids -> Authority!Entries \cup {Null}]
  /\ Cardinality(Authority!Recorded) <= MaxRecorded
  /\ generation <= Cardinality(Authority!Recorded) + 1
  /\ DeadlineIsLatest

(* SameCount: the authority counts as everybody does. *)
LEMMA SameCount ==
  ASSUME NEW S PROVE Authority!Cardinality(S) = Cardinality(S)
BY DEF Authority!Cardinality, Cardinality, Authority!IsFiniteSet, IsFiniteSet

(* LedgerFinite: the entries of a ledger can be counted. *)
LEMMA LedgerFinite ==
  IsFiniteSet(Authority!Recorded) /\ Cardinality(Authority!Recorded) \in Nat
<1>1. Authority!Recorded \subseteq Authority!Ids
  BY DEF Authority!Recorded
<1> QED BY <1>1, FS_Subset, FS_CardinalityType, LedgerAssumption

(* AnswerIsRecordable: what a fresh command is told can be kept in the ledger. *)
LEMMA AnswerIsRecordable ==
  ASSUME revision \in Nat, NEW env, NEW server, Authority!Fresh(env, server)
  PROVE  Authority!Answer(env, server) \in Authority!Outcomes
<1>1. Authority!Answer(env, server) \in { Authority!Rejected("StaleRevision", revision),
                                        Authority!Rejected("Domain", revision),
                                        Authority!Accepted(revision + 1) }
  BY DEF Authority!Fresh, Authority!Answer, Authority!SameFingerprint
<1>2. \A code \in Authority!ErrorCodes :
        Authority!Rejected(code, revision) \in Authority!Outcomes
  BY DEF Authority!Rejected, Authority!Outcomes
<1>3. Authority!Accepted(revision + 1) \in Authority!Outcomes
  BY DEF Authority!Accepted, Authority!Outcomes
<1>4. {"StaleRevision", "Domain"} \subseteq Authority!ErrorCodes
  BY DEF Authority!ErrorCodes
<1> QED BY <1>1, <1>2, <1>3, <1>4

(* LedgerGrows: a decided command takes one free entry. *)
LEMMA LedgerGrows ==
  ASSUME LedgerInv, NEW env, env.id \in Authority!Ids, env.expected \in Nat,
         env.payload \in Payloads,
         NEW server, Authority!Fresh(env, server),
         Authority!Record(env, Authority!Answer(env, server))
  PROVE  /\ recorded' \in [Authority!Ids -> Authority!Entries \cup {Null}]
         /\ Cardinality(Authority!Recorded') = Cardinality(Authority!Recorded) + 1
         /\ Cardinality(Authority!Recorded') <= MaxRecorded
<1> DEFINE entry == [expected |-> env.expected, payload |-> env.payload,
                     outcome |-> Authority!Answer(env, server)]
<1>1. entry \in Authority!Entries
  BY AnswerIsRecordable DEF LedgerInv, Authority!Entries
<1>2. recorded[env.id] = Null /\ ~Authority!LedgerFull
  BY DEF Authority!Fresh
<1>3. recorded' = [recorded EXCEPT ![env.id] = entry]
  BY DEF Authority!Record
<1>4. recorded' \in [Authority!Ids -> Authority!Entries \cup {Null}]
  BY <1>1, <1>3 DEF LedgerInv
<1>5. recorded \in [Authority!Ids -> Authority!Entries \cup {Null}]
  BY DEF LedgerInv
<1>6. entry # Null
  BY <1>1, AbsenceAssumption
<1>7. Authority!Recorded' = Authority!Recorded \cup {env.id}
  BY <1>3, <1>5, <1>6 DEF Authority!Recorded
<1>8. env.id \notin Authority!Recorded
  BY <1>2 DEF Authority!Recorded
<1>9. Cardinality(Authority!Recorded \cup {env.id}) = Cardinality(Authority!Recorded) + 1
  BY <1>8, LedgerFinite, FS_AddElement
<1>10. Cardinality(Authority!Recorded) < MaxRecorded
  BY <1>2, SameCount, LedgerFinite, LedgerAssumption DEF Authority!LedgerFull
<1>11. Cardinality(Authority!Recorded') = Cardinality(Authority!Recorded) + 1
  BY <1>7, <1>9
<1>12. Cardinality(Authority!Recorded) + 1 <= MaxRecorded
  BY <1>10, LedgerFinite, LedgerAssumption
<1> QED BY <1>4, <1>11, <1>12

(* TurnAfterEntry: when the turn moves on together with a new entry, or stays,
   the deadlines' numbers stay within the ledger's. *)
LEMMA TurnAfterEntry ==
  ASSUME LedgerInv, NEW tick \in Nat, ClockInv',
         Reschedule(hand', tick) \/ UNCHANGED <<deadline, generation>>,
         Cardinality(Authority!Recorded') = Cardinality(Authority!Recorded) + 1,
         Cardinality(Authority!Recorded') <= MaxRecorded
  PROVE  /\ generation' <= Cardinality(Authority!Recorded') + 1
         /\ DeadlineIsLatest'
<1>1. generation \in Nat /\ generation <= Cardinality(Authority!Recorded) + 1
  BY DEF LedgerInv, ClockInv, ClockTypes
<1>2. generation' \in {generation, generation + 1}
  BY DEF Reschedule
<1>3. generation' <= Cardinality(Authority!Recorded') + 1
  BY <1>1, <1>2, LedgerFinite
<1>4. CASE Reschedule(hand', tick) /\ ToAct[hand'] # Nobody
  <2>1. deadline' = NewDeadline(ToAct[hand'], tick) /\ generation' = generation + 1
    BY <1>4 DEF Reschedule
  <2>2. deadline'.generation = generation'
    BY <2>1 DEF NewDeadline
  <2>3. generation' \in Generations
    BY <1>1, <1>3, <2>1, LedgerFinite, LedgerAssumption DEF Generations
  <2> QED BY <1>3, <2>2, <2>3 DEF DeadlineIsLatest, Generations
<1>5. CASE Reschedule(hand', tick) /\ ToAct[hand'] = Nobody
  BY <1>3, <1>5 DEF Reschedule, DeadlineIsLatest
<1>6. CASE UNCHANGED <<deadline, generation>>
  BY <1>3, <1>6 DEF LedgerInv, DeadlineIsLatest, Generations
<1> QED BY <1>4, <1>5, <1>6

(* LedgerUntouched: a step that leaves the ledger alone may warn or clear the
   deadline, nothing more. *)
LEMMA LedgerUntouched ==
  ASSUME LedgerInv, ClockInv', revision' \in Nat, UNCHANGED <<recorded, generation>>,
         \/ UNCHANGED deadline
         \/ deadline' = Null
         \/ deadline # Null /\ deadline'.generation = deadline.generation
  PROVE  LedgerInv'
BY DEF LedgerInv, DeadlineIsLatest, Generations, Authority!Recorded
(* LedgerInit: the ledger of a fresh runtime is empty. *)
LEMMA LedgerInit == Init => LedgerInv
<1> SUFFICES ASSUME Init PROVE LedgerInv
  OBVIOUS
<1>1. ClockInv
  BY ClockInit
<1>2. Authority!Recorded = {}
  BY DEF Init, Authority!Recorded
<1>3. Cardinality(Authority!Recorded) = 0
  BY <1>2, FS_EmptySet
<1>4. DeadlineIsLatest /\ generation <= 1
  BY LedgerAssumption DEF Init, DeadlineIsLatest, Generations
<1>5. 0 <= MaxRecorded
  BY LedgerAssumption
<1> QED BY <1>1, <1>3, <1>4, <1>5 DEF Init, LedgerInv

(* TimeoutAddressed: the command of a deadline is one the authority expects
   from its own table worker. *)
LEMMA TimeoutAddressed ==
  ASSUME LedgerInv, deadline # Null
  PROVE  TimeoutEnvelope \in Authority!ServerEnvelopes
<1>1. deadline \in Deadlines /\ deadline.generation \in Generations
  BY DEF LedgerInv, ClockInv, ClockTypes, DeadlineIsLatest
<1>2. TimeoutId[deadline.generation] \in ServerIds
  BY <1>1, RuntimeAssumption
<1>3. deadline.seat \in Dealt
  BY <1>1 DEF Deadlines
<1>4. CheckOf[deadline.seat] \in Payloads /\ FoldOf[deadline.seat] \in Payloads
  BY <1>3, RuntimeAssumption
<1> QED BY <1>2, <1>4 DEF TimeoutEnvelope, Authority!ServerEnvelopes

(* LedgerDecides: deciding a command and moving the turn on, or not, keeps the
   ledger invariant. *)
LEMMA LedgerDecides ==
  ASSUME LedgerInv, ClockInv', NEW tick \in Nat, NEW server,
         NEW env \in Authority!Sendable \cup Authority!ServerEnvelopes,
         Authority!AcceptCommand(env, server) \/ Authority!RejectRecorded(env, server),
         Reschedule(hand', tick) \/ UNCHANGED <<deadline, generation>>
  PROVE  LedgerInv'
<1>1. revision \in Nat
  BY DEF LedgerInv
<1>2. env.id \in Authority!Ids /\ env.expected \in Nat /\ env.payload \in Payloads
  BY <1>1, LedgerAssumption DEF Authority!Sendable, Authority!ServerEnvelopes, Authority!Ids
<1>3. /\ Authority!Fresh(env, server)
      /\ Authority!Record(env, Authority!Answer(env, server))
      /\ revision' \in {revision, revision + 1}
  BY DEF Authority!AcceptCommand, Authority!RejectRecorded
<1>4. /\ recorded' \in [Authority!Ids -> Authority!Entries \cup {Null}]
      /\ Cardinality(Authority!Recorded') = Cardinality(Authority!Recorded) + 1
      /\ Cardinality(Authority!Recorded') <= MaxRecorded
  BY <1>2, <1>3, LedgerGrows
<1>5. /\ generation' <= Cardinality(Authority!Recorded') + 1
      /\ DeadlineIsLatest'
  BY <1>4, TurnAfterEntry
<1> QED BY <1>1, <1>3, <1>4, <1>5 DEF LedgerInv

(* LedgerStep: every step of the runtime keeps the ledger invariant. *)
LEMMA LedgerStep == LedgerInv /\ [Next]_vars => LedgerInv'
<1> SUFFICES ASSUME LedgerInv, [Next]_vars PROVE LedgerInv'
  OBVIOUS
<1>1. ClockInv'
  BY ClockStep DEF LedgerInv
<1>2. now \in Nat /\ revision \in Nat
  BY DEF LedgerInv, ClockInv, ClockTypes
<1>3. ASSUME UNCHANGED <<recorded, revision, generation, deadline>> PROVE LedgerInv'
  BY <1>1, <1>2, <1>3, LedgerUntouched
<1>4. ASSUME NEW s \in Sessions, Request(s) \/ Transport(s) PROVE LedgerInv'
  <2>1. ASSUME NEW env \in Authority!Sendable, SubmitAccepted(s, env) PROVE LedgerInv'
    <3>1. /\ Authority!AcceptCommand(env, FALSE)
          /\ Reschedule(hand', now) \/ UNCHANGED <<deadline, generation>>
      BY <2>1 DEF SubmitAccepted
    <3> QED BY <1>1, <1>2, <3>1, LedgerDecides
  <2>2. ASSUME NEW env \in Authority!Sendable, SubmitAnswered(s, env) PROVE LedgerInv'
    <3>1. UNCHANGED <<deadline, generation>>
      BY <2>2 DEF SubmitAnswered, clock
    <3>2. CASE Authority!RejectRecorded(env, FALSE)
      BY <1>1, <1>2, <3>1, <3>2, LedgerDecides
    <3>3. CASE Authority!AnswerOnly(env, FALSE)
      BY <1>3, <3>1, <3>3 DEF Authority!AnswerOnly
    <3> QED BY <2>2, <3>2, <3>3 DEF SubmitAnswered
  <2>3. ASSUME NEW role \in Roles, Bind(s, role) PROVE LedgerInv'
    BY <1>3, <2>3 DEF Bind, authority, clock
  <2>4. ASSUME Subscribe(s) \/ Disconnect(s) \/ Reconnect(s) \/ Transport(s)
        PROVE  LedgerInv'
    BY <1>3, <2>4
    DEF Subscribe, Disconnect, Reconnect, Transport, Receive, DropReceiver, authority, clock
  <2> QED BY <1>4, <2>1, <2>2, <2>3, <2>4 DEF Request
<1>5. ASSUME NEW tick \in Ticks,
             TickQuietly(tick) \/ TickWarns(tick) \/ TickExpires(tick) \/ TickFails(tick)
      PROVE  LedgerInv'
  <2>0. tick \in Nat
    BY DEF Ticks, LedgerInv, ClockInv, ClockTypes, Deadlines
  <2>1. CASE TickQuietly(tick)
    BY <1>3, <2>1 DEF TickQuietly, authority
  <2>2. CASE TickWarns(tick)
    <3>1. deadline \in Deadlines /\ deadline # Null
      BY <2>2 DEF TickWarns, MustWarn, LedgerInv, ClockInv, ClockTypes
    <3>2. deadline'.generation = deadline.generation
      BY <2>2, <3>1 DEF TickWarns, WarnedDeadline, Deadlines
    <3>3. UNCHANGED <<recorded, revision, generation>>
      BY <2>2 DEF TickWarns, authority
    <3> QED BY <1>1, <1>2, <3>1, <3>2, <3>3, LedgerUntouched
  <2>3. CASE TickExpires(tick)
    <3>1. deadline # Null /\ Authority!AcceptCommand(TimeoutEnvelope, TRUE)
          /\ Reschedule(hand', tick)
      BY <2>3 DEF TickExpires, Expired
    <3>2. TimeoutEnvelope \in Authority!ServerEnvelopes
      BY <3>1, TimeoutAddressed
    <3> QED BY <1>1, <2>0, <3>1, <3>2, LedgerDecides
  <2>4. CASE TickFails(tick)
    <3>1. deadline # Null /\ UNCHANGED <<deadline, generation>>
      BY <2>4 DEF TickFails, Expired
    <3>2. CASE Authority!RejectRecorded(TimeoutEnvelope, TRUE)
      BY <1>1, <2>0, <3>1, <3>2, TimeoutAddressed, LedgerDecides
    <3>3. CASE Authority!AnswerOnly(TimeoutEnvelope, TRUE)
      BY <1>3, <3>1, <3>3 DEF Authority!AnswerOnly
    <3>4. CASE UNCHANGED authority
      BY <1>3, <3>1, <3>4 DEF authority
    <3> QED BY <2>4, <3>2, <3>3, <3>4 DEF TickFails
  <2> QED BY <1>5, <2>1, <2>2, <2>3, <2>4
<1>6. CASE ShowdownStep
  <2>1. hand \in HandStates /\ AdvanceHand[hand] # Refused /\ hand' = AdvanceHand[hand]
    BY <1>6 DEF ShowdownStep, Authority!AdvanceShowdown, LedgerInv, ClockInv, ClockTypes
  <2>2. ToAct[hand'] = Nobody
    BY <2>1, HandAssumption
  <2>3. deadline' = Null /\ UNCHANGED <<recorded, generation>> /\ revision' = revision + 1
    BY <1>6, <2>2 DEF ShowdownStep, Authority!AdvanceShowdown, Reschedule
  <2> QED BY <1>1, <1>2, <2>3, LedgerUntouched
<1>7. CASE Shutdown
  BY <1>3, <1>7 DEF Shutdown, authority, clock
<1>8. CASE UNCHANGED vars
  BY <1>3, <1>8 DEF vars, authority, clock
<1> QED BY <1>4, <1>5, <1>6, <1>7, <1>8 DEF Next, AdvanceTime

(* LedgerAlways: the ledger invariant holds in every reachable state. *)
LEMMA LedgerAlways == Spec => []LedgerInv
BY LedgerInit, LedgerStep, PTL DEF Spec

-----------------------------------------------------------------------------
(* SubmissionsRefine: players submit as clients, expire_deadline as the table's
   server. *)
LEMMA SubmissionsRefine ==
  ASSUME NEW env, NEW server, Authority!Submit(env, server),
         IF server THEN env \in Authority!ServerEnvelopes ELSE env \in Authority!Sendable,
         server \in BOOLEAN
  PROVE  Authority!Next
BY DEF Authority!Next, Authority!ClientSubmit, Authority!ServerSubmit

(* StepRefines: a step of the runtime is one of the authority, or none. *)
LEMMA StepRefines ==
  ASSUME LedgerInv, [Next]_vars
  PROVE  [Authority!Next]_(Authority!vars)
<1>1. ASSUME UNCHANGED authority PROVE UNCHANGED Authority!vars
  BY <1>1 DEF authority, Authority!vars
<1>2. ASSUME NEW s \in Sessions, Request(s) \/ Transport(s)
      PROVE  [Authority!Next]_(Authority!vars)
  <2>1. ASSUME NEW env \in Authority!Sendable, SubmitAccepted(s, env) PROVE Authority!Next
    BY <2>1, SubmissionsRefine DEF SubmitAccepted, Authority!Submit
  <2>2. ASSUME NEW env \in Authority!Sendable, SubmitAnswered(s, env) PROVE Authority!Next
    BY <2>2, SubmissionsRefine DEF SubmitAnswered, Authority!Submit
  <2>3. ASSUME NEW role \in Roles, Bind(s, role) PROVE UNCHANGED authority
    BY <2>3 DEF Bind
  <2>4. ASSUME Subscribe(s) \/ Disconnect(s) \/ Reconnect(s) \/ Transport(s)
        PROVE  UNCHANGED authority
    BY <2>4 DEF Subscribe, Disconnect, Reconnect, Transport, Receive, DropReceiver
  <2> QED BY <1>1, <1>2, <2>1, <2>2, <2>3, <2>4 DEF Request
<1>3. ASSUME NEW tick \in Ticks,
             TickQuietly(tick) \/ TickWarns(tick) \/ TickExpires(tick) \/ TickFails(tick)
      PROVE  [Authority!Next]_(Authority!vars)
  <2>1. ASSUME TickQuietly(tick) \/ TickWarns(tick) PROVE UNCHANGED authority
    BY <2>1 DEF TickQuietly, TickWarns
  <2>2. ASSUME TickExpires(tick) PROVE Authority!Next
    <3>1. deadline # Null /\ Authority!Submit(TimeoutEnvelope, TRUE)
      BY <2>2 DEF TickExpires, Expired, Authority!Submit
    <3> QED BY <3>1, TimeoutAddressed, SubmissionsRefine
  <2>3. ASSUME TickFails(tick) PROVE Authority!Next \/ UNCHANGED authority
    <3>1. deadline # Null
      BY <2>3 DEF TickFails, Expired
    <3>2. Authority!Submit(TimeoutEnvelope, TRUE) \/ UNCHANGED authority
      BY <2>3 DEF TickFails, Authority!Submit
    <3> QED BY <3>1, <3>2, TimeoutAddressed, SubmissionsRefine
  <2> QED BY <1>1, <1>3, <2>1, <2>2, <2>3
<1>4. ASSUME ShowdownStep PROVE Authority!Next
  BY <1>4 DEF ShowdownStep, Authority!Next
<1>5. ASSUME Shutdown \/ UNCHANGED vars PROVE UNCHANGED authority
  BY <1>5 DEF Shutdown, vars
<1> QED BY <1>1, <1>2, <1>3, <1>4, <1>5 DEF Next, AdvanceTime

(* RuntimeRefines: the runtime, with its clock, its sessions and its showdown
   steps, does nothing to the authority that ProtocolAuthority does not allow. *)
THEOREM RuntimeRefines == Spec => ImplementsAuthority
<1>1. Init => Authority!Init
  BY DEF Init, Authority!Init, Authority!NoEntries
<1>2. LedgerInv /\ [Next]_vars => [Authority!Next]_(Authority!vars)
  BY StepRefines
<1> QED BY <1>1, <1>2, LedgerAlways, PTL DEF Spec, ImplementsAuthority, Authority!Spec
-----------------------------------------------------------------------------
(* Deadlines act.  The identity of a pending deadline's command was never used:
   clients cannot use it, and earlier deadlines had others. *)
TimeoutUnused ==
  \A g \in Generations : recorded[TimeoutId[g]] # Null =>
    g <= generation /\ (g = generation => deadline = Null)
DeadlineInv == LedgerInv /\ TimeoutUnused

(* ClientsKeepOff: no client's command takes the identity of a deadline's. *)
LEMMA ClientsKeepOff ==
  ASSUME NEW env, Authority!Fresh(env, FALSE), NEW g \in Generations
  PROVE  env.id # TimeoutId[g]
<1>1. TimeoutId[g] \in ServerIds
  BY RuntimeAssumption
<1> QED BY <1>1 DEF Authority!Fresh, Authority!AddressError, Authority!Reserved

(* TimeoutAccepted: with room in the ledger the command of a pending deadline
   is fresh, current and legal. *)
LEMMA TimeoutAccepted ==
  ASSUME DeadlineInv, deadline # Null, ~Authority!LedgerFull
  PROVE  /\ ToAct[hand] = deadline.seat
         /\ Authority!Fresh(TimeoutEnvelope, TRUE)
         /\ ~Authority!Stale(TimeoutEnvelope)
         /\ ApplyCommand[hand][TimeoutEnvelope.payload] # Refused
<1>1. /\ hand \in HandStates /\ ToAct[hand] # Nobody /\ deadline.seat = ToAct[hand]
      /\ deadline.generation = generation /\ generation \in Generations
  BY DEF DeadlineInv, LedgerInv, ClockInv, ClockTypes, DeadlineNamesActor, DeadlineIsLatest
<1>2. TimeoutEnvelope.payload = TimeoutPayload(hand)
  BY <1>1 DEF TimeoutEnvelope, TimeoutPayload
<1>3. ApplyCommand[hand][TimeoutEnvelope.payload] # Refused
  BY <1>1, <1>2, HandAssumption
<1>4. recorded[TimeoutId[generation]] = Null
  BY <1>1 DEF DeadlineInv, TimeoutUnused
<1>5. TimeoutId[generation] \in ServerIds /\ TimeoutId[generation] \notin MalformedIds
  BY <1>1, RuntimeAssumption
<1>6. /\ TimeoutEnvelope.id = TimeoutId[generation]
      /\ TimeoutEnvelope.version = Authority!CurrentVersion
      /\ TimeoutEnvelope.table = Authority!ThisTable
      /\ TimeoutEnvelope.hand = 1 /\ TimeoutEnvelope.expected = revision
  BY <1>1 DEF TimeoutEnvelope
<1>7. Authority!AddressError(TimeoutEnvelope, TRUE) = "None"
  BY <1>5, <1>6 DEF Authority!AddressError, Authority!ValidId
<1>8. Authority!Fresh(TimeoutEnvelope, TRUE)
  BY <1>4, <1>6, <1>7 DEF Authority!Fresh
<1> QED BY <1>1, <1>3, <1>6, <1>8 DEF Authority!Stale

(* TimeoutsUsed: what a step adds to the ledger keeps TimeoutUnused. *)
LEMMA TimeoutsUsed == DeadlineInv /\ [Next]_vars => TimeoutUnused'
<1> SUFFICES ASSUME DeadlineInv, [Next]_vars PROVE TimeoutUnused'
  OBVIOUS
<1>1. /\ generation \in Nat /\ hand \in HandStates /\ ClockInv
      /\ recorded \in [Authority!Ids -> Authority!Entries \cup {Null}]
      /\ DeadlineIsLatest
  BY DEF DeadlineInv, LedgerInv, ClockInv, ClockTypes
<1>2. \A g \in Generations : g \in Nat /\ TimeoutId[g] \in Authority!Ids
  BY RuntimeAssumption, LedgerAssumption DEF Generations, Authority!Ids
<1>3. TimeoutUnused
  BY DEF DeadlineInv
<1>4. ASSUME UNCHANGED <<recorded, generation>>, UNCHANGED deadline \/ deadline' = Null
      PROVE  TimeoutUnused'
  BY <1>3, <1>4 DEF TimeoutUnused
<1>5. ASSUME NEW env, Authority!Fresh(env, FALSE),
             Authority!Record(env, Authority!Answer(env, FALSE)),
             NEW tick, Reschedule(hand', tick) \/ UNCHANGED <<deadline, generation>>
      PROVE  TimeoutUnused'
  <2>1. \A g \in Generations : recorded'[TimeoutId[g]] = recorded[TimeoutId[g]]
    BY <1>1, <1>2, <1>5, ClientsKeepOff DEF Authority!Record
  <2>2. \/ deadline' = Null /\ generation' = generation
        \/ generation' = generation + 1
        \/ UNCHANGED <<deadline, generation>>
    BY <1>5 DEF Reschedule
  <2> QED BY <1>1, <1>2, <1>3, <2>1, <2>2 DEF TimeoutUnused
<1>6. ASSUME NEW s \in Sessions, Request(s) \/ Transport(s) PROVE TimeoutUnused'
  <2>1. ASSUME NEW env \in Authority!Sendable, SubmitAccepted(s, env) PROVE TimeoutUnused'
    <3>1. /\ Authority!Fresh(env, FALSE)
          /\ Authority!Record(env, Authority!Answer(env, FALSE))
          /\ Reschedule(hand', now) \/ UNCHANGED <<deadline, generation>>
      BY <2>1 DEF SubmitAccepted, Authority!AcceptCommand
    <3> QED BY <1>5, <3>1
  <2>2. ASSUME NEW env \in Authority!Sendable, SubmitAnswered(s, env) PROVE TimeoutUnused'
    <3>1. UNCHANGED <<deadline, generation>>
      BY <2>2 DEF SubmitAnswered, clock
    <3>2. ASSUME Authority!RejectRecorded(env, FALSE) PROVE TimeoutUnused'
      BY <1>5, <3>1, <3>2 DEF Authority!RejectRecorded
    <3>3. ASSUME Authority!AnswerOnly(env, FALSE) PROVE TimeoutUnused'
      BY <1>4, <3>1, <3>3 DEF Authority!AnswerOnly
    <3> QED BY <2>2, <3>2, <3>3 DEF SubmitAnswered
  <2>3. ASSUME NEW role \in Roles, Bind(s, role) PROVE TimeoutUnused'
    BY <1>4, <2>3 DEF Bind, authority, clock
  <2>4. ASSUME Subscribe(s) \/ Disconnect(s) \/ Reconnect(s) \/ Transport(s)
        PROVE  TimeoutUnused'
    BY <1>4, <2>4
    DEF Subscribe, Disconnect, Reconnect, Transport, Receive, DropReceiver, authority, clock
  <2> QED BY <1>6, <2>1, <2>2, <2>3, <2>4 DEF Request
<1>7. ASSUME NEW tick \in Ticks,
             TickQuietly(tick) \/ TickWarns(tick) \/ TickExpires(tick) \/ TickFails(tick)
      PROVE  TimeoutUnused'
  <2>1. ASSUME TickQuietly(tick) PROVE TimeoutUnused'
    BY <1>4, <2>1 DEF TickQuietly, authority
  <2>2. ASSUME TickWarns(tick) PROVE TimeoutUnused'
    <3>1. deadline # Null /\ UNCHANGED <<recorded, generation>>
      BY <2>2 DEF TickWarns, MustWarn, authority
    <3> QED BY <1>3, <3>1 DEF TimeoutUnused
  <2>3. ASSUME TickExpires(tick) PROVE TimeoutUnused'
    <3>1. /\ deadline # Null /\ Reschedule(hand', tick)
          /\ Authority!Record(TimeoutEnvelope, Authority!Answer(TimeoutEnvelope, TRUE))
      BY <2>3 DEF TickExpires, Expired, Authority!AcceptCommand
    <3>2. TimeoutEnvelope.id = TimeoutId[generation] /\ generation \in Generations
      BY <1>1, <3>1 DEF TimeoutEnvelope, DeadlineIsLatest
    <3>3. \A g \in Generations : g # generation =>
            recorded'[TimeoutId[g]] = recorded[TimeoutId[g]]
      BY <1>1, <1>2, <3>1, <3>2, RuntimeAssumption DEF Authority!Record
    <3>4. \/ deadline' = Null /\ generation' = generation
          \/ generation' = generation + 1
      BY <3>1 DEF Reschedule
    <3>5. ASSUME NEW g \in Generations, recorded'[TimeoutId[g]] # Null
          PROVE  g <= generation
      BY <1>1, <1>2, <1>3, <3>3, <3>5 DEF TimeoutUnused
    <3>6. ASSUME NEW g \in Generations, recorded'[TimeoutId[g]] # Null
          PROVE  g <= generation' /\ (g = generation' => deadline' = Null)
      BY <1>1, <1>2, <3>4, <3>5, <3>6
    <3> QED BY <3>6 DEF TimeoutUnused
  <2>4. ASSUME TickFails(tick) PROVE TimeoutUnused'
    <3>1. deadline # Null /\ UNCHANGED <<deadline, generation>>
      BY <2>4 DEF TickFails, Expired
    <3>2. ~Authority!RejectRecorded(TimeoutEnvelope, TRUE)
      <4>1. Authority!Fresh(TimeoutEnvelope, TRUE) => ~Authority!LedgerFull
        BY DEF Authority!Fresh
      <4> QED BY <3>1, <4>1, TimeoutAccepted DEF Authority!RejectRecorded
    <3>3. UNCHANGED recorded
      BY <2>4, <3>2 DEF TickFails, Authority!AnswerOnly, authority
    <3> QED BY <1>4, <3>1, <3>3
  <2> QED BY <1>7, <2>1, <2>2, <2>3, <2>4
<1>8. ASSUME ShowdownStep PROVE TimeoutUnused'
  <2>1. AdvanceHand[hand] # Refused /\ hand' = AdvanceHand[hand]
    BY <1>8 DEF ShowdownStep, Authority!AdvanceShowdown
  <2>2. ToAct[hand'] = Nobody
    BY <1>1, <2>1, HandAssumption
  <2>3. deadline' = Null /\ UNCHANGED <<recorded, generation>>
    BY <1>8, <2>2 DEF ShowdownStep, Authority!AdvanceShowdown, Reschedule
  <2> QED BY <1>4, <2>3
<1>9. ASSUME Shutdown \/ UNCHANGED vars PROVE TimeoutUnused'
  BY <1>4, <1>9 DEF Shutdown, vars, authority, clock
<1> QED BY <1>6, <1>7, <1>8, <1>9 DEF Next, AdvanceTime

(* DeadlineActsIfRoom: expire_deadline fails on no other account than a full
   ledger. *)
DeadlineActsIfRoom ==
  [][\A tick \in Ticks : TickFails(tick) => Authority!LedgerFull]_vars

(* DeadlinesAct: whatever was retried, rejected or timed out before, a deadline
   that has come (expire_deadline) finds its seat to act, an unused identity and
   a legal check or fold; only a ledger without room can refuse it. *)
THEOREM DeadlinesAct == Spec => DeadlineActsIfRoom
<1>1. Init => DeadlineInv
  BY LedgerInit, RuntimeAssumption, LedgerAssumption
  DEF Init, DeadlineInv, TimeoutUnused, Generations, Authority!Ids
<1>2. DeadlineInv /\ [Next]_vars => DeadlineInv'
  BY LedgerStep, TimeoutsUsed DEF DeadlineInv
<1>3. DeadlineInv => \A tick \in Ticks : TickFails(tick) => Authority!LedgerFull
  <2> SUFFICES ASSUME DeadlineInv, NEW tick \in Ticks, TickFails(tick),
                      ~Authority!LedgerFull
               PROVE  FALSE
    OBVIOUS
  <2>1. deadline # Null
    BY DEF TickFails, Expired
  <2> QED
    BY <2>1, TimeoutAccepted
    DEF TickFails, Authority!AnswerOnly, Authority!RejectRecorded
<1> QED BY <1>1, <1>2, <1>3, PTL DEF Spec, DeadlineActsIfRoom
-----------------------------------------------------------------------------
(* The update streams. *)

(* One update after the other, without a gap. *)
Follows(d, i) ==
  /\ d[i].sequence = d[i - 1].sequence + 1
  /\ d[i].revision - d[i - 1].revision \in {0, 1}
GapFree(d) == \A i \in 2 .. Len(d) : Follows(d, i)

(* A stream that ends with what there is to know. *)
UpToDate(d) ==
  /\ d[Len(d)].sequence = streamSequence
  /\ d[Len(d)].revision = revision
  /\ d[Len(d)].deadline = deadline

StreamInv ==
  /\ ClockInv
  /\ revision \in Nat /\ streamSequence \in Nat
  /\ subscribers \subseteq Sessions /\ listening \subseteq Sessions
  /\ queue \in [Sessions -> Seq(Updates)]
  /\ seen \in [Sessions -> Updates \cup {Null}]
  /\ \A s \in listening : GapFree(Delivered(s))
  /\ \A s \in subscribers \cap listening : Len(Delivered(s)) > 0 /\ UpToDate(Delivered(s))

(* DeliveredType: what is delivered are updates. *)
LEMMA DeliveredType ==
  ASSUME StreamInv, NEW s \in Sessions
  PROVE  Delivered(s) \in Seq(Updates)
<1>1. queue[s] \in Seq(Updates) /\ (seen[s] # Null => seen[s] \in Updates)
  BY DEF StreamInv
<1>2. (IF seen[s] = Null THEN <<>> ELSE <<seen[s]>>) \in Seq(Updates)
  BY <1>1
<1> QED BY <1>1, <1>2, ConcatProperties DEF Delivered

(* GapFreeAppend: an update that follows the last one leaves no gap. *)
LEMMA GapFreeAppend ==
  ASSUME NEW d \in Seq(Updates), GapFree(d), NEW u \in Updates,
         Len(d) > 0 => /\ u.sequence = d[Len(d)].sequence + 1
                       /\ u.revision - d[Len(d)].revision \in {0, 1}
  PROVE  /\ Append(d, u) \in Seq(Updates) /\ Len(Append(d, u)) = Len(d) + 1
         /\ Append(d, u)[Len(d) + 1] = u
         /\ GapFree(Append(d, u))
<1>1. /\ Append(d, u) \in Seq(Updates) /\ Len(Append(d, u)) = Len(d) + 1
      /\ \A i \in 1 .. Len(d) : Append(d, u)[i] = d[i]
      /\ Append(d, u)[Len(d) + 1] = u
  BY AppendProperties
<1>2. ASSUME NEW i \in 2 .. Len(d) + 1 PROVE Follows(Append(d, u), i)
  <2>1. CASE i <= Len(d)
    <3>1. i \in 1 .. Len(d) /\ i - 1 \in 1 .. Len(d) /\ i \in 2 .. Len(d)
      BY <1>2, <2>1
    <3>2. Append(d, u)[i] = d[i] /\ Append(d, u)[i - 1] = d[i - 1]
      BY <1>1, <3>1
    <3> QED BY <3>1, <3>2 DEF GapFree, Follows
  <2>2. CASE i = Len(d) + 1
    <3>1. Len(d) > 0 /\ i - 1 = Len(d) /\ i - 1 \in 1 .. Len(d)
      BY <1>2, <2>2
    <3> QED BY <1>1, <2>2, <3>1 DEF Follows
  <2> QED BY <1>2, <2>1, <2>2
<1> QED BY <1>1, <1>2 DEF GapFree

(* DeliveredGrows: what is put into a channel is delivered last. *)
LEMMA DeliveredGrows ==
  ASSUME StreamInv, NEW s \in Sessions, NEW u \in Updates,
         seen'[s] = seen[s], queue'[s] = Append(queue[s], u)
  PROVE  Delivered(s)' = Append(Delivered(s), u)
<1>1. queue[s] \in Seq(Updates) /\ (seen[s] # Null => seen[s] \in Updates)
  BY DEF StreamInv
<1>2. CASE seen[s] = Null
  BY <1>1, <1>2, ConcatEmptySeq, AppendProperties DEF Delivered
<1>3. CASE seen[s] # Null
  BY <1>1, <1>3 DEF Delivered
<1> QED BY <1>2, <1>3

(* StreamBroadcast: a broadcast to registered subscribers keeps them current and
   gives up the others. *)
LEMMA StreamBroadcast ==
  ASSUME StreamInv, ClockInv', revision' \in {revision, revision + 1},
         NEW reason \in Reasons, NEW registered \in SUBSET subscribers,
         Broadcast(reason, registered)
  PROVE  StreamInv'
<1> DEFINE u == NextUpdate(reason)
<1>1. revision' \in Nat /\ streamSequence' \in Nat /\ streamSequence' = streamSequence + 1
  BY DEF StreamInv, Broadcast
<1>2. deadline' \in Deadlines \cup {Null}
  BY DEF ClockInv, ClockTypes
<1>3. /\ u \in Updates /\ u.sequence = streamSequence + 1
      /\ u.revision = revision' /\ u.deadline = deadline'
  BY <1>1, <1>2 DEF NextUpdate, Update, Updates
<1> HIDE DEF u
<1>4. /\ subscribers' = Served(registered)
      /\ queue' = [s \in Sessions |-> IF s \in Served(registered)
                                       THEN Append(queue[s], u) ELSE queue[s]]
      /\ listening' = listening /\ seen' = seen
  BY DEF Broadcast, u
<1>5. Served(registered) \subseteq subscribers \cap listening
  BY DEF Served
<1>6. queue' \in [Sessions -> Seq(Updates)]
  BY <1>3, <1>4, AppendProperties DEF StreamInv
<1>7. ASSUME NEW s \in Served(registered)
      PROVE  GapFree(Delivered(s)') /\ Len(Delivered(s)') > 0 /\ UpToDate(Delivered(s))'
  <2> DEFINE d == Delivered(s)
  <2>1. s \in Sessions /\ s \in subscribers /\ s \in listening
    BY <1>5 DEF StreamInv
  <2>2. d \in Seq(Updates) /\ GapFree(d) /\ Len(d) > 0 /\ UpToDate(d)
    BY <2>1, DeliveredType DEF StreamInv
  <2>3. Delivered(s)' = Append(d, u)
    BY <1>3, <1>4, <2>1, DeliveredGrows
  <2> HIDE DEF d
  <2>4. u.sequence = d[Len(d)].sequence + 1 /\ u.revision - d[Len(d)].revision \in {0, 1}
    <3>1. d[Len(d)].sequence = streamSequence /\ d[Len(d)].revision = revision
      BY <2>2 DEF UpToDate
    <3>2. revision \in Nat
      BY DEF StreamInv
    <3>3. revision' - revision \in {0, 1}
      <4>1. CASE revision' = revision
        BY <3>2, <4>1
      <4>2. CASE revision' = revision + 1
        BY <3>2, <4>2
      <4> QED BY <4>1, <4>2
    <3> QED BY <1>3, <3>1, <3>3
  <2>5. /\ GapFree(Append(d, u)) /\ Len(Append(d, u)) = Len(d) + 1
        /\ Append(d, u)[Len(d) + 1] = u
    BY <1>3, <2>2, <2>4, GapFreeAppend
  <2>6. Len(Append(d, u)) > 0 /\ Append(d, u)[Len(Append(d, u))] = u
    BY <2>2, <2>5
  <2>7. UpToDate(Delivered(s))'
    BY <1>1, <1>3, <2>3, <2>6 DEF UpToDate
  <2> QED BY <2>3, <2>5, <2>6, <2>7
<1>8. ASSUME NEW s \in listening' PROVE GapFree(Delivered(s)')
  <2>1. CASE s \in Served(registered)
    BY <1>7, <2>1
  <2>2. CASE s \notin Served(registered)
    <3>1. s \in Sessions /\ s \in listening
      BY <1>4 DEF StreamInv
    <3>2. Delivered(s)' = Delivered(s)
      BY <1>4, <2>2, <3>1 DEF Delivered
    <3> QED BY <3>1, <3>2 DEF StreamInv
  <2> QED BY <2>1, <2>2
<1>9. /\ subscribers' \subseteq Sessions /\ listening' \subseteq Sessions
      /\ seen' \in [Sessions -> Updates \cup {Null}]
  BY <1>4, <1>5 DEF StreamInv
<1> QED BY <1>1, <1>4, <1>6, <1>7, <1>8, <1>9 DEF StreamInv

(* StreamQuiet: a step that publishes nothing and changes nothing a subscriber
   is shown keeps everybody current. *)
LEMMA StreamQuiet ==
  ASSUME StreamInv, ClockInv', UNCHANGED <<revision, deadline, streamSequence, channels>>,
         subscribers' \subseteq subscribers
  PROVE  StreamInv'
BY ZenonT(60) DEF StreamInv, UpToDate, GapFree, Follows, Delivered, channels
(* StreamSubscribes: a subscription starts with the present. *)
LEMMA StreamSubscribes ==
  ASSUME StreamInv, NEW s \in Sessions, Subscribe(s)
  PROVE  StreamInv'
<1> DEFINE u == Update(streamSequence, "Initial", revision, deadline)
<1>1. /\ UNCHANGED <<hand, revision, deadline, generation, now, turnStart, streamSequence>>
      /\ subscribers' = subscribers \cup {s} /\ listening' = listening \cup {s}
      /\ queue' = [queue EXCEPT ![s] = <<u>>] /\ seen' = [seen EXCEPT ![s] = Null]
      /\ s \notin subscribers /\ s \notin listening
  BY DEF Subscribe, authority, clock
<1>2. ClockInv'
  BY <1>1, ClockKept DEF StreamInv, ClockInv, ClockTypes
<1>3. u \in Updates /\ u.sequence = streamSequence /\ u.revision = revision
      /\ u.deadline = deadline
  BY DEF Update, Updates, Reasons, StreamInv, ClockInv, ClockTypes
<1> HIDE DEF u
<1>4. queue' \in [Sessions -> Seq(Updates)] /\ seen' \in [Sessions -> Updates \cup {Null}]
  BY <1>1, <1>3 DEF StreamInv
<1>5. Delivered(s)' = <<u>>
  <2>1. queue'[s] = <<u>> /\ seen'[s] = Null
    BY <1>1 DEF StreamInv
  <2> QED BY <1>3, <2>1, ConcatEmptySeq DEF Delivered
<1>6. ASSUME NEW r \in Sessions, r # s PROVE Delivered(r)' = Delivered(r)
  BY <1>1, <1>6 DEF Delivered, StreamInv
<1>7. GapFree(Delivered(s)') /\ Len(Delivered(s)') > 0 /\ UpToDate(Delivered(s))'
  BY <1>1, <1>3, <1>5 DEF GapFree, UpToDate
<1>8. ASSUME NEW r \in listening' PROVE GapFree(Delivered(r)')
  BY <1>1, <1>6, <1>7 DEF StreamInv
<1>9. ASSUME NEW r \in subscribers' \cap listening'
      PROVE  Len(Delivered(r)') > 0 /\ UpToDate(Delivered(r))'
  <2>1. CASE r = s
    BY <1>7, <2>1
  <2>2. CASE r # s
    BY <1>1, <1>6, <1>9, <2>2 DEF StreamInv, UpToDate
  <2> QED BY <2>1, <2>2
<1> QED BY <1>1, <1>2, <1>4, <1>8, <1>9 DEF StreamInv

(* StreamReceives: taking an update out of the channel forgets the one before. *)
LEMMA StreamReceives ==
  ASSUME StreamInv, NEW s \in Sessions, Receive(s)
  PROVE  StreamInv'
<1>1. /\ UNCHANGED <<hand, revision, deadline, generation, now, turnStart, streamSequence,
                     subscribers, listening>>
      /\ queue' = [queue EXCEPT ![s] = Tail(queue[s])]
      /\ seen' = [seen EXCEPT ![s] = Head(queue[s])]
      /\ queue[s] # <<>>
  BY DEF Receive, authority, clock
<1>2. ClockInv'
  BY <1>1, ClockKept DEF StreamInv, ClockInv, ClockTypes
<1> DEFINE q == queue[s]
<1>3. q \in Seq(Updates) /\ q # <<>> /\ (seen[s] # Null => seen[s] \in Updates)
  BY <1>1 DEF StreamInv
<1>4. Head(q) \in Updates /\ Tail(q) \in Seq(Updates) /\ Head(q) # Null
  BY <1>3, HeadTailProperties, AbsenceAssumption
<1>5. queue' \in [Sessions -> Seq(Updates)] /\ seen' \in [Sessions -> Updates \cup {Null}]
  BY <1>1, <1>4 DEF StreamInv
<1>6. Delivered(s)' = q
  <2>1. queue'[s] = Tail(q) /\ seen'[s] = Head(q)
    BY <1>1 DEF StreamInv
  <2>2. <<Head(q)>> \o Tail(q) = q
    BY <1>3
  <2> QED BY <1>4, <2>1, <2>2 DEF Delivered
<1>7. ASSUME NEW r \in Sessions, r # s PROVE Delivered(r)' = Delivered(r)
  BY <1>1, <1>7 DEF Delivered, StreamInv
<1>8. \/ Delivered(s) = q
      \/ /\ Len(Delivered(s)) = Len(q) + 1
         /\ \A i \in 1 .. Len(q) : Delivered(s)[i + 1] = q[i]
  <2>1. CASE seen[s] = Null
    BY <1>3, <2>1, ConcatEmptySeq DEF Delivered
  <2>2. CASE seen[s] # Null
    BY <1>3, <2>2 DEF Delivered
  <2> QED BY <2>1, <2>2
<1>9. Len(q) \in Nat /\ Len(q) > 0
  BY <1>3
<1> HIDE DEF q
<1>10. ASSUME s \in listening PROVE GapFree(q)
  <2>1. GapFree(Delivered(s))
    BY <1>10 DEF StreamInv
  <2>2. CASE Delivered(s) = q
    BY <2>1, <2>2
  <2>3. CASE /\ Len(Delivered(s)) = Len(q) + 1
             /\ \A i \in 1 .. Len(q) : Delivered(s)[i + 1] = q[i]
    <3>1. ASSUME NEW i \in 2 .. Len(q) PROVE Follows(q, i)
      <4>1. i + 1 \in 2 .. Len(Delivered(s)) /\ i \in 1 .. Len(q) /\ i - 1 \in 1 .. Len(q)
            /\ (i - 1) + 1 = i /\ (i + 1) - 1 = i
        BY <1>9, <2>3, <3>1
      <4>2. Follows(Delivered(s), i + 1)
        BY <2>1, <4>1 DEF GapFree
      <4>3. Delivered(s)[i + 1] = q[i] /\ Delivered(s)[i] = q[i - 1]
        BY <2>3, <4>1
      <4> QED BY <4>1, <4>2, <4>3 DEF Follows
    <3> QED BY <3>1 DEF GapFree
  <2> QED BY <1>8, <2>2, <2>3
<1>11. ASSUME s \in subscribers \cap listening PROVE UpToDate(q)
  <2>1. UpToDate(Delivered(s)) /\ Len(Delivered(s)) > 0
    BY <1>11 DEF StreamInv
  <2>2. Delivered(s)[Len(Delivered(s))] = q[Len(q)]
    BY <1>8, <1>9
  <2> QED BY <2>1, <2>2 DEF UpToDate
<1>12. ASSUME NEW r \in listening' PROVE GapFree(Delivered(r)')
  BY <1>1, <1>6, <1>7, <1>10 DEF StreamInv
<1>13. ASSUME NEW r \in subscribers' \cap listening'
       PROVE  Len(Delivered(r)') > 0 /\ UpToDate(Delivered(r))'
  <2>1. CASE r = s
    BY <1>1, <1>6, <1>9, <1>11, <1>13, <2>1 DEF UpToDate
  <2>2. CASE r # s
    BY <1>1, <1>7, <1>13, <2>2 DEF StreamInv, UpToDate
  <2> QED BY <2>1, <2>2
<1> QED BY <1>1, <1>2, <1>5, <1>12, <1>13 DEF StreamInv

(* StreamDrops: a receiver that is gone has nothing left to miss. *)
LEMMA StreamDrops ==
  ASSUME StreamInv, NEW s \in Sessions, DropReceiver(s)
  PROVE  StreamInv'
<1>1. /\ UNCHANGED <<hand, revision, deadline, generation, now, turnStart, streamSequence,
                     subscribers>>
      /\ listening' = listening \ {s}
      /\ queue' = [queue EXCEPT ![s] = <<>>] /\ seen' = [seen EXCEPT ![s] = Null]
  BY DEF DropReceiver, authority, clock
<1>2. ClockInv'
  BY <1>1, ClockKept DEF StreamInv, ClockInv, ClockTypes
<1>3. queue' \in [Sessions -> Seq(Updates)] /\ seen' \in [Sessions -> Updates \cup {Null}]
  BY <1>1 DEF StreamInv
<1>4. ASSUME NEW r \in Sessions, r # s PROVE Delivered(r)' = Delivered(r)
  BY <1>1, <1>4 DEF Delivered, StreamInv
<1>5. \A r \in listening' : r \in listening /\ r \in Sessions /\ r # s
  BY <1>1 DEF StreamInv
<1>6. ASSUME NEW r \in listening' PROVE GapFree(Delivered(r)')
  BY <1>4, <1>5 DEF StreamInv
<1>7. ASSUME NEW r \in subscribers' \cap listening'
      PROVE  Len(Delivered(r)') > 0 /\ UpToDate(Delivered(r))'
  BY <1>1, <1>4, <1>5 DEF StreamInv, UpToDate
<1> QED BY <1>1, <1>2, <1>3, <1>6, <1>7 DEF StreamInv

(* StreamStep: every step of the runtime keeps its subscribers current. *)
LEMMA StreamStep == StreamInv /\ [Next]_vars => StreamInv'
<1> SUFFICES ASSUME StreamInv, [Next]_vars PROVE StreamInv'
  OBVIOUS
<1>1. ClockInv'
  BY ClockStep DEF StreamInv
<1>2. {"ActionAccepted", "DeadlineWarning", "TimeoutAction", "ConnectionStateChanged"}
        \subseteq Reasons
  BY DEF Reasons
<1>3. ASSUME NEW s \in Sessions, Request(s) \/ Transport(s) PROVE StreamInv'
  <2>1. ASSUME NEW env \in Authority!Sendable, SubmitAccepted(s, env) PROVE StreamInv'
    <3>1. revision' = revision + 1 /\ Broadcast("ActionAccepted", subscribers)
      BY <2>1 DEF SubmitAccepted, Authority!AcceptCommand
    <3> QED BY <1>1, <1>2, <3>1, StreamBroadcast
  <2>2. ASSUME NEW env \in Authority!Sendable, SubmitAnswered(s, env) PROVE StreamInv'
    <3>1. UNCHANGED <<revision, deadline, streamSequence, channels, subscribers>>
      BY <2>2 DEF SubmitAnswered, Authority!AnswerOnly, Authority!RejectRecorded, clock
    <3> QED BY <1>1, <3>1, StreamQuiet
  <2>3. ASSUME NEW role \in Roles, Bind(s, role) PROVE StreamInv'
    BY <1>1, <2>3, StreamQuiet DEF Bind, authority, clock
  <2>4. CASE Subscribe(s)
    BY <2>4, StreamSubscribes
  <2>5. CASE Disconnect(s)
    <3>1. revision' = revision /\ Broadcast("ConnectionStateChanged", subscribers \ {s})
      BY <2>5 DEF Disconnect, authority
    <3> QED BY <1>1, <1>2, <3>1, StreamBroadcast
  <2>6. CASE Reconnect(s)
    <3>1. revision' = revision /\ Broadcast("ConnectionStateChanged", subscribers)
      BY <2>6 DEF Reconnect, authority
    <3> QED BY <1>1, <1>2, <3>1, StreamBroadcast
  <2>7. CASE Receive(s)
    BY <2>7, StreamReceives
  <2>8. CASE DropReceiver(s)
    BY <2>8, StreamDrops
  <2> QED
    BY <1>3, <2>1, <2>2, <2>3, <2>4, <2>5, <2>6, <2>7, <2>8 DEF Request, Transport
<1>4. ASSUME NEW tick \in Ticks,
             TickQuietly(tick) \/ TickWarns(tick) \/ TickExpires(tick) \/ TickFails(tick)
      PROVE  StreamInv'
  <2>1. CASE TickQuietly(tick)
    BY <1>1, <2>1, StreamQuiet DEF TickQuietly, authority
  <2>2. CASE TickWarns(tick)
    <3>1. revision' = revision /\ Broadcast("DeadlineWarning", subscribers)
      BY <2>2 DEF TickWarns, authority
    <3> QED BY <1>1, <1>2, <3>1, StreamBroadcast
  <2>3. CASE TickExpires(tick)
    <3>1. revision' = revision + 1 /\ Broadcast("TimeoutAction", subscribers)
      BY <2>3 DEF TickExpires, Authority!AcceptCommand
    <3> QED BY <1>1, <1>2, <3>1, StreamBroadcast
  <2>4. CASE TickFails(tick)
    <3>1. UNCHANGED <<deadline, streamSequence, channels, subscribers>>
      BY <2>4 DEF TickFails
    <3>2. UNCHANGED revision
      BY <2>4 DEF TickFails, Authority!AnswerOnly, Authority!RejectRecorded, authority
    <3> QED BY <1>1, <3>1, <3>2, StreamQuiet
  <2> QED BY <1>4, <2>1, <2>2, <2>3, <2>4
<1>5. CASE ShowdownStep
  <2>1. revision' = revision + 1 /\ Broadcast("ActionAccepted", subscribers)
    BY <1>5 DEF ShowdownStep, Authority!AdvanceShowdown
  <2> QED BY <1>1, <1>2, <2>1, StreamBroadcast
<1>6. CASE Shutdown
  BY <1>1, <1>6, StreamQuiet DEF Shutdown, authority, clock
<1>7. CASE UNCHANGED vars
  BY <1>1, <1>7, StreamQuiet DEF vars, authority, clock
<1> QED BY <1>3, <1>4, <1>5, <1>6, <1>7 DEF Next, AdvanceTime

(* SubscribersStayCurrent: with any number of sessions and any capacity of
   their channels, a subscription is gap-free as long as it lasts, and the last
   update a registered subscriber was sent shows what there is to know. *)
THEOREM SubscribersStayCurrent == Spec => []SubscriberIsCurrent
<1>1. Init => StreamInv
  BY ClockInit DEF Init, StreamInv
<1>2. StreamInv => SubscriberIsCurrent
  BY DEF StreamInv, SubscriberIsCurrent, GapFree, Follows, UpToDate
<1> QED BY <1>1, <1>2, StreamStep, PTL DEF Spec

=============================================================================
