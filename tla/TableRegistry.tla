---------------------------- MODULE TableRegistry ----------------------------
(***************************************************************************)
(* The table registry of the server and what survives a restart:           *)
(* src/src/table_registry.rs, the history store of src/src/ring_history.rs *)
(* and the maintenance loop of MultiTableNetworkServer::run                *)
(* (src/src/network_server.rs).                                            *)
(*                                                                         *)
(* reg is the TableRegistry behind its mutex, so every method is one step. *)
(* A method that returns an error leaves it unchanged, except a failing    *)
(* rollover, after which the server process ends.  Hands are seen from     *)
(* outside: one is dealt to the seats with chips and ends with some        *)
(* division of those chips (MultiwayHand).  Of the lifecycle the registry  *)
(* uses joins, departures and hands, so a roster is a partial function     *)
(* from seats to players and stacks (TableLifecycle has the rest).         *)
(***************************************************************************)
EXTENDS Tournament, FiniteSetsExt

CONSTANTS
  Sessions,      \* guest sessions
  TableConfigs,  \* [seats, min, stack, tour]: tour is a tournament configuration or NoTour
  MaxTables,     \* capacity of the registry
  WaitCap,       \* MAX_TABLE_WAITING_ENTRIES
  HistoryCap,    \* MAX_RETAINED_HISTORIES
  SeatRequests,  \* seats a session may ask for, and AnySeat
  Leavers,       \* sessions that may request to leave
  EarlyLeaves,   \* whether they may do so while no hand is running
  TickTimes,     \* times a hand or a break may take
  TableCap, PlayerCap, HandCap,  \* bounds: identities are given out up to these
  NoTour, AnySeat, NoFile

ASSUME RegistryAssumption ==
  /\ WaitCap \in Nat /\ HistoryCap \in Nat \ {0} /\ MaxTables \in Nat \ {0}
  /\ Leavers \subseteq Sessions /\ EarlyLeaves \in BOOLEAN
  /\ TickTimes \subseteq Nat
  /\ \A cfg \in TableConfigs :
       cfg.seats \in Nat /\ cfg.min \in 2 .. cfg.seats /\ cfg.stack \in Nat \ {0}

VARIABLES
  reg,       \* the registry
  pc,        \* what the maintenance loop is doing; "down" when no server runs
  ckpt,      \* the checkpoint file
  histFile   \* the history file
rvars == <<reg, pc, ckpt, histFile>>

NoHand == 0
Pending == <<>>     \* the result of a hand that is still being played

EmptyRegistry ==
  [tables |-> <<>>, sessions |-> <<>>, waits |-> <<>>, history |-> <<>>,
   nextTable |-> 1, nextPlayer |-> 1, nextHand |-> 1]

RegistryInit ==
  /\ reg = EmptyRegistry
  /\ pc = "up"
  /\ ckpt = NoFile /\ histFile = NoFile

-----------------------------------------------------------------------------
(* Tables. *)

Tables == DOMAIN reg.tables
Routed == DOMAIN reg.sessions
Waiting == DOMAIN reg.waits

NoRoster == [x \in {} |-> x]
TableSeats(tb) == 0 .. tb.cfg.seats - 1
FreeSeats(tb) == TableSeats(tb) \ DOMAIN tb.roster
EligibleSeats(tb) == {s \in DOMAIN tb.roster : tb.roster[s].stack > 0}

(* refresh_between_hand_state *)
RunState(tb) ==
  IF tb.roster = NoRoster THEN "Waiting"
  ELSE IF tb.run \in {"Running", "Paused"}
    THEN IF Cardinality(EligibleSeats(tb)) >= 2 THEN "Running" ELSE "Paused"
  ELSE "Waiting"
Refreshed(tb) == [tb EXCEPT !.run = RunState(tb)]

(* The lifecycle as it is kept for the checkpoint. *)
Image(tb) == [roster |-> tb.roster, run |-> tb.run, hands |-> tb.hands]

NewTable(cfg) ==
  LET tb == [cfg |-> cfg, roster |-> NoRoster, run |-> "Waiting", hands |-> FALSE,
             leaving |-> {}, hand |-> NoHand, dealt |-> NoRoster, result |-> Pending,
             durable |-> Pending, seatSess |-> NoRoster, queue |-> <<>>,
             departures |-> {},
             tour |-> IF cfg.tour = NoTour THEN NoTour ELSE NewController(cfg.tour)]
  IN  [tb EXCEPT !.durable = Image(tb)]

TourStatus(tb) == IF tb.tour = NoTour THEN "None" ELSE tb.tour.status

(* The seat a request gets, when there is one for it. *)
SeatFor(tb, request) == IF request = AnySeat THEN Min(FreeSeats(tb)) ELSE request
Seatable(tb, request) ==
  IF request = AnySeat THEN FreeSeats(tb) # {} ELSE request \in FreeSeats(tb)

(* TableLifecycle::join *)
Seated(tb, p, seat) ==
  Refreshed([tb EXCEPT !.roster = With(@, seat, [player |-> p, stack |-> tb.cfg.stack])])

(* begin_hand, and the runtime that is spawned for it. *)
Dealt(tb, hand) ==
  [tb EXCEPT !.hand = hand, !.hands = TRUE, !.run = "Running", !.result = Pending,
             !.dealt = [s \in EligibleSeats(tb) |-> tb.roster[s].stack]]

(* Every session of the table is bound to the new runtime; a seat that was not
   dealt in has no projection, and bind fails. *)
Bindable(tb) == DOMAIN tb.seatSess \subseteq EligibleSeats(tb)

(* Enough players for a hand: when players join, and after a restart. *)
ReadyToStart(tb) ==
  IF tb.tour = NoTour THEN Cardinality(EligibleSeats(tb)) >= tb.cfg.min
  ELSE tb.tour.status = "Running" /\ Cardinality(EligibleSeats(tb)) >= 2

-----------------------------------------------------------------------------
(* Creating tables, joining and waiting. *)

CreateTable(cfg) ==
  /\ pc = "up"
  /\ Cardinality(Tables) < MaxTables /\ reg.nextTable <= TableCap
  /\ reg' = [reg EXCEPT !.tables = With(@, reg.nextTable, NewTable(cfg)),
                        !.nextTable = @ + 1]
  /\ UNCHANGED <<pc, ckpt, histFile>>

(* The checks of join_or_wait_with_access before a seat is looked for. *)
MayEnter(s, t) ==
  /\ pc = "up"
  /\ s \notin Routed /\ s \notin Waiting
  /\ TourStatus(reg.tables[t]) \in {"None", "Registering"}

(* Registration in a tournament starts it when the last entrant is in. *)
Registered(tb, p, seat) ==
  IF tb.tour = NoTour THEN tb
  ELSE LET c == RegisterEntrant(tb.tour, p, seat) IN
       [tb EXCEPT !.tour = IF CanStart(c) THEN StartTournament(c) ELSE c]

(* The image for the checkpoint is the lifecycle before a hand begins. *)
Durable(tb) == [tb EXCEPT !.durable = Image(tb)]

Join(s, t, request) ==
  LET tb   == reg.tables[t]
      seat == SeatFor(tb, request)
      p    == reg.nextPlayer
      seated == Registered(Seated(tb, p, seat), p, seat)
      joined == Durable([seated EXCEPT !.seatSess = With(@, seat, s)])
      starts == ReadyToStart(joined)
  IN  /\ MayEnter(s, t) /\ tb.hand = NoHand /\ Seatable(tb, request)
      /\ p <= PlayerCap
      /\ tb.tour # NoTour => CanRegister(tb.tour, p, seat)
      /\ starts => Bindable(joined) /\ reg.nextHand <= HandCap
      /\ reg' = [reg EXCEPT
           !.tables[t] = IF starts THEN Dealt(joined, reg.nextHand) ELSE joined,
           !.sessions = With(@, s, [table |-> t, player |-> p, seat |-> seat]),
           !.nextPlayer = @ + 1,
           !.nextHand = IF starts THEN @ + 1 ELSE @]
      /\ UNCHANGED <<pc, ckpt, histFile>>

Wait(s, t, request) ==
  LET tb == reg.tables[t] IN
  /\ MayEnter(s, t)
  /\ tb.hand # NoHand \/ ~Seatable(tb, request)
  /\ Len(tb.queue) < WaitCap
  /\ reg' = [reg EXCEPT
       !.tables[t].queue = Append(@, [session |-> s, request |-> request]),
       !.waits = With(@, s, t)]
  /\ UNCHANGED <<pc, ckpt, histFile>>

(* cancel_wait of a session in the queue, where it has one entry; also what a
   dropped lobby connection does (cancel_pending_registration). *)
CancelWait(s) ==
  /\ pc = "up" /\ s \notin Routed /\ s \in Waiting /\ reg.waits[s] \in Tables
  /\ LET t == reg.waits[s] IN
     \E i \in DOMAIN reg.tables[t].queue :
       /\ reg.tables[t].queue[i].session = s
       /\ reg' = [reg EXCEPT !.tables[t].queue = RemoveAt(@, i), !.waits = Without(@, s)]
  /\ UNCHANGED <<pc, ckpt, histFile>>

Unseated(tb, seat) ==
  Refreshed([tb EXCEPT !.roster = Without(@, seat), !.seatSess = Without(@, seat)])

(* cancel_wait of a registered tournament player. *)
CancelRegistrationOf(s) ==
  /\ pc = "up" /\ s \in Routed
  /\ LET r  == reg.sessions[s]
         tb == reg.tables[r.table]
     IN  /\ tb.hand = NoHand /\ TourStatus(tb) = "Registering"
         /\ reg' = [reg EXCEPT
              !.tables[r.table] =
                 Durable([Unseated(tb, r.seat) EXCEPT
                            !.tour = UnregisterEntrant(tb.tour, r.player)]),
              !.sessions = Without(@, s)]
  /\ UNCHANGED <<pc, ckpt, histFile>>

(* request_leave: queued while a hand runs; otherwise the seat is vacated at
   once and the route stays until the next rollover. *)
RequestLeave(s) ==
  /\ pc = "up" /\ s \in Routed
  /\ LET r  == reg.sessions[s]
         tb == reg.tables[r.table]
         inHand == tb.hand # NoHand
     IN  /\ inHand \/ EarlyLeaves
         /\ r.seat \in DOMAIN tb.roster /\ tb.roster[r.seat].player = r.player
         /\ s \notin tb.departures
         /\ reg' = [reg EXCEPT !.tables[r.table] =
              IF inHand
              THEN [tb EXCEPT !.leaving = @ \cup {r.seat}, !.departures = @ \cup {s}]
              ELSE Refreshed([tb EXCEPT !.roster = Without(@, r.seat),
                                        !.departures = @ \cup {s}])]
  /\ UNCHANGED <<pc, ckpt, histFile>>

Removable(tb) == tb.hand = NoHand /\ tb.roster = NoRoster

CloseAndRemove(t) ==
  /\ pc = "up" /\ Removable(reg.tables[t])
  /\ reg' = [reg EXCEPT !.tables = Without(@, t)]
  /\ UNCHANGED <<pc, ckpt, histFile>>

Expirable(tb) ==
  Removable(tb) /\ tb.queue = <<>> /\ tb.seatSess = NoRoster /\ tb.departures = {}

(* expire_inactive: every idle empty table at once. *)
ExpireInactive(idle) ==
  /\ pc = "up" /\ idle # {}
  /\ \A t \in idle : Expirable(reg.tables[t])
  /\ reg' = [reg EXCEPT !.tables = [t \in DOMAIN @ \ idle |-> @[t]]]
  /\ UNCHANGED <<pc, ckpt, histFile>>

-----------------------------------------------------------------------------
(* Hands end. *)

SumOf(f) == FoldFunction(LAMBDA x, y : x + y, 0, f)

(* External: the hand ends with some division of the chips dealt in. *)
HandOver(t, final) ==
  /\ pc = "up"
  /\ reg.tables[t].hand # NoHand /\ reg.tables[t].result = Pending
  /\ SumOf(final) = SumOf(reg.tables[t].dealt)
  /\ reg' = [reg EXCEPT !.tables[t].result = final]
  /\ UNCHANGED <<pc, ckpt, histFile>>

ResultsOf(tb) == [DOMAIN tb.dealt -> 0 .. SumOf(tb.dealt)]

Terminal(r) == {t \in DOMAIN r.tables : r.tables[t].hand # NoHand /\ r.tables[t].result # Pending}

(* lifecycle.complete_hand: the result, then the queued departures. *)
Reconciled(tb) ==
  LET settled == [s \in DOMAIN tb.roster |->
                    IF s \in DOMAIN tb.result
                    THEN [tb.roster[s] EXCEPT !.stack = tb.result[s]] ELSE tb.roster[s]]
  IN  Refreshed([tb EXCEPT
        !.roster = [s \in DOMAIN settled \ tb.leaving |-> settled[s]],
        !.leaving = {}, !.hand = NoHand, !.dealt = NoRoster, !.result = Pending])

(* The tournament is charged the time, then the eliminations; the stacks before
   the hand are those of every occupied seat. *)
StacksBefore(tb) == [s \in DOMAIN tb.roster |-> tb.roster[s].stack]
TourAccepts(tb, time) ==
  tb.tour # NoTour => ResultAccepted(Tick(tb.tour, time), StacksBefore(tb), tb.result)

(* Mutant: the clock is charged but the eliminations are not recorded. *)
TourClockOnly(tb, time) ==
  IF tb.tour = NoTour THEN NoTour ELSE Tick(tb.tour, time)

TourAfter(tb, time) ==
  IF tb.tour = NoTour THEN NoTour
  ELSE CompleteTournamentHand(Tick(tb.tour, time), StacksBefore(tb), tb.result)

Unindexed(waits, s) == Without(waits, s)

(* The head of the queue is seated while a seat it accepts is free. *)
AdmitHead(r, t) ==
  LET tb    == r.tables[t]
      entry == Head(tb.queue)
      seat  == SeatFor(tb, entry.request)
  IN  [r EXCEPT
        !.tables[t] = [Seated(tb, r.nextPlayer, seat) EXCEPT
                         !.queue = Tail(@), !.seatSess = With(@, seat, entry.session)],
        !.sessions = With(@, entry.session,
                          [table |-> t, player |-> r.nextPlayer, seat |-> seat]),
        !.waits = Unindexed(@, entry.session),
        !.nextPlayer = @ + 1]

Admissible(r, t) ==
  LET tb == r.tables[t] IN
  tb.queue # <<>> /\ Seatable(tb, Head(tb.queue).request)

(* Mutant: the queue is looked at when somebody asks, not at the boundary. *)
AdmittedNever(r, t) == r

Admitted(r, t) ==
  LET loop[n \in 0 .. Len(r.tables[t].queue)] ==
        IF n = 0 THEN r
        ELSE IF Admissible(loop[n - 1], t) THEN AdmitHead(loop[n - 1], t) ELSE loop[n - 1]
  IN  IF r.tables[t].tour = NoTour THEN loop[Len(r.tables[t].queue)] ELSE r

(* Mutant: the route of a departed session is kept. *)
DepartedKeepingRoutes(r, t) ==
  LET tb == r.tables[t] IN
  [r EXCEPT !.tables[t].departures = {},
            !.tables[t].seatSess = [x \in DOMAIN @ \cap DOMAIN tb.roster |-> @[x]]]

(* Departing sessions lose their route and the session of their seat; so does
   every seat that is vacant now. *)
Departed(r, t) ==
  LET tb   == r.tables[t]
      gone == {s \in tb.departures : s \in DOMAIN r.sessions}
      left == {r.sessions[s].seat : s \in gone}
  IN  [r EXCEPT
        !.sessions = [s \in DOMAIN @ \ gone |-> @[s]],
        !.tables[t].departures = {},
        !.tables[t].seatSess = [x \in (DOMAIN @ \cap DOMAIN tb.roster) \ left |-> @[x]]]

(* A successor hand is due. *)
Continues(tb) ==
  IF tb.tour = NoTour THEN Cardinality(EligibleSeats(tb)) >= tb.cfg.min
  ELSE Cardinality(EligibleSeats(tb)) >= 2 /\ tb.tour.status = "Running"

(* rollover_completed_hand up to the start of the successor. *)
Settled(r, t, time) ==
  LET done == [r EXCEPT !.tables[t] = [Reconciled(r.tables[t]) EXCEPT
                                         !.tour = TourAfter(r.tables[t], time)]]
      seated == Admitted(Departed(done, t), t)
  IN  [seated EXCEPT !.tables[t] = Durable(@)]

RolloverSucceeds(r, t, time) ==
  /\ DOMAIN r.tables[t].seatSess # {}
  /\ TourAccepts(r.tables[t], time)
  /\ LET tb == Settled(r, t, time).tables[t] IN Continues(tb) => Bindable(tb)

Rollover(r, t, time) ==
  LET settled == Settled(r, t, time)
      tb == settled.tables[t]
  IN  IF Continues(tb)
      THEN [settled EXCEPT !.tables[t] = Dealt(tb, settled.nextHand), !.nextHand = @ + 1]
      ELSE settled

(* RingHistoryStore::record, by the identity of the hand. *)
Recorded(history, t, hand) ==
  LET kept == IF Len(history) = HistoryCap THEN Tail(history) ELSE history IN
  Append(kept, [table |-> t, hand |-> hand])

(* finalize_ready_hands, one table after the other in the order of their
   identities; a table whose rollover fails ends the loop. *)
FinalizeOne(x, t, time) ==
  LET recorded == [x.r EXCEPT !.history = Recorded(@, t, x.r.tables[t].hand)] IN
  IF x.ok /\ RolloverSucceeds(recorded, t, time)
  THEN [ok |-> TRUE, r |-> Rollover(recorded, t, time)]
  ELSE [ok |-> FALSE, r |-> x.r]

Finalized(r, time) ==
  LET loop[n \in 0 .. r.nextTable - 1] ==
        IF n = 0 THEN [ok |-> TRUE, r |-> r]
        ELSE IF n \in Terminal(r) THEN FinalizeOne(loop[n - 1], n, time) ELSE loop[n - 1]
  IN  loop[r.nextTable - 1]

WithinBounds(r) == r.nextHand <= HandCap + 1 /\ r.nextPlayer <= PlayerCap + 1

(* The sweep of the maintenance loop; the process ends when it fails. *)
Sweep(time) ==
  LET swept == Finalized(reg, time) IN
  /\ pc = "up" /\ Terminal(reg) # {}
  /\ IF swept.ok
     THEN WithinBounds(swept.r) /\ reg' = swept.r /\ pc' = "swept"
     ELSE reg' = EmptyRegistry /\ pc' = "down"
  /\ UNCHANGED <<ckpt, histFile>>

(* advance_tournament_breaks: the clock of every break is charged; a table whose
   break is over starts a hand, unless a session cannot be bound. *)
OnBreak(r) ==
  {t \in DOMAIN r.tables : r.tables[t].hand = NoHand /\ TourStatus(r.tables[t]) = "Break"}
AfterBreak(r, t, time) ==
  LET tb == [r.tables[t] EXCEPT !.tour = Tick(@, time)] IN
  IF ReadyToStart(tb) /\ Bindable(tb)
  THEN [r EXCEPT !.tables[t] = Dealt(tb, r.nextHand), !.nextHand = @ + 1]
  ELSE [r EXCEPT !.tables[t] = tb]

BreaksAdvanced(r, time) ==
  LET loop[n \in 0 .. r.nextTable - 1] ==
        IF n = 0 THEN r
        ELSE IF n \in OnBreak(r) THEN AfterBreak(loop[n - 1], n, time) ELSE loop[n - 1]
  IN  loop[r.nextTable - 1]

AdvanceBreaks(time) ==
  /\ pc = "up" /\ OnBreak(reg) # {}
  /\ reg' = BreaksAdvanced(reg, time) /\ WithinBounds(reg')
  /\ UNCHANGED <<pc, ckpt, histFile>>

-----------------------------------------------------------------------------
(* The two files. *)

CheckpointOf(r) ==
  [tables |-> [t \in DOMAIN r.tables |->
                 [cfg |-> r.tables[t].cfg, tour |-> r.tables[t].tour,
                  image |-> r.tables[t].durable]],
   sessions |-> r.sessions,
   nextTable |-> r.nextTable, nextPlayer |-> r.nextPlayer, nextHand |-> r.nextHand]

(* After a sweep the histories are written, then the checkpoint; an interrupted
   server writes the checkpoint, then the histories. *)
SaveHistories ==
  /\ pc = "swept" /\ pc' = "saved"
  /\ histFile' = reg.history
  /\ UNCHANGED <<reg, ckpt>>

SaveCheckpoint ==
  /\ pc = "saved" /\ pc' = "up"
  /\ ckpt' = CheckpointOf(reg)
  /\ UNCHANGED <<reg, histFile>>

Drain ==
  /\ pc = "up" /\ Terminal(reg) = {} /\ pc' = "drained"
  /\ ckpt' = CheckpointOf(reg)
  /\ UNCHANGED <<reg, histFile>>

Exit ==
  /\ pc = "drained" /\ pc' = "down"
  /\ histFile' = reg.history
  /\ reg' = EmptyRegistry
  /\ UNCHANGED ckpt

Crash ==
  /\ pc # "down" /\ pc' = "down"
  /\ reg' = EmptyRegistry
  /\ UNCHANGED <<ckpt, histFile>>

(* restore_between_hand *)
ImageRestorable(img) ==
  CASE img.run = "Waiting" -> img.roster = NoRoster \/ ~img.hands
    [] img.run = "Running" -> Cardinality({s \in DOMAIN img.roster : img.roster[s].stack > 0}) >= 2
    [] img.run = "Paused"  -> /\ img.roster # NoRoster
                              /\ Cardinality({s \in DOMAIN img.roster : img.roster[s].stack > 0}) < 2

(* load_checkpoint: every session owns the seat it names, every occupied seat
   has a session. *)
SeatsOwned(c) ==
  /\ \A s \in DOMAIN c.sessions : LET r == c.sessions[s] IN
       /\ r.player < c.nextPlayer
       /\ r.table \in DOMAIN c.tables
       /\ r.seat \in DOMAIN c.tables[r.table].image.roster
       /\ c.tables[r.table].image.roster[r.seat].player = r.player
  /\ \A t \in DOMAIN c.tables : \A seat \in DOMAIN c.tables[t].image.roster :
       \E s \in DOMAIN c.sessions : c.sessions[s].table = t /\ c.sessions[s].seat = seat

SessionAt(c, t, seat) ==
  CHOOSE s \in DOMAIN c.sessions : c.sessions[s].table = t /\ c.sessions[s].seat = seat

RestoredTable(c, t) ==
  LET e == c.tables[t] IN
  [NewTable(e.cfg) EXCEPT
     !.roster = e.image.roster, !.run = e.image.run, !.hands = e.image.hands,
     !.durable = e.image, !.tour = e.tour,
     !.seatSess = [seat \in DOMAIN e.image.roster |-> SessionAt(c, t, seat)]]

RestartsHand(c) == {t \in DOMAIN c.tables : ReadyToStart(RestoredTable(c, t))}

(* start_restored_hands binds every session of a table that starts. *)
Loadable(c) ==
  /\ \A t \in DOMAIN c.tables : t < c.nextTable /\ ImageRestorable(c.tables[t].image)
  /\ SeatsOwned(c)
  /\ \A t \in RestartsHand(c) : Bindable(RestoredTable(c, t))

(* Hands are started in the order of the tables. *)
Earlier(S, t) == Cardinality({u \in S : u < t})
Loaded(c, history) ==
  [tables |-> [t \in DOMAIN c.tables |->
     IF t \in RestartsHand(c)
     THEN Dealt(RestoredTable(c, t), c.nextHand + Earlier(RestartsHand(c), t))
     ELSE RestoredTable(c, t)],
   sessions |-> c.sessions, waits |-> <<>>, history |-> history,
   nextTable |-> c.nextTable, nextPlayer |-> c.nextPlayer,
   nextHand |-> c.nextHand + Cardinality(RestartsHand(c))]

(* validate_payload: a history file with an identity twice is discarded. *)
ValidHistory(h) == \A i, j \in DOMAIN h : h[i] = h[j] => i = j
LoadedHistory == IF histFile = NoFile \/ ~ValidHistory(histFile) THEN <<>> ELSE histFile

Restart ==
  /\ pc = "down"
  /\ IF ckpt = NoFile
     THEN reg' = [EmptyRegistry EXCEPT !.history = LoadedHistory]
     ELSE /\ Loadable(ckpt)
          /\ reg' = Loaded(ckpt, LoadedHistory) /\ WithinBounds(reg')
  /\ pc' = "up"
  /\ UNCHANGED <<ckpt, histFile>>

-----------------------------------------------------------------------------
LobbyRequests ==
  \/ \E cfg \in TableConfigs : CreateTable(cfg)
  \/ \E s \in Sessions, t \in Tables, request \in SeatRequests :
       Join(s, t, request) \/ Wait(s, t, request)
  \/ \E s \in Sessions : CancelWait(s) \/ CancelRegistrationOf(s)
  \/ \E s \in Leavers : RequestLeave(s)
  \/ \E t \in Tables : CloseAndRemove(t)

HandsEnd ==
  \E t \in Tables : reg.tables[t].hand # NoHand /\
    \E final \in ResultsOf(reg.tables[t]) : HandOver(t, final)

Maintenance ==
  \/ \E time \in TickTimes : Sweep(time) \/ AdvanceBreaks(time)
  \/ \E idle \in SUBSET Tables : ExpireInactive(idle)
  \/ SaveHistories \/ SaveCheckpoint

RegistryNext == LobbyRequests \/ HandsEnd \/ Maintenance \/ Drain \/ Exit \/ Crash \/ Restart

RegistrySpec == RegistryInit /\ [][RegistryNext]_rvars

-----------------------------------------------------------------------------
(* Properties. *)

(* RoutesMatchSeats: a session that is routed is the session of the seat it is
   routed to, and the player there, in the running table and in the image kept
   for the checkpoint; every occupied seat has such a session.  So no command is
   applied to somebody else's seat and no dealt seat is without an owner.  The
   checkpoint that would be written at this moment, in the middle of hands or
   between them, and the one on disk, assign every seat to one session, so a
   restart gives every player back the seat.  Players of all tables and hands in
   progress have identities of their own, which were given out, also after a
   restart from an older checkpoint. *)
PlayersOf(t) == {reg.tables[t].roster[s].player : s \in DOMAIN reg.tables[t].roster}
IdentitiesFresh ==
  /\ \A t \in Tables : \A p \in PlayersOf(t) : p < reg.nextPlayer
  /\ \A t \in Tables : Cardinality(PlayersOf(t)) = Cardinality(DOMAIN reg.tables[t].roster)
  /\ \A t, u \in Tables : t # u =>
       /\ PlayersOf(t) \cap PlayersOf(u) = {}
       /\ reg.tables[t].hand # NoHand => reg.tables[t].hand # reg.tables[u].hand
  /\ \A t \in Tables : reg.tables[t].hand < reg.nextHand
RoutesMatchSeats ==
  /\ IdentitiesFresh
  /\ \A s \in Routed : LET r == reg.sessions[s] IN
       /\ r.table \in Tables
       /\ LET tb == reg.tables[r.table] IN
          /\ r.seat \in DOMAIN tb.roster /\ tb.roster[r.seat].player = r.player
          /\ r.seat \in DOMAIN tb.durable.roster
          /\ tb.durable.roster[r.seat].player = r.player
          /\ r.seat \in DOMAIN tb.seatSess /\ tb.seatSess[r.seat] = s
  /\ \A t \in Tables : \A seat \in DOMAIN reg.tables[t].roster :
       /\ seat \in DOMAIN reg.tables[t].seatSess
       /\ reg.tables[t].seatSess[seat] \in Routed
  /\ SeatsOwned(CheckpointOf(reg))
  /\ ckpt # NoFile => SeatsOwned(ckpt)

(* StandingsMatchStacks: of the players seated at a tournament, those the
   controller counts as remaining are those with chips at the last boundary, in
   the running registry and in the file, whatever was lost in a crash. *)
Agree(tour, roster) ==
  \A s \in DOMAIN roster : roster[s].player \in tour.remaining <=> roster[s].stack > 0
StandingsMatchStacks ==
  /\ \A t \in Tables : reg.tables[t].tour # NoTour =>
       Agree(reg.tables[t].tour, reg.tables[t].durable.roster)
  /\ ckpt # NoFile => \A t \in DOMAIN ckpt.tables : ckpt.tables[t].tour # NoTour =>
       Agree(ckpt.tables[t].tour, ckpt.tables[t].image.roster)

(* NoOvertaking: between hands a newcomer gets a free seat at once, so whoever
   is at the head of a ring table's queue must not be left waiting beside a free
   seat that the entry accepts: not by a rollover that frees seats and admits,
   not by anybody's joining, waiting or leaving, not by a restart.  The exception is
   that the head gives up: cancel_wait removes the entry and admits nobody, and
   until the next boundary newcomers pass the one who was behind it. *)
LeftWaiting(r, t) ==
  LET tb == r.tables[t] IN
  tb.cfg.tour = NoTour /\ tb.hand = NoHand /\ Admissible(r, t)
HeadGaveUp(t) ==
  LET queue == reg.tables[t].queue IN
  queue # <<>> /\ Head(queue).session \notin DOMAIN reg'.waits \cup DOMAIN reg'.sessions
NoOvertaking ==
  [][ \A t \in DOMAIN reg'.tables : LeftWaiting(reg', t) =>
        t \in Tables /\ (LeftWaiting(reg, t) \/ HeadGaveUp(t)) ]_rvars

(* SweepSucceeds: the sweep reconciles every hand that ended ("exact-once across
   history, tournament standings, and successor hands"). *)
SweepSucceeds ==
  pc = "up" => \A time \in TickTimes : Finalized(reg, time).ok

=============================================================================
