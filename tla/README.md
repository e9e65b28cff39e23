# OpenFelt: a verification development in TLA+

OpenFelt (crate root `src/`, code in `src/src/`) is a terminal poker platform:
a deterministic no-limit Hold'em hand authority for two to nine seats, a
versioned command protocol around it, per-table runtimes, a registry of many
tables with persistence, single-table tournaments, a network server and its
clients, a trainer with coaching and solver workers, and quick practice.

The modules in this directory model the parts that decide something: which
command changes a hand, who sits where, who gets which chips, who is told what,
what survives a crash, and which answer belongs to which question. TLC checks
them on small instances; TLAPS proves the most important properties for every
value of the constants. `PROJECT.json` has the complete list of runs, of the
lines each definition stands for, of hazards and of theorems.

Contents: 1 the system, 2 the modules, 3 the runs, 4 the proofs, 5 what was
found, 6 what is not modelled, 7 what is left.

## 1. The system

| Part | State | Operations | Correct when | Modelled by |
|---|---|---|---|---|
| Hand authority (`game/multiway.rs`, `multiway/showdown.rs`) | per seat stack, street and total contribution, participation, last wager acted on; seat to act, wager, last full raise; showdown progress, pots, awards | construct with antes, blinds and re-entry posts; six actions; showdown preference; one showdown step | chips neither vanish nor appear, pots go to tabled hands, full raises reopen, nothing is shown early, every step leads forward | `MultiwayHand`; offers and projections in `PolicyActions`, `HandViews` |
| Protocol authority (`protocol.rs`) | hand identity, revision, hand, bounded command ledger | submit (client or server), advance showdown, next hand | a command is decided once, on the revision its sender saw, and retries hear the same decision | `ProtocolAuthority`, abstractly `CommandLog` |
| Table lifecycle (`game/lifecycle.rs`, `table.rs`, `seat.rs`) | seats, reservations, queued requests, run state, hand snapshot, button | reserve, occupy, join, missed blind, return, leave, begin and complete hand, close, checkpoint, restore | a hand keeps its roster, chips move only with their owner, departures happen | `TableLifecycle` |
| Table actor (`table_actor.rs`) | the authority behind a mailbox | submit, snapshot, showdown step, shutdown | – | the synchronous calls of `AuthorizedTable` |
| Authorized table (`authorized_table.rs`) | bindings, logical time, deadline, subscriptions, accepted events | bind, submit, subscribe, disconnect, reconnect, advance time, showdown pacing | one deadline per decision, never early and never extended; complete history; gap-free streams | `AuthorizedTable` |
| Table registry (`table_registry.rs`, `lobby.rs`) | tables with runtime and durable image, routes, waiting lists, histories | create, join or wait, cancel, leave, rollover, breaks, checkpoint, restore, close | routes, seats, queues, standings and the checkpoint agree | `TableRegistry` |
| Tournament (`tournament.rs`) | entrants, level, clock, breaks, standings | register, start, tick, complete hand | places and payouts exact | `Tournament`, `TournamentTable` |
| Credentials and admission (`credentials.rs`, `admission.rs`) | verifier store with expiry | issue, rotate, revoke | a credential opens one connection | `Connections` |
| Network server and transport (`network_server.rs`, `network_transport.rs`, `game_stream.rs`) | worker threads, active sessions, buffers | accept, admit, welcome, serve, clean up; single-table mode; framing | cleanup never hits a newer connection; frames arrive whole | `Connections`, `RemoteTable`, `FixedTable`, `Framing` |
| Network client (`network_session.rs`, `network_client.rs`, `bin/poker_client.rs`) | projection, cursor, pending command | apply message, command, resynchronise, reconnect | the terminal shows the table; a command is settled | `ProjectionClient`, `RemoteTable`, `GameClient` |
| Ring histories (`ring_history.rs`) | bounded store of finished hands | record, save, read safely | nothing hidden is told | `TableRegistry`, `HandViews` |
| Rules primitives (`game/hand.rs`, `state.rs`) | the heads-up engine, hand strength | act, settle, rank | two-seat games settle, strengths agree with a reference | `HeadsUpGame`, `CardStrength` |
| Local practice and trainer (`local_practice.rs`, `trainer/`) | cash session, coaching and solver jobs, archive, drills, staged update, keys | play, ask, cancel, save, review, install | every review belongs to its decision, books balance, an executable survives | `TrainerSession`, `TrainerDesk`, `PracticeTable`, `RiverPractice`, `RiverReview`, `ReplayBrowser`, `CloudCoaching`, `Updater` |
| Policy training (`training/`) | deals, episodes, worker results | observe, answer, evaluate | policies stay legal, deals are as planned | `PolicyActions`, `TrainingRuns` |
| Bots and statistics (`bot/`, `stats/`) | counters, sessions | count, record | counters and records agree with the games | `HeadsUp`, `CardStrength` |
| Terminal interfaces (`ui/`, `bin/`) | routes, pending event, window focus | keys, timers, focus worker | no dead end, no key lost to a worker | `HeadsUp`, `Shell`, `GameClient`, `TurnAttention` |
| Review and evidence tools | – | print scripted trajectories | – | not modelled |

How they interact. The registry keeps one `TableLifecycle` per table.
`begin_hand` gives a `HandStart`, from which a `MultiwayHand` is built; a
`ProtocolAuthority` owns it, an actor thread owns that, and the authorized
runtime wraps it with sessions, deadlines and subscriptions. Connection threads
submit for a session and forward its subscription to a socket; the terminal
behind it keeps a projection of its own. When a hand is terminal the maintenance
loop reconciles the stacks into the lifecycle, tells the tournament, admits
waiting players, replaces the authority and publishes a between-hand image for
the checkpoint. The trainer and quick practice run the same hand in one process.

What is hard here: betting rules whose exceptions add up over several actions
(short all-ins, options, side pots, odd chips); commands that are repeated,
delayed past their revision or hand, against a bounded ledger; requests made in
a hand that take effect at its end; restarts that lose everything after the last
boundary; deadlines racing late commands; sockets that die while their worker
still runs and their guest is back already; coaching and solver answers that
arrive for a decision that is over; file operations of which any may fail.

## 2. The modules

Every operation of the code that changes state is one action, with everything
its handler does; values that have methods in the code (a hand, a session, a
controller) are records, and each method is an operator from record to record
with the method's name. An operation that returns an error and changes nothing
has no action. Operators introduced by a comment that starts with "Mutant" are
deliberately wrong variants of the definition below them; no specification uses
them, and putting one in its place makes the named property fail.

**The table.**

* `MultiwayHand` – `hand` is the struct; `NewHand` is `with_prepared_deck` with
  antes, blinds, forced posts and the automatic advance; `Acted`, `AfterAction`,
  `AdvanceStreet`, `BeginShowdown`, `TableNextHand`, `ResolveShowdown`,
  `AwardFold` follow the methods of these names. Cards are abstracted to the
  strength of each seat's final hand. `fullRaise` is a history variable.
  `PolicyActions` adds what seats and policies are offered, `HandViews` what is
  projected and concluded from a hand. Both are operators over the same variable.
* `ProtocolAuthority` – the hand is an arbitrary deterministic machine given by
  `ApplyCommand` and `AdvanceHand`. Any envelope may be submitted at any time and
  any number of times, which is what a network that loses, repeats, delays and
  reorders, and clients that retry, amount to. `events` and `applied` are
  history variables. `CommandLog` is what controllers are promised.
* `TableLifecycle` – one action per public operation; a completed hand may
  report any division of the dealt chips; `Restart` is a checkpoint at a
  boundary followed by its restore.
* `AuthorizedTable` – the runtime's worker: one action per request, with the
  authority of `ProtocolAuthority` inside, so that `SubmitAccepted` and
  `TickExpires` are its `AcceptCommand` followed by the rescheduled deadline, the
  kept event and the broadcast, in one step as in the worker. A receiver may
  drain late or be dropped. `turnStart` and `warnings` are history variables.
* `TableRegistry` – `reg` is the registry behind its mutex, `ckpt` and the
  histories what a crash leaves. The sweep is the maintenance loop's: rollover,
  admission, advance of breaks. `Tournament` is a value inside it;
  `TournamentTable` drives one controller through a whole tournament. The
  two sorts of `tournament.rs` are `InOrder`, the sequence in which every element
  comes before those it goes before.

**The network.**

* `Connections` – one worker thread per socket, from accept through admission,
  route, rotation of the credential, binding and welcome to the cleanup by drop
  guards, interleaved with clients that come back; the vault of verifiers.
* `RemoteTable` – terminal, connection thread and runtime joined by a byte
  stream in each direction; `ProjectionClient` is the terminal's value.
* `FixedTable` – the single-table server; `Framing` – one connection byte by
  byte; `GameClient` – the tournament player's program.

**On the player's computer.**

* `TrainerSession` and `TrainerDesk` – the cash session and the loop around it
  with its workers, books and files; `past` is a history variable. `CloudCoaching`, `RiverPractice`,
  `RiverReview`, `ReplayBrowser` – the machines beside it.
* `Updater` – one action per file operation of a worker (`locate` to `discard`),
  any number of workers of which the program holds a handle of at most one;
  `follows` tells Linux from macOS and Windows, `mishaps` is a history variable.
* `PracticeTable` – quick practice; `HeadsUpGame`, `HeadsUp` – the two-seat
  program; `Shell` – the routes of the start screen; `TurnAttention` – the
  window that is called to a turn; `TrainingRuns` – deals, evaluations and
  benchmarks; `CardStrength` – rankings, draws, ranges.

`MC*` modules instantiate these for TLC. `MCLocalPrograms` holds the fifteen
machines that have no part in the multi-table server (trainer, heads-up, quick
practice, updater, river practice, replay, tournament, tournament client,
training runs, cards, river review, fixed table, framing, cloud keys, turn
attention). They are independent programs: the variable `machine` is chosen in
the initial state and says which of them runs, so the run is their disjoint
union and no interleaving of two of them is explored or needed.

`*Proofs` modules hold the theorems; `ChipSums` has the lemmas about sums of
chips over a finite set that they share. `TableLifecycleProofs` is about both tables
that deal hand after hand, the server's (`TableLifecycle`) and the one of quick
practice (`PracticeTable`); `PlayerProgramsProofs` is about the other programs on
the player's computer.

## 3. The runs

| Run | Question | Bounds |
|---|---|---|
| `hand_play` | `AwardsEarned`, `FullRaiseReopens`, `NoEarlyExposure`, `HandAdvances`; that policies answer legally (`PoliciesStayLegal`) and that clients, observers and coaches are shown the truth (`ViewsHonest`) | 2–4 seats, stacks 1, 3, 5, ring blinds 1/2 and a level with an ante, debts at ring blinds with at most 3 seats, two strengths, one seat that changes its preference |
| `protocol_retries` | `AppliedOnce`, `RetryNeverContradicts`, `DecidedOnWhatWasSeen`; refinement of `CommandLog` | 2 client, 1 server, 1 malformed identity, ledger of 2, 2 hands of 2 revisions |
| `lifecycle_roster` | `LeaveHappens`, under fairness | 2 seats, 3 players, every operation |
| `lifecycle_boundary` | `HandRosterIntact`, `ChipsMoveOnlyWithSeats` | 3 seats, 3 players |
| `table_streams` | `SubscriberIsCurrent` | 2 sessions, a decision and a showdown, buffer of 2 |
| `table_clock` | `ClockNotExtended`, `NoEarlyTimeout`, `HistoryComplete`, `TurnEnds`; refinement of `ProtocolAuthority` | 1 session, two decisions of two ticks, ledger of 2 |
| `registry` | `RoutesMatchSeats`, `StandingsMatchStacks`, `NoOvertaking` | 3 sessions, a ring of 2 and a heads-up tournament, crashes and restarts |
| `registry_bust` | `SweepSucceeds`: **violated** | a ring of 3 |
| `client` | `CaughtUp`; `CommandDecided`, under fairness | 2 hands of 2 revisions, buffer of 2, 1 drop, 1 snapshot request, 2 commands |
| `network` | `CleanupIsExact`, `CredentialsSingleUse` | 2 clients, 2 workers, 3 guests, 2 live credentials, vault of 2, 2 hands |
| `local_programs` | one property for each of the machines above | see below |
| `shell` | `EscLeadsHome`: **violated** | 3 characters, 4 stacks |

**Why the bounds are enough.** A stack of 1 cannot post the big blind (and an
ante exhausts it), 3 can open but not raise fully, 5 can raise: seats with these
stacks produce short all-ins, calls for less, two side pots and unmatched excess;
four seats are needed for layers funded by a folded poster; two strengths give
every order of two hands. A ledger of two with three usable identities meets the
full ledger in every order. Tables of two and three seats tell the heads-up rules
from the ring rules. `ChipCap` bounds the chips brought to a lifecycle table, and
hand numbers saturate at `HandCap` since the code only asks whether a hand was
ever started. A buffer of two instead of four is full after one unread update
besides the first. Ticks matter only against the warning and the due tick, so a
timeout of two with a warning at one has a tick before, on and between them, and
`MaxLate` adds one after. `MaxStream`, `MaxRevision`, `MaxHands`, `MaxDrops`,
`MaxSnapshots`, `MaxCommands`, `PlayerCap`, `TableCap` bound what could be
repeated for ever. In the registry a third session is the one that waits or
passes; `EarlyLeaves` is off there because a departure that is requested before
the hand of a rolled-over table begins is one of the observations of section 5.
With two workers and two clients the worker of a lost socket meets the newer one
of its own guest and that of another guest.

Local programs: two hands of the trainer with one coaching request, one solver
request and at most two actions a hand, one cash event and a last rebuy (`MaxCash`), started with all the
help or on a first run with none; other settings are saved once (`SettingsChangeOnce`), for three seats, so
that a next hand can be refused, and in a first setup for two, since the session of the
model has two, and before a second hand is dealt; once coaching is local, which no saved setting takes back, the
API keys are left alone (`KeysLeftAlone`); two hands of heads-up; three of quick
practice, with two deadline warnings that fill the buffer of two before the
learner acts; six release lists and two installations over an installed version 2
for the updater (the newest only once the one before is installed, `NewestLater`), on Linux with a backup an earlier update left and on macOS
or Windows without, the second installation also beside a worker of the first that was
given up, with a kill or a failure at every file operation; three edits and two
requests for the cloud keys; river-only wagers for the review; first decisions that lead to
showdown and three connections for the fixed table; two-byte headers, payloads
of at most two bytes, a buffer of 8 and socket room for 4 for the framing, where
what counts is that reads and writes can stop inside a header, inside a payload
and between frames; two turns for the window; small decks for the cards.

Sessions, players, clients and workers are symmetric in the safety runs; symmetry
is never used with liveness. Deadlock checking is off where a behaviour really
ends: a settled hand, a protocol after its last hand, a closed table, a program
the user left.

**Fairness.** `lifecycle_roster` assumes that a hand that was begun ends
(`FinishHand`), which section 3's `HandAdvances` and `TurnEnds` justify.
`table_clock` assumes that whoever owns the logical time reports it while the
runtime runs (`TickOn`); players need not do anything. `client` assumes that the
clock acts for the other seats, that threads run, that bytes arrive and that the
terminal polls. `HandAdvances` needs no fairness: it is a ranking.

Only TLC checks the three liveness properties and four of the fourteen properties
of `local_programs` (`HeadsUpSound`, `HeardAndToldTruly`, `DealtAsPlanned` and
`JudgedAsPlayed`); section 4 says why.

## 4. The proofs

Each theorem is about the specification with arbitrary constants. Every inductive
invariant was checked by TLC on an instance before it was proved.

| Theorem | Property | For all |
|---|---|---|
| `ProtocolAuthorityProofs!TypeCorrect`, `AtMostOnce`, `RetrySafe`, `RevisionsName`, `NeverOnStaleState`, `LedgerStaysBounded`, `Implements` | types; `AppliedOnce`; `RetryNeverContradicts`; revision *n* names the *n*-th event; `DecidedOnWhatWasSeen`; the ledger's capacity; `ImplementsCommandLog` | identities, payloads, hand machines, ledger sizes, numbers of hands and revisions |
| `AuthorizedTableProofs!ClockCorrect`, `TimeoutsAreDue`, `HistoryIsWhole`, `RuntimeRefines`, `DeadlinesAct`, `SubscribersStayCurrent` | `ClockNotExtended`; `NoEarlyTimeout`; `HistoryComplete`; `ImplementsAuthority`; a due deadline fails only on a full ledger; `SubscriberIsCurrent` | hand machines, sessions, seats, timeouts, warnings, buffer capacities |
| `TableLifecycleProofs!RosterKept`, `ChipsStayWithSeats` | `HandRosterIntact`; `ChipsMoveOnlyWithSeats` | table sizes, identities, buy-ins |
| `ConnectionsProofs!CleanupExact`, `CredentialsOpenOnce` | `CleanupIsExact`; `CredentialsSingleUse` | clients, workers, guests, credentials, hands, restarts |
| `ConnectionsProofs!EverySeatServed` | `SeatsServed` | sessions with and without a seat, connections, connection limit, buffer, drops and hands |
| `TableRegistryProofs!RoutesAlwaysMatchSeats`, `StandingsAlwaysMatchStacks`, `NobodyIsOvertaken` | `RoutesMatchSeats`; `StandingsMatchStacks`; `NoOvertaking` | sessions, tables, seats, configurations, crashes and restarts; leaves asked for in hands |
| `TableRegistryProofs!StandingsAreExact` | `StandingsExact` | entrants, blind structures, pools, payout plans, stacks, divisions of every hand, times |
| `PlayerProgramsProofs!ShowsTheTable` | `CaughtUp` | revisions, broadcasts, hands, commands, drops, snapshot requests, buffer places |
| `MultiwayHandProofs!HandsStayHidden`, `RaisesReopen`, `AwardsAreEarned`, `HandsAdvance`, `PoliciesAreLegal`, `ViewsAreHonest` | `NoEarlyExposure`; `FullRaiseReopens`; `AwardsEarned`; `HandAdvances`; `PoliciesStayLegal`; `ViewsHonest` | up to nine seats, stacks, blinds, antes, debts, cards |
| `PlayerProgramsProofs!UpdateSafe`, `WindowReleased` | `ExecutableSurvives`; `WindowLetGo` | platforms, releases, installed versions, installations and workers; turns |
| `PlayerProgramsProofs!ReviewsKnowTheirDecision`, `BooksAlwaysBalance` | `ReviewsBelong`; `BooksBalance` | buy-ins and blinds, hands, decisions, jobs, settings, first runs, withdrawals; a table of two |
| `PlayerProgramsProofs!CloudStaysWithinTerms` | `CloudWithinTerms` | budgets, prices, size limits, keys, stores that fail, edits, bodies and answers |
| `TableLifecycleProofs!PracticeAlwaysAddsUp` | `PracticeAddsUp` | seatings, stacks, buffer, hands, events and warnings |
| `PlayerProgramsProofs!BrowsingKeepsResults` | `ReviewKeepsResults` | hands, decisions, records amended or cut off, questions and practice sets |
| `PlayerProgramsProofs!SolutionsAreSelected` | `ShownIsSelected` | scenarios, combinations, actions, worker threads |

**The authority.** `Inv` adds `AppliedRetained` to the properties: every applied
command of the current hand is in the ledger with its fingerprint and outcome,
and every applied command belongs to this hand or an earlier one. Without it
nothing connects the history to the ledger that guards it, and `AppliedOnce` is
not inductive. The ledger bound needs in addition that the recorded identities
are finite and grow one at a time. The refinement is step by step: an accepted
command is a decision of the log, a showdown step grows it, everything else
stutters. Assumptions: `ProtocolAssumption` (the hand machine is total and
deterministic, identities are finite, the showdown event's identity is its own)
and `NullAssumption`.

**The runtime.** `ClockInv` is the property with `ClockTypes` and that the
deadline names the seat to act. One lemma per kind of step: a decision that
begins, steps that leave hand and deadline alone, and the others; the interesting
one is an accepted preference, which leaves the deadline alone and is sound only
because it does not move the turn (`HandAssumption`, which `hand_play`'s
`SetAlwaysShow` satisfies). `LogInv` adds the types of the log of applied
commands. `HistoryComplete` is inductive as it stands. `LedgerInv` counts: a
decision that was timed has cost an entry of the ledger before the next begins,
so the identities of the clock's commands last as long as the ledger does; the
refinement and `DeadlineInv` (the identity of a pending deadline's command was
never used) rest on that. `StreamInv`: what a subscriber was delivered, read or in its
buffer, is gap-free and ends with the present revision, deadline and place in the
stream. Assumptions: `RuntimeAssumption` (types, a warning no longer than the
timeout), `AbsenceAssumption` (`Null` is no deadline and no update),
`HandAssumption`.

**The roster.** `HandRosterIntact` does not say of a seat outside the hand that
it is not marked as dealt when its stack is not that of a snapshot it is not in;
`RosterInv` adds that (`OnlyDealtMarked`) and the types. The steps that matter
are those that change seats while a hand runs. `ChipsStayWithSeats` follows step by step: an
occupation adds the stack it brings, a departure takes the stack it removes, the
completion of a hand changes the dealt stacks by a division of the same sum, and
everything else leaves the function from seats to stacks alone.

**The registry.** `RegistryInv` has three parts. Of every table (`TableFits`):
its seats are those of its configuration, the sessions of its seats and the
departures that are queued fit, and a controller knows the seated players by
their seats and counts those with chips. Of the registry around the tables
(`Sound`): routes and seats lead to each other (`Routing`), a player is one person
at one seat with a number below the next (`Persons`), no two tables run hands of one
number (`HandsNumbered`), and whoever waits is in one queue, once, and not seated
(`Queues`). Of what outlives a crash (`AllImaged`, `FileFits`): the image of a table
has the players and stacks of its last boundary, and the file what a registry loaded
from it needs; without that no restart preserves anything. Each operation is
shown first for its table, then for the registry. The loops over tables, ticks and
the queue are functions on `0 .. n`, and what holds after the last pass holds
because there is no first pass after which it fails. `NoOvertaking` is a step
property: `NobodyPassed` is proved for every action next to the invariant, since a
rollover that frees seats admits until the head cannot be admitted. Assumptions:
`RegistryAssumption` (types, valid configurations, positive stacks) and
`EarlyLeaves = FALSE` for the reason given in section 5: with a leave between hands
`RoutesMatchSeats` is false.

**The tournament.** `StandingsExact` has three parts with an argument each, and
`CupInv` says what they need of every controller a tournament goes through.
*Places*: the standings are always the last places in order, as many as players are
out (`Played`); a hand appends one row for each seat that lost its last chips, and
there are as many of those as players out because seats belong to one player each
(`HandRanks`). *Payouts*: the fractions the whole shares leave out add up to a whole
number of chips (`FractionsMakeUp`: the shares add up to 10000 basis points), fewer than
there are fractions, so that each of those chips goes to a place of its own that has a
fraction to round up (`FavouredHaveFractions`), nobody is a chip off and all of the pool
is paid (`AwardsAddUp`). *Clock*: a tick is a number of passes of the loop, each of which
uses time; the first pass of the whole time is either the first pass of its first part,
or that part is used up inside a level or break and the rest goes on where it stopped
(`PassCut`). What remains to be passed decreases, so the least time for which the two
ways of charging differ does not exist (`TimeAddsUp`). Assumption:
`TournamentAssumption` (types; `ValidTournament` is a guard of the model).

**Sums.** The lemmas of `ChipSums` say that a sum over a finite set exists, is what
the fold of the community modules computes, and splits, moves one element and
agrees as it should, that sums can be exchanged and reindexed, that a finite set
ordered by distinct keys is numbered without gaps (`RankOnto`, for the show order and
the odd chips), and that steps of a staircase add up to its height (`SumSteps`,
for the layers of the pots). They need induction over finite sets, which the
prover does not have; each is proved by its smallest counterexample instead, a part
of the set of least cardinality for which it fails (`SmallestPart`).

**Connections.** `CleanupInv` follows each worker through its stages: a worker
that owns its guest has it in the set of active sessions, no two workers own the
same guest, no worker holds a handle of a hand that was not dealt, the runtime
counts bound guests as connected, and a queue place or a registration has a
worker that came through the lobby and has yet to clean up. `Credentials` adds
that the vault has one credential for a guest and that no credential in it was
rotated before.

**The single-table server.** `ServerInv` speaks of threads by their phase. While the
process runs, a session is active exactly when one thread past admission is its own
(`Exclusive`); a thread that has reconnected serves a seat that is online (`Present`);
a subscription leads to a thread of its seat that is serving or about to leave
(`Fed`). The last two need the first: a clean-up takes a seat offline, which is
harmless only because no other thread of that seat is past admission. `Ending` says
of the thread that stores the end of the hand, from its response to the flag, that
the hand is over and the revision it carries is the last, so that whoever reads the
flag reads the final revision with it. Most steps move one thread (`Moves`) and fall
under one lemma, `MovedOn`; a step of the table is that followed by a broadcast, which
only ends subscriptions (`BroadcastStep`). Assumption: `FixedAssumption` (a stranger
has no seat, and "over" is not the name of a seat).

**The terminal.** `SyncInv` compares every place where the table's state is
written down: the table, the updates in the subscription's buffer, the messages
on the wire, and the client. Those facts are ordered by their place in the stream as
by their revision (`InSync`), snapshot answers are never newer than what they were
taken from, and while the subscription lasts every place past the client's is on
its way in order (`Streaming`). When nothing is under way the client's place is therefore
the table's, and so is its snapshot.

**The hand.** `HandInv` says of every hand that it is betting, in a showdown or
over (`InBetting`, `InShowdown`, `Over`), with the types of the record, the board
that belongs to the phase, nothing shown while betting, a complete betting round
in a showdown, and `Reopens`: a seat with a full raise to answer acted last on a
wager that the present one exceeds by a full raise. Each method of the pipeline
(`Acted`, `AfterAction`, `AdvanceStreet`, `BeginShowdown`, `TableNextHand`,
`ResolveShowdown`, `AwardFold`) has a lemma from one kind to another, and an
action is their composition.

**The chips of a hand.** `AwardsEarned` speaks of a settled hand; `Worth` says what
has to hold before. While there is betting (`Stakes`): the chips add up; no seat
has bet more than the wager, which a seat still in the hand has bet in full; who
can still bet has put in, before this street, what everybody else has who can bet
or holds the wager, but for the one chip of a dead small blind (`Even`); and no
folded seat put in more than every seat still in (`Covered`), so each layer of the
pots has somebody to win it. `Even` is why a fold keeps `Covered`: whoever folds owes at least
one chip. In a showdown (`Showing`): the hands shown or mucked are a prefix of the
show order, and each mucked one is beaten in every pot it could win. The settlement then
is arithmetic on finite sums: contributions are cut into layers, a layer is the sum of
its contributors' slices, its shares add up to it whatever the odd chips, and what a seat
receives is at most the layers it reached, which is what was matched.

**Progress of a hand.** `HandAdvances` needs of `Worth` that whoever is to act has
something to decide (`Turn`), that who has answered the wager has matched it
(`Honoured`), and that the show order has every eligible seat once (`Showing`): an
action then takes a seat out, raises the wager or adds a seat that answered it, and
a showdown step tables or mucks a hand that was neither.

**Offers and views.** `OfferExact` shows that `legal_actions_for` tells a seat in
its turn exactly what the validation accepts (`Offers`): fold or check but never
both, the exact call, the range of a bet or of a raise, and an all-in whenever a
sized wager is allowed. The policies, the campaign, the client's rules, the keys,
the raise editor, the opponents and the coach only read that offer, and each has a
lemma from `Offers` to accepted commands. The amounts also stay within the chips in
play, by `Balanced` and `Level`. That the pot a caller plays for is what the
caller can win is the staircase of the pots again: up to the least of what the caller
and the richest other seat have in, every layer is contested, and above it the
caller has no part in a pot (`PotsForByLayer`).

**The updater.** `UpdaterInv` is, besides types: what is offered or at the files is
newer than what runs, and no worker outlives the process (`OnlyNewer`); until two
workers cross, one is at the files (`OneAtFiles`); where the path follows a rename
and until two workers are alive, one is, and it found the executable
(`OneFollows`); what each step of a worker finds on disk (`Swapping`); and the
property. A step of a worker that is alone at the files disturbs no other
(`WorkerKeeps`). The property has two exceptions, both kept in `mishaps`, which
a start of the program empties. Esc drops the handle of a worker and not the worker
(`trainer/tui.rs:407`), so a second one may reach the files before the first has left
them; with both writing `.openfelt.new` and renaming the same three names nothing
is promised. And an install that begins after a failed restore removes the backup,
by then the only copy (`update.rs:553`): on macOS and Windows the next try does, since
the path of the running program is the old one; on Linux, where the path follows
the rename, it takes a worker that was past the check of the path already.
`follows` says which platform it is, and the theorem is about both. `NewestExists` and
`OffersAreNewer` are about the choice of a release from a list of any length; the
shortest prefix without a newest release replaces the induction. Assumptions: the
running version is a positive number, release lists are lists of releases
(`ReleasesListed`), and the number of installations is a natural number.

**The window.** `WorkerInv`: at most one worker is alive and the gate is shut
exactly while one is. `WindowInv`: where the window ends once every request is
carried out, and that the game knows whether it raised it.

**The desk.** `ReviewInv` says of every job, current or retired, that its decision is
one of the running session, of every record that its review is about its decision,
and of the panel that what it shows is about the decision of the pause and comes from
where it says. Since a session that is reset takes its jobs along, hand and revision tell
the decisions apart, and a late answer finds its record or none. That joining the
records of all hands keeps this (`RecordsFiled`) is again shown by the first place where
it would not. `BooksInv` has three parts. The account: a hand that ends is settled at
once, its profit is what the learner has more than at the opening, and the cash entries
are the rest (`OpenAccount`, `AccountFits`); a hand is filed once. The books: the log on
disk is the beginning of the session's (`LogFits`), the totals are what was accounted
for (`TotalFits`), and the archive has each snapshot (`ArchiveFits`). A save writes any
part of both and keeps that; a late review changes a hand that was saved and marks the
books as changed. The books do break in two ways, and `past`, a history variable,
measures both, so that the property can say what holds then: rebuys that were
logged for a hand that was refused (`past.unpaid`: entries without chips), and
the entries and hands the session before a first setup had saved (`past.cash`,
`past.hands`: as many of the new session's first entries are never written, and
the archive is not looked at while the counts agree). Every part of `BooksInv` is
stated relative to it, and the theorem needs nothing but `SessionAssumption` and
`DeskAssumption` (types, and that "none" is no decision and no review).

**The cloud coach.** `CloudInv` says of every place where a key may be – typed, stored,
in the environment, on its way with a call – that it is held for the provider it was
entered for, and that what was reserved is the sum over all calls ever begun, whatever
became of them. Costs are never given back, so the sum only grows and each call was
checked against the budget it left. Assumption: `CloudAssumption` (prices and limits are
naturals, and the connection test asks for no more output than a review may, 16 against at least 128 in the code).

**The browser.** `ReplayInv`: the table's copy of the drill results is behind the file
only while the browser is open, when the table writes nothing but what it failed to write
before, and the reader stands on a
hand of the archive and, in its detail, on a decision of that hand. A record
that names a questionable decision it does not have would break the latter, so the
archive is shown to hold only records that fit (`FitRecords`), amended ones included;
that `Load` returns records of the archive needs that the first places of its hands can be
listed in order, which is shown by the smallest set of places that cannot (`PlacesListed`).
Assumption: `ReplayAssumption` (types, and "closed" is no view).

**River practice.** `RiverInv`: at most one thread is past the gate, an answer is a
thread's own scenario or none, and of an open screen that it waits for a worker exactly
while it has neither a solution nor an error, and that this worker solves what is
selected unless a restart is queued. A worker that was told to stop may still answer;
what it sends is taken with the restart, which throws it away. Assumption:
`RiverAssumption` (types, at least one scenario and one action).

**Quick practice.** `ScreenFits`: what is queued for the screen carries on place by
place from where its client is and never goes back to an older revision; while the
subscription stands it ends where the runtime is. So every update is applied and none
is refused for a gap (`AllIsShown`), and after an answer, which is where the runtime
is, what is queued behind it is known already (`NothingIsNew`). `SessionInv` is about the
books: each settled hand is followed by one with its final stacks, and the next
button is the nearest seat around the table that has chips (`ButtonPassesNobody`). The
proof did not go through for the model as it was: an event that finds the buffer
full ends the subscription also when it is the learner's own action, and the model
forgot that. With one deadline warning a session TLC could not see it, with two it can, and
the bound is two now. Assumption: `PracticeAssumption` (types, someone is seated, a
stack is not empty, and no pending command is the null one).

**What is only model-checked, and why.** `LeaveHappens`, `TurnEnds` and
`CommandDecided` are liveness.
`HeadsUpSound`, `JudgedAsPlayed`, `DealtAsPlanned` add up what a
recursion computes, or compare a computation with a reference.
`HeardAndToldTruly` has not been attempted.

## 5. What was found

Two runs end in a violation of something the repository says:

* `registry_bust` – a seat whose stack reached zero stays occupied and its
  session stays in `seat_sessions`, but `begin_hand` does not deal it in. Binding
  that session to the successor runtime fails, `rollover_completed_hand` returns
  the error, and the server's loop ends with it (`table_registry.rs:1441`).
* `shell` – every overlay overwrites the one remembered route, so settings opened
  from the help screen leave a help screen that returns to itself, and Esc leads
  home no more (`ui/shell.rs:133`, against `ui/shell.rs:561`).

The following was met while modelling. The models have this behaviour; where a
property would say otherwise, it names the exception.

*Table and registry.* A waiter for the big blind is never dealt in at a table
with two others, since its hypothetical button is itself or the seat before it;
the same promotion forgives a debt of both blinds. A table that played, emptied
and was joined again has an image that `restore_between_hand` rejects, and with
it the whole checkpoint. With the ledger full the clock's own command is refused,
and the seat stays to act (`DeadlinesAct` proves that this is the only case).
`advance_time` has no caller in the single-table mode: a silent player blocks
the hand. A leave requested between hands makes the checkpoint unloadable, and
an early leave's pending departure can remove the next occupant's session
(`EarlyLeaves` is FALSE in the run for this reason). A crash between history and
checkpoint repeats a hand identity, and one of the two histories is dropped.
Waiting entries of a tournament are never admitted, and newcomers pass them; a
request for a seat out of range blocks the head of a queue; when the head cancels,
whoever was behind it stays beside a seat it accepts until the next boundary, and
newcomers pass (`table_registry.rs:1077`, against the FIFO of
`table_registry.rs:890`; `NoOvertaking` excepts it: the proof found the case, which
needs a fourth session); a join at a table
with a busted seat fails; a failed start after a break leaves a tournament
running without a hand.

*Network.* A reply that arrives with nothing pending ends the terminal
(`ResponseCommandMismatch`, `network_client.rs:294`). A full buffer ends a
subscription but leaves the connection open and silent. A drop in a hand,
followed by a rollover, makes the welcome fail with `IdentityChanged`. The
credential is rotated before the handle reconnects. An eliminated player never
gets the final update. After a crash a credential that was already rotated works
again. A registration restored from a checkpoint has no connection that would
give it up (`CleanupIsExact` excepts it). A ring seat that was joined but not
started keeps its place without a credential when its socket drops. A burst of
more than 256 KiB of whole frames closes a connection, and a frame cut off at the
close loses the whole ones before it.

*Practice and trainer.* With a stack of one chip a hand is all-in from the blinds
and its paced showdown is pending already when it is constructed; training and
the trainer never advance it, so the run fails and the trainer's hand does not
end. A small blind with exactly one chip gets the first turn in the heads-up
program and cannot use it. The books of the trainer break in two ways, both of
them excepted by name in `BooksBalance` and reached by the run. `next_hand` logs the rebuy of the opponent
before it looks for the next button, which is counted modulo the seats of the
settings: seats saved between hands put the button on a seat the table has not, the
hand is refused (`trainer/mod.rs:374`) and the rebuy stays logged, once more at
every try. And the first setup, left with Esc and saved after hands were played,
begins the session anew (`trainer/tui.rs:607`) but keeps what was accounted and saved of
the one before: the totals drop to the new session's (the difference of unsigned numbers at
`tui.rs:1216` wraps and wraps back in a release build, and panics in a debug build),
as many of its first cash entries as were on disk are never written, and while it has
as many hands as were filed, its hands wait for the next one. A failed save at the end of a practice set
lets the last answer be given again; a torn append loses the next record too. A save of
`progress.json` that failed before the hand browser was opened is tried again under it, with
a copy from before: practice sets that were completed meanwhile are lost (`tui.rs:1223`;
`ReviewKeepsResults` excepts it).
Quick practice ends when the screen falls four updates behind. Draws are
reported with five cards on the board, also next to a made straight.

*Around the programs.* After a restore that failed, the next install removes the last
executable (`trainer/update.rs:553`): at the next try on macOS and Windows, on Linux with a
worker that was given up with Esc and is past its check of the path. Two such workers
can be at the files together and leave a mixture of two downloads in place
(`trainer/tui.rs:407`). `ExecutableSurvives` excepts both by name. Deleting a cloud key reports success when one
of two stores was cleared. A turn that begins while the window still has to be let
down from the one before notes the wrong state, and the window stays on top
(`ui/turn_attention.rs:28`; `WindowLetGo` excepts it).

## 6. What is not modelled

JSON and its size limits, error texts, codes and invitations as text, TLS and
sockets, drawing (`ui/concept.rs`, `render.rs`, `ash_table.rs`,
`branded_menu.rs`, `trainer/table_ui.rs`), the metrics counters, the actor's
mailbox, shuffling, the numeric heuristics of bots, regret arithmetic, the
vendored solver, review tools and tests. Card evaluation is checked over a small
deck in `CardStrength` and abstracted to strengths elsewhere. Overflow of chips
is excluded by `ChipTotalOverflow` at construction, and all arithmetic stays
below that total.

## 7. What is left

1. `RoutesMatchSeats` with early leaves, once `request_leave` between hands clears
   the route it frees.
