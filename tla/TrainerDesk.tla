---------------------------- MODULE TrainerDesk -----------------------------
(***************************************************************************)
(* The trainer program around a TrainerSession (src/trainer/tui.rs with    *)
(* provider.rs and storage.rs): the loop that polls the coaching and       *)
(* solver workers, steps the bot, saves, and then handles one key.         *)
(*                                                                         *)
(* A worker is the decision it reviews; its result is there at any poll,   *)
(* which is the first to see it.  Dropping it cancels it.  Texts, amounts  *)
(* being typed and screens without effect on this state are left out; the  *)
(* draft of the settings editor is chosen when it is saved, the only time  *)
(* it is read.                                                             *)
(***************************************************************************)
EXTENDS TrainerSession

CONSTANTS
  Clouds,          \* the providers a learner may choose
  Keys,            \* API keys a learner may save
  Drafts,          \* settings a learner may save
  InitialSettings, \* settings the program may start with
  CoveredRevisions,\* revisions whose decisions the live solver covers (late ones)
  MaxRequests,     \* cloud.max_requests
  MaxSolvers,      \* retired solver jobs that may be waiting (8 in the code)
  Withdrawals,     \* bound: amounts a learner may take out
  MaxDeals,        \* bound: hands of a session
  MaxCash,         \* bound: cash events of a session, before a last rebuy
  Never            \* no job, no feedback, no cached lookup

ASSUME DeskAssumption ==
  /\ Withdrawals \subseteq Nat
  /\ Never \notin [of : [session : Nat, hand : Nat, revision : Nat], basis : {"local", "cloud", "solver"}]

CloudOf(chosen) == IF chosen.coaching \in Clouds THEN {chosen.coaching} ELSE {}

VARIABLES
  session,   \* Ui.session
  settings,  \* Session.settings, as saved
  ui,        \* what the coaching panel shows and where it came from
  cloud,     \* [current, retired]: pending, pending_decision and background_pending
  solvers,   \* [current, retired]: solver_pending and background_solvers
  screen,    \* "table" or "settings"
  phase,     \* "poll" or "key": where the loop is
  creds,     \* SessionCredentials: provider -> cached lookup
  keyring,   \* external: provider -> saved key
  requests,  \* Usage.requests
  books,     \* accounted and saved positions, snapshots, review_changed, first_run
  disk,      \* cash-events.jsonl and completed-hands.jsonl
  past       \* history: rebuys logged for a hand that was then not dealt, and
             \* the entries and hands saved before the session was begun anew
deskVars == <<session, settings, ui, cloud, solvers, screen, phase, creds, keyring,
              requests, books, disk, past>>

NoJobs == [current |-> Never, retired |-> <<>>]
Blank == [feedback |-> Never, baseline |-> Never, bySolver |-> FALSE, byCloud |-> FALSE]

NoProgress == [hands |-> 0, profit |-> 0]
NoPast == [unpaid |-> 0, cash |-> <<>>, hands |-> 0]

(* On a first run there are no settings on disk, and the editor opens first. *)
DeskInit ==
  /\ session = NewSession(1) /\ settings \in InitialSettings
  /\ ui = Blank /\ cloud = NoJobs /\ solvers = NoJobs
  /\ phase = "poll"
  /\ creds = [c \in Clouds |-> Never] /\ keyring = [c \in Clouds |-> "missing"]
  /\ requests = 0
  /\ \E firstRun \in BOOLEAN :
       /\ screen = IF firstRun THEN "settings" ELSE "table"
       /\ books = [progress |-> NoProgress, accounted |-> NoProgress, cash |-> 0,
                   snapshots |-> <<>>, changed |-> FALSE, firstRun |-> firstRun]
  /\ disk = [cash |-> <<>>, archive |-> <<>>] /\ past = NoPast

-----------------------------------------------------------------------------
(* Workers.  A job is the decision it reviews. *)

Retire(jobs) ==
  IF jobs.current = Never THEN jobs
  ELSE [current |-> Never, retired |-> Append(jobs.retired, jobs.current)]

IsPausedOn(s, decision) ==
  /\ s.coaching # NoDecision
  /\ s.coaching.hand = decision.hand /\ s.coaching.revision = decision.revision

(* accept_provider_result *)
AcceptCloud(decision) ==
  LET review == [of |-> decision, basis |-> "cloud"]
      paused == IsPausedOn(session, decision)
  IN  /\ session' = RecordReview(session, review)
      /\ books' = [books EXCEPT !.changed = @ \/ Reviewable(session, review)]
      /\ ui' = IF ~paused THEN ui
               ELSE [ui EXCEPT !.baseline = review, !.byCloud = TRUE,
                               !.feedback = IF ui.bySolver THEN @ ELSE review]

(* accept_solver_result *)
AcceptSolver(decision) ==
  LET review == [of |-> decision, basis |-> "solver"]
  IN  IF ~settings.solver \/ ~Reviewable(session, review)
      THEN UNCHANGED <<session, ui, books>>
      ELSE /\ session' = RecordReview(session, review)
           /\ books' = [books EXCEPT !.changed = TRUE]
           /\ ui' = IF ~IsPausedOn(session, decision) THEN ui
                    ELSE [ui EXCEPT !.bySolver = TRUE, !.feedback = review]

(* Taking the answer of the current job or of a retired one; an error only *)
(* sets the status line.                                                   *)
Failed == UNCHANGED <<session, ui, books>>
PollCloud ==
  /\ phase = "poll"
  /\ \/ /\ cloud.current # Never
        /\ cloud' = [cloud EXCEPT !.current = Never]
        /\ AcceptCloud(cloud.current) \/ Failed
     \/ \E i \in DOMAIN cloud.retired :
          /\ cloud' = [cloud EXCEPT !.retired = RemoveAt(@, i)]
          /\ AcceptCloud(cloud.retired[i]) \/ Failed
  /\ UNCHANGED <<settings, solvers, screen, phase, creds, keyring, requests, disk>>
PollSolver ==
  /\ phase = "poll"
  /\ \/ /\ solvers.current # Never
        /\ solvers' = [solvers EXCEPT !.current = Never]
        /\ AcceptSolver(solvers.current) \/ Failed
     \/ \E i \in DOMAIN solvers.retired :
          /\ solvers' = [solvers EXCEPT !.retired = RemoveAt(@, i)]
          /\ AcceptSolver(solvers.retired[i]) \/ Failed
  /\ UNCHANGED <<settings, cloud, screen, phase, creds, keyring, requests, disk>>

-----------------------------------------------------------------------------
(***************************************************************************)
(* save_progress.  progress.json is a whole copy of books.progress; the    *)
(* two logs are appended to until a write fails, which it may.  The        *)
(* archive keeps the newest record of every session and hand, as           *)
(* Archive::load reads it.  A session begun anew keeps the positions of    *)
(* the one before: its first entries and hands may count as saved.         *)
(***************************************************************************)
ChangedHands(s) == {i \in DOMAIN s.ready :
                      i > Len(books.snapshots) \/ books.snapshots[i] # s.ready[i]}
SnapshotsUpTo(s, n) ==
  [i \in 1 .. Max({n, Len(books.snapshots)}) |->
     IF i <= n THEN s.ready[i] ELSE books.snapshots[i]]
Archived(s, n) ==
  LET fresh == {i \in ChangedHands(s) : i <= n}
      key(i) == <<s.id, s.ready[i].hand>>
  IN  [k \in DOMAIN disk.archive \cup {key(i) : i \in fresh} |->
         IF \E i \in fresh : key(i) = k
         THEN s.ready[CHOOSE i \in fresh : key(i) = k].decisions
         ELSE disk.archive[k]]
Persisted(s, snapshots) == snapshots = s.ready

Accounted(s) ==
  [hands  |-> books.progress.hands + s.completed - books.accounted.hands,
   profit |-> books.progress.profit + s.profit - books.accounted.profit]
SaveProgress(s) ==
  \E cash \in books.cash .. Max({books.cash, Len(s.events)}), hands \in 0 .. Len(s.ready) :
    LET due   == books.changed \/ Len(books.snapshots) # Len(s.ready)
        snaps == IF due THEN SnapshotsUpTo(s, hands) ELSE books.snapshots
    IN  /\ hands = Len(s.ready) \/ (due /\ hands + 1 \in ChangedHands(s))
        /\ books' = [books EXCEPT !.progress = Accounted(s),
                                  !.accounted = [hands |-> s.completed, profit |-> s.profit],
                                  !.cash = cash, !.snapshots = snaps,
                                  !.changed = @ /\ ~Persisted(s, snaps)]
        /\ disk' = [cash    |-> disk.cash \o SubSeq(s.events, books.cash + 1, cash),
                    archive |-> IF due THEN Archived(s, hands) ELSE disk.archive]

(* The rest of an iteration before the key: the bot moves when the table   *)
(* is on the screen and its 450 ms are over, then everything is saved; a   *)
(* key may be there or not.                                                *)
Iterate ==
  /\ phase = "poll" /\ phase' \in {"poll", "key"}
  /\ \/ session' = session
     \/ /\ screen = "table" /\ CanStepBot(session)
        /\ \E outcome \in Outcomes(session) : session' = StepBot(session, outcome)
  /\ SaveProgress(session')
  /\ UNCHANGED <<settings, ui, cloud, solvers, screen, creds, keyring, requests>>

-----------------------------------------------------------------------------
(***************************************************************************)
(* Coaching requests.  The first use of a provider looks its key up and    *)
(* keeps the outcome, an error too, until something clears it.  A request  *)
(* is counted before it is sent.                                           *)
(***************************************************************************)
Lookups(provider) ==
  IF creds[provider] # Never THEN {creds[provider]} ELSE {keyring[provider], "error"}
MaySend(found) == found \in Keys /\ requests < MaxRequests

Request(decision, chosen, jobs) ==
  \E found \in Lookups(chosen.coaching) :
    /\ creds' = [creds EXCEPT ![chosen.coaching] = found]
    /\ requests' = IF MaySend(found) THEN requests + 1 ELSE requests
    /\ cloud' = IF MaySend(found) THEN [jobs EXCEPT !.current = decision] ELSE jobs

(* begin_solver_feedback: drops the current job; a decision that is not    *)
(* eligible, and a full queue, leave none.                                 *)
BeginSolver(decision, chosen, jobs) ==
  LET idle == [jobs EXCEPT !.current = Never]
  IN  IF chosen.solver /\ decision.revision \in CoveredRevisions /\ Len(idle.retired) < MaxSolvers
      THEN [idle EXCEPT !.current = decision] ELSE idle

-----------------------------------------------------------------------------
(* Keys at the table.  Every key ends the iteration. *)

Key(where) == phase = "key" /\ screen = where /\ phase' = "poll"

Act ==
  /\ Key("table") /\ CanSubmit(session)
  /\ \E outcome \in Outcomes(session) :
       LET paused   == Submit(session, outcome)
           decision == paused.coaching
           local    == LocalFeedback(decision)
           playOn   == settings.pace = "Play"
       IN  /\ session' = IF playOn THEN ContinueHand(paused) ELSE paused
           /\ ui' = IF playOn THEN Blank
                    ELSE [ui EXCEPT !.feedback = local, !.baseline = local, !.bySolver = FALSE]
           /\ solvers' = BeginSolver(decision, settings, Retire(solvers))
           /\ IF CloudOf(settings) = {} THEN cloud' = Retire(cloud) /\ UNCHANGED <<creds, requests>>
              ELSE Request(decision, settings, Retire(cloud))
  /\ UNCHANGED <<settings, screen, keyring, books, disk>>

Resume ==
  /\ Key("table") /\ session.coaching # NoDecision
  /\ session' = ContinueHand(session)
  /\ ui' = Blank /\ cloud' = Retire(cloud) /\ solvers' = Retire(solvers)
  /\ UNCHANGED <<settings, screen, creds, keyring, requests, books, disk>>

AskAgain ==
  /\ Key("table") /\ session.coaching # NoDecision
  /\ CloudOf(settings) # {} /\ cloud.current = Never
  /\ Request(session.coaching, settings, cloud)
  /\ UNCHANGED <<session, settings, ui, solvers, screen, keyring, books, disk>>

BetweenHands ==
  /\ Key("table") /\ Finished(session)
  /\ \/ /\ CanDealNext(session)
        /\ session.stack[Bot] > 0 \/ Len(session.events) <= MaxCash
        /\ session' = NextHand(session, settings.seats) /\ session'.hand <= MaxDeals
     \/ /\ Len(session.events) < MaxCash
        /\ session' = TopUp(session)
     \/ /\ Len(session.events) < MaxCash
        /\ \E chips \in Withdrawals :
             chips <= session.stack[Hero] /\ session' = Withdraw(session, chips)
  /\ UNCHANGED <<settings, ui, cloud, solvers, screen, creds, keyring, requests, books, disk>>

OpenSettings ==
  /\ Key("table") /\ screen' = "settings"
  /\ UNCHANGED <<session, settings, ui, cloud, solvers, creds, keyring, requests, books, disk>>
LeaveSettings ==
  /\ Key("settings") /\ screen' = "table"
  /\ UNCHANGED <<session, settings, ui, cloud, solvers, creds, keyring, requests, books, disk>>

-----------------------------------------------------------------------------
(* The settings editor. *)

(* Ctrl-X twice: the saved key goes, and every cached lookup with it; the  *)
(* lookups also go when the key field is edited or the provider switched.  *)
ForgetKey ==
  /\ Key("settings")
  /\ \E provider \in Clouds, deleted \in BOOLEAN :
       keyring' = IF deleted THEN [keyring EXCEPT ![provider] = "missing"] ELSE keyring
  /\ creds' = [c \in Clouds |-> Never]
  /\ UNCHANGED <<session, settings, ui, cloud, solvers, screen, requests, books, disk>>

(* Enter twice on the key test: one counted request, with the typed key or *)
(* the saved one.                                                          *)
TestKey ==
  /\ Key("settings")
  /\ \/ /\ \E typed \in Keys : MaySend(typed)
        /\ requests' = requests + 1 /\ creds' = creds
     \/ \E provider \in Clouds : \E found \in Lookups(provider) :
          /\ creds' = [creds EXCEPT ![provider] = found]
          /\ requests' = IF MaySend(found) THEN requests + 1 ELSE requests
  /\ UNCHANGED <<session, settings, ui, cloud, solvers, screen, keyring, books, disk>>

(* apply_saved_settings *)
ApplySettings(draft, reset) ==
  LET sameCloud == settings.coaching = draft.coaching /\ settings.model = draft.model
      fresh     == IF reset THEN NewSession(session.id + 1) ELSE session
      kept      == IF sameCloud /\ ~reset THEN cloud ELSE NoJobs
      kept2     == IF draft.solver /\ ~reset THEN solvers ELSE NoJobs
      paused    == fresh.coaching # NoDecision
      playOn    == paused /\ draft.pace = "Play"
      shown     == [ui EXCEPT !.byCloud = @ /\ sameCloud /\ ~reset,
                              !.baseline = IF sameCloud /\ ~reset THEN @ ELSE Never,
                              !.bySolver = @ /\ draft.solver /\ ~reset]
      baseline  == IF shown.baseline = Never THEN LocalFeedback(fresh.coaching) ELSE shown.baseline
  IN  /\ settings' = draft
      /\ session' = IF playOn THEN ContinueHand(fresh) ELSE fresh
      /\ cloud' = IF playOn THEN Retire(kept) ELSE kept
      /\ ui' = IF playOn THEN Blank
               ELSE IF paused
               THEN [shown EXCEPT !.baseline = baseline,
                                  !.feedback = IF shown.bySolver THEN @ ELSE baseline]
               ELSE shown
      /\ LET begun == IF paused /\ draft.solver /\ ~settings.solver
                      THEN BeginSolver(fresh.coaching, draft, kept2) ELSE kept2
         IN  solvers' = IF playOn THEN Retire(begun) ELSE begun

(* Enter on "Save and return", with a typed key or none.  The cached       *)
(* lookup is dropped before anything is written; the key store may refuse. *)
(* The first setup begins the session anew (bound: with two seats, for the *)
(* session has two).                                                       *)
CredentialsChanged(draft, typed) == typed # "none" \/ draft.coaching # settings.coaching
SaveSettings ==
  /\ Key("settings")
  /\ \E draft \in Drafts, typed \in Keys \cup {"none"}, stored \in BOOLEAN :
       LET provider == CloudOf(draft)
           changed  == CredentialsChanged(draft, typed)
           accepted == stored /\ (typed # "none" => provider # {})
       IN  /\ books.firstRun => draft.seats = Cardinality(Chairs)
           /\ creds' = [c \in Clouds |-> IF changed /\ (provider = {} \/ c \in provider)
                                         THEN Never ELSE creds[c]]
           /\ keyring' = [c \in Clouds |-> IF accepted /\ typed # "none" /\ c \in provider
                                           THEN typed ELSE keyring[c]]
           /\ IF accepted
              THEN /\ screen' = "table" /\ ApplySettings(draft, books.firstRun)
                   /\ books' = [books EXCEPT !.firstRun = FALSE]
              ELSE UNCHANGED <<session, settings, ui, cloud, solvers, screen, books>>
  /\ UNCHANGED <<requests, disk>>

(* The history: what a refused hand logged is not brought to the table, and *)
(* what was saved before the session was begun anew is another session's.  *)
RefusedRebuy(s, q) ==
  LET entry == q.events[Len(q.events)]
  IN  IF q.hand = s.hand /\ Len(q.events) > Len(s.events) /\ entry.seat = Bot THEN entry.chips ELSE 0
Remember ==
  past' = IF session'.id = session.id
          THEN [past EXCEPT !.unpaid = @ + RefusedRebuy(session, session')]
          ELSE [unpaid |-> 0, cash |-> disk.cash, hands |-> Len(books.snapshots)]

DeskNext ==
  /\ \/ PollCloud \/ PollSolver \/ Iterate
     \/ Act \/ Resume \/ AskAgain \/ BetweenHands \/ OpenSettings \/ LeaveSettings
     \/ ForgetKey \/ TestKey \/ SaveSettings
  /\ Remember

DeskSpec == DeskInit /\ [][DeskNext]_deskVars

-----------------------------------------------------------------------------
(* Every review, in the records, in the archive and on the panel, belongs  *)
(* to the decision it is filed under or shown for, and what the panel says *)
(* about its origin is true: answers of coaching and solver workers come   *)
(* after other decisions, other hands, and changes of the settings.        *)
ReviewsBelong ==
  /\ \A i \in DOMAIN RecordsOf(session) :
       RecordsOf(session)[i].feedback.of = RecordsOf(session)[i].decision
  /\ session.coaching # NoDecision =>
       /\ ui.feedback # Never /\ ui.feedback.of = session.coaching
       /\ ui.bySolver <=> ui.feedback.basis = "solver"
       /\ ui.byCloud <=> ui.baseline.basis = "cloud"

(* The learner's chips are the buy-in, the profit and the cash events, the *)
(* table's chips the buy-ins and the cash events, and the books on disk    *)
(* are the session's: no hand, rebuy, withdrawal or failed write loses or  *)
(* repeats a chip, a hand or an entry (src/trainer/mod.rs settle, top_up,  *)
(* withdraw, next_hand; src/trainer/tui.rs save_progress).  A completed    *)
(* hand's archive entry is the session's record of it, unless the next     *)
(* save will write it: a late review that arrives while a write fails is   *)
(* not forgotten.  With these exceptions, all of them reached:             *)
(*   - a next hand that is refused, because the saved seats put the button *)
(*     on a seat that this table has not (mod.rs:374), has logged a rebuy  *)
(*     that nobody brings, and logs another one at the next try;           *)
(*   - a first setup that is saved after hands were played begins a new    *)
(*     session and keeps the positions of the old one (tui.rs:936, 1216).  *)
(*     Progress then counts the new session alone; as many of its first    *)
(*     entries as the old one had on disk are never written; and when it   *)
(*     has as many hands as the old one had filed, hands may wait for the  *)
(*     next hand or review to be written.                                  *)
BooksBalance ==
  /\ Finished(session) =>
       /\ session.stack[Hero] = BuyIn + session.profit + CashOf(session, {Hero})
       /\ session.stack[Hero] + session.stack[Bot] + past.unpaid = 2 * BuyIn + CashOf(session, Chairs)
  /\ disk.cash = past.cash \o SubSeq(session.events, Len(past.cash) + 1, books.cash)
  /\ phase = "key" => books.progress = [hands |-> session.completed, profit |-> session.profit]
  /\ /\ ~books.changed /\ Len(books.snapshots) = Len(session.ready)
     /\ Len(session.ready) # past.hands
     => \A i \in DOMAIN session.ready :
          LET key == <<session.id, session.ready[i].hand>>
          IN  key \in DOMAIN disk.archive /\ disk.archive[key] = session.ready[i].decisions

=============================================================================
