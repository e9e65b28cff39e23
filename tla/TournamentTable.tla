--------------------------- MODULE TournamentTable ---------------------------
(***************************************************************************)
(* One tournament controller driven the way the table registry drives it:  *)
(* players register until the table is full, hands redistribute the chips  *)
(* of the players who have any, and the clock advances by the time a hand  *)
(* or a break took.                                                        *)
(***************************************************************************)
EXTENDS Tournament

CONSTANTS
  Entrants,           \* players who may register
  TournamentConfigs,  \* configurations to start from
  StartingStack,
  Elapsed             \* times a hand or a wait may take

ASSUME TournamentAssumption ==
  /\ Elapsed \subseteq Nat /\ StartingStack \in Nat
  /\ \A cfg \in TournamentConfigs :
       /\ cfg.levels \in Seq([duration : Nat, rest : Nat, blind : Nat])
       /\ cfg.pool \in Nat /\ cfg.shares \in Seq(Nat)

VARIABLES
  ctl,     \* the TournamentController
  stacks   \* seats -> stacks, for the players who registered
tvars == <<ctl, stacks>>

TourneySeats == 0 .. ctl.cfg.entrants - 1

TournamentInit ==
  /\ \E cfg \in TournamentConfigs : ValidTournament(cfg) /\ ctl = NewController(cfg)
  /\ stacks = <<>>

(* join: register, and start when the last seat is taken. *)
RegisterPlayer(p, seat) ==
  /\ CanRegister(ctl, p, seat)
  /\ LET c == RegisterEntrant(ctl, p, seat) IN
     ctl' = IF CanStart(c) THEN StartTournament(c) ELSE c
  /\ stacks' = With(stacks, seat, StartingStack)

UnregisterPlayer(p) ==
  /\ ctl.status = "Registering" /\ p \in DOMAIN ctl.entrants
  /\ ctl' = UnregisterEntrant(ctl, p)
  /\ stacks' = Without(stacks, ctl.entrants[p])

CancelRegistration ==
  /\ ctl.status = "Registering"
  /\ ctl' = CancelTournament(ctl)
  /\ UNCHANGED stacks

(* A hand ends: the clock is charged first, then eliminations are recorded
   (rollover_completed_hand). *)
TotalChips(f) == FoldFunction(LAMBDA x, y : x + y, 0, f)
Divisions ==
  LET total == TotalChips(stacks) IN
  {after \in [DOMAIN stacks -> 0 .. total] :
     /\ \A s \in DOMAIN stacks : stacks[s] = 0 => after[s] = 0
     /\ TotalChips(after) = total}

HandResult(time, after) ==
  LET ticked == Tick(ctl, time) IN
  /\ ctl.status = "Running"
  /\ ResultAccepted(ticked, stacks, after)
  /\ ctl' = CompleteTournamentHand(ticked, stacks, after)
  /\ stacks' = after

(* advance_tournament_breaks *)
WaitOutBreak(time) ==
  /\ ctl.status = "Break"
  /\ ctl' = Tick(ctl, time)
  /\ UNCHANGED stacks

TournamentNext ==
  \/ \E p \in Entrants, seat \in TourneySeats : RegisterPlayer(p, seat)
  \/ \E p \in Entrants : UnregisterPlayer(p)
  \/ CancelRegistration
  \/ ctl.status = "Running" /\ \E after \in Divisions : \E time \in Elapsed : HandResult(time, after)
  \/ \E time \in Elapsed : WaitOutBreak(time)

TournamentSpec == TournamentInit /\ [][TournamentNext]_tvars

-----------------------------------------------------------------------------
(* Properties. *)

PlacesOf(s) == {s[i].place : i \in DOMAIN s}

(* StandingsExact: each elimination takes the worst place left, so the places
   given out are exactly those below the players remaining, each given once;
   when the tournament completes, the payouts add up to the pool, and no place
   is paid a chip more or less than its exact share.  Time charged in two parts
   leaves the same level, break and status as the same time charged at once, so
   it does not matter how the registry splits hands and breaks. *)
StandingsExact ==
  LET left == IF ctl.status = "Complete" THEN 0 ELSE Cardinality(ctl.remaining) IN
  /\ ctl.status \in {"Running", "Break", "Complete"} =>
       /\ PlacesOf(ctl.standings) = left + 1 .. ctl.cfg.entrants
       /\ Len(ctl.standings) = ctl.cfg.entrants - left
  /\ ctl.status = "Complete" =>
       /\ SumSeq([i \in DOMAIN ctl.standings |-> ctl.standings[i].payout]) = ctl.cfg.pool
       /\ \A i \in DOMAIN ctl.standings :
            LET s == ctl.standings[i]
                exact == IF s.place \in DOMAIN ctl.cfg.shares
                         THEN ctl.cfg.pool * ctl.cfg.shares[s.place] ELSE 0
            IN  /\ s.payout * BasisPoints < exact + BasisPoints
                /\ s.payout * BasisPoints > exact - BasisPoints
  /\ \A a, b \in Elapsed : Tick(Tick(ctl, a), b) = Tick(ctl, a + b)

=============================================================================
