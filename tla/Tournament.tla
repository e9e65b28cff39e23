----------------------------- MODULE Tournament -----------------------------
(***************************************************************************)
(* The controller of a single-table tournament: TournamentController of    *)
(* src/src/tournament.rs.  A controller is a value; every method is an     *)
(* operator that returns the controller it leaves behind, so the table     *)
(* registry can hold one per table.  Time is in units of the blind clock.  *)
(*                                                                         *)
(* A configuration is a record:                                            *)
(*   entrants   seats of the tournament                                    *)
(*   levels     sequence of [duration, rest, blind]; rest is the break     *)
(*              after the level                                            *)
(*   pool       play chips to pay out                                      *)
(*   shares     sequence of shares in basis points                         *)
(***************************************************************************)
EXTENDS Integers, Sequences, FiniteSets, SequencesExt

BasisPoints == 10000

SumSeq(s) == FoldSeq(LAMBDA x, y : x + y, 0, s)

(* TournamentConfig::validate, for the fields that are modelled. *)
ValidTournament(cfg) ==
  /\ cfg.entrants \in 2 .. 9
  /\ Len(cfg.levels) > 0
  /\ \A i \in DOMAIN cfg.levels :
       /\ cfg.levels[i].duration > 0 /\ cfg.levels[i].rest >= 0
       /\ i > 1 => cfg.levels[i].blind >= cfg.levels[i - 1].blind
  /\ cfg.pool > 0
  /\ Len(cfg.shares) \in 1 .. 3 /\ Len(cfg.shares) <= cfg.entrants
  /\ \A i \in DOMAIN cfg.shares : cfg.shares[i] > 0
  /\ SumSeq(cfg.shares) = BasisPoints

(* TournamentController::new *)
NewController(cfg) ==
  [cfg |-> cfg, status |-> "Registering", entrants |-> <<>>, remaining |-> {},
   level |-> 1, elapsed |-> 0, rest |-> 0, standings |-> <<>>]

-----------------------------------------------------------------------------
(* Registration.  entrants is a function from players to seats. *)

With(f, k, v) == [x \in DOMAIN f \cup {k} |-> IF x = k THEN v ELSE f[x]]
Without(f, k) == [x \in DOMAIN f \ {k} |-> f[x]]

CanRegister(c, p, seat) ==
  /\ c.status = "Registering"
  /\ Cardinality(DOMAIN c.entrants) < c.cfg.entrants
  /\ p \notin DOMAIN c.entrants
  /\ \A q \in DOMAIN c.entrants : c.entrants[q] # seat
  /\ seat < c.cfg.entrants

RegisterEntrant(c, p, seat) ==
  [c EXCEPT !.entrants = With(@, p, seat), !.remaining = @ \cup {p}]

UnregisterEntrant(c, p) ==
  [c EXCEPT !.entrants = Without(@, p), !.remaining = @ \ {p}]

CanStart(c) ==
  c.status = "Registering" /\ Cardinality(DOMAIN c.entrants) = c.cfg.entrants
StartTournament(c) == [c EXCEPT !.status = "Running"]

CancelTournament(c) == [c EXCEPT !.status = "Cancelled"]

-----------------------------------------------------------------------------
(* The blind clock. *)

Lesser(a, b) == IF a < b THEN a ELSE b

(* The level after a completed one; the last level repeats. *)
NextLevel(c) == Lesser(c.level + 1, Len(c.cfg.levels))

(* One pass of the loop of tick_between_hands over <<controller, time left>>. *)
TickPass(c, left) ==
  IF c.status = "Break"
  THEN LET used == Lesser(left, c.rest) IN
       << [c EXCEPT !.rest = @ - used,
                    !.status = IF c.rest = used THEN "Running" ELSE "Break"],
          left - used >>
  ELSE LET done == c.cfg.levels[c.level]
           used == Lesser(left, done.duration - c.elapsed)
           over == c.elapsed + used >= done.duration
       IN  << IF over
              THEN [c EXCEPT !.elapsed = 0,
                             !.level = NextLevel(c),
                             !.status = IF done.rest > 0 THEN "Break" ELSE @,
                             !.rest = IF done.rest > 0 THEN done.rest ELSE @]
              ELSE [c EXCEPT !.elapsed = @ + used],
              left - used >>

(* tick_between_hands: every pass uses at least one unit of time. *)
Tick(c, time) ==
  LET loop[n \in 0 .. time] ==
        IF n = 0 THEN <<c, time>>
        ELSE LET before == loop[n - 1]
             IN  IF before[2] = 0 THEN before ELSE TickPass(before[1], before[2])
  IN  IF c.status \in {"Running", "Break"} THEN loop[time][1] ELSE c

-----------------------------------------------------------------------------
(* Eliminations and payouts.  Stacks are functions from seats to chips. *)

Busted(before, after) ==
  {s \in DOMAIN before : before[s] > 0 /\ s \in DOMAIN after /\ after[s] = 0}

(* The elements of S, each before those it goes before. *)
InOrder(S, GoesBefore(_, _)) ==
  CHOOSE s \in [1 .. Cardinality(S) -> S] :
    \A i, j \in DOMAIN s : i < j => GoesBefore(s[i], s[j])

(* The shorter stack is eliminated first, then the lower seat. *)
BustOrder(before, after) ==
  InOrder(Busted(before, after),
          LAMBDA s, t : before[s] < before[t] \/ (before[s] = before[t] /\ s < t))

EntrantAt(c, seat) == CHOOSE p \in DOMAIN c.entrants : c.entrants[p] = seat
SeatKnown(c, seat) == \E p \in DOMAIN c.entrants : c.entrants[p] = seat

(* complete_hand succeeds: it covers the same seats before and after, and every
   seat that lost its last chips belongs to a player still in play. *)
ResultAccepted(c, before, after) ==
  /\ c.status \in {"Running", "Break"}
  /\ DOMAIN before = DOMAIN after
  /\ \A s \in Busted(before, after) :
       SeatKnown(c, s) /\ EntrantAt(c, s) \in c.remaining

Standing(c, seat, place) ==
  [player |-> EntrantAt(c, seat), seat |-> seat, place |-> place, payout |-> 0]

(* apply_payouts: whole shares first, then one chip each to the places with the
   largest fractions, the better place first. *)
Fraction(cfg, i) == (cfg.pool * cfg.shares[i]) % BasisPoints
WholeShare(cfg, i) == (cfg.pool * cfg.shares[i]) \div BasisPoints
FractionOrder(cfg) ==
  InOrder(DOMAIN cfg.shares,
          LAMBDA i, j : Fraction(cfg, i) > Fraction(cfg, j)
                        \/ (Fraction(cfg, i) = Fraction(cfg, j) /\ i < j))

(* Mutant: the chips that do not divide are not paid. *)
AwardTruncated(cfg, place) == IF place \in DOMAIN cfg.shares THEN WholeShare(cfg, place) ELSE 0

Award(cfg, place) ==
  IF place \notin DOMAIN cfg.shares THEN 0
  ELSE LET order == FractionOrder(cfg)
           rank == CHOOSE k \in DOMAIN order : order[k] = place
           undivided == cfg.pool
             - SumSeq([i \in DOMAIN cfg.shares |-> WholeShare(cfg, i)])
       IN  WholeShare(cfg, place) + (IF rank <= undivided THEN 1 ELSE 0)

PayOut(c) ==
  [c EXCEPT !.standings =
     [i \in DOMAIN c.standings |->
        [c.standings[i] EXCEPT !.payout = Award(c.cfg, c.standings[i].place)]]]

(* The place of the index-th player eliminated in a hand. *)
Place(c, index) == Cardinality(c.remaining) - index + 1

CompleteTournamentHand(c, before, after) ==
  LET order == BustOrder(before, after)
      out   == {EntrantAt(c, s) : s \in Busted(before, after)}
      ranked == [c EXCEPT
        !.remaining = @ \ out,
        !.standings = @ \o [i \in DOMAIN order |-> Standing(c, order[i], Place(c, i))]]
      winner == CHOOSE p \in ranked.remaining : TRUE
      crowned == [ranked EXCEPT
        !.standings = Append(@, [player |-> winner, seat |-> c.entrants[winner],
                                 place |-> 1, payout |-> 0])]
  IN  IF Cardinality(ranked.remaining) = 1
      THEN [PayOut(crowned) EXCEPT !.status = "Complete"]
      ELSE ranked

=============================================================================
