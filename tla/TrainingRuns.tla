---------------------------- MODULE TrainingRuns ----------------------------
(***************************************************************************)
(* The runs of src/training: planned deals (deal.rs) against the dealing   *)
(* order of the engine, the evaluation of a policy over rotated seats      *)
(* (evaluation.rs) and the worker threads of the benchmark (benchmark.rs). *)
(*                                                                         *)
(* An episode is its result: the chips every seat won, or an error.  It is *)
(* determined by the deal, the button and the policies of the seats, none  *)
(* of which draws at random here (the random policies have seeds of their  *)
(* own for every hero seat).  PolicyActions has the decisions inside.      *)
(***************************************************************************)
EXTENDS Integers, Sequences, FiniteSets, SequencesExt, FiniteSetsExt, Functions

CONSTANTS
  DeckSize,        \* cards of the deck
  TableSize,       \* seats of a planned table
  Tables, Deals,   \* table replicas and deals per table of an evaluation
  SeatCounts, Stack,
  Hands, Parallelism,   \* hands of a benchmark case and the parallelism of the machine
  Ranges,          \* weighted ranges: sequences of [cards, weight]
  NoPlan

VARIABLES
  plan,    \* a deal plan with what was asked of it
  draw,    \* the last sample from a weighted range
  score,   \* the evaluation case under way
  bench    \* the benchmark case under way
trainingVars == <<plan, draw, score, bench>>

Deck == 1 .. DeckSize
Unique(cards) == Cardinality(Range(cards)) = Len(cards)

-----------------------------------------------------------------------------
(* Deal plans. *)
Clockwise(button, occupied) ==
  SelectSeq([i \in 1 .. TableSize |-> (button + i) % TableSize], LAMBDA s : s \in occupied)

(* Mutant: the plan is laid out from the button itself. *)
ClockwiseFromButton(button, occupied) ==
  SelectSeq([i \in 1 .. TableSize |-> (button + i - 1) % TableSize], LAMBDA s : s \in occupied)
AssignedOrder(button, occupied) == Clockwise(button, occupied)

CompleteFromPrefix(prefix, filler) ==
  prefix \o SelectSeq(filler, LAMBDA c : c \notin Range(prefix))

FromAssignments(button, occupied, holes, board, filler) ==
  LET order  == AssignedOrder(button, occupied)
      prefix == [i \in DOMAIN order |-> holes[order[i]][1]]
                \o [i \in DOMAIN order |-> holes[order[i]][2]] \o board
  IN  IF Unique(prefix) THEN CompleteFromPrefix(prefix, filler) ELSE <<>>

BranchPublicRunout(cards, dealtSeats, board) ==
  LET prefix == SubSeq(cards, 1, 2 * dealtSeats) \o board
  IN  IF Unique(prefix) THEN CompleteFromPrefix(prefix, cards) ELSE <<>>

(* with_prepared_deck: two rounds clockwise from the left of the button,   *)
(* and the board off the top.                                              *)
DealtHoles(cards, button, occupied) ==
  LET order == Clockwise(button, occupied)
      place(s) == CHOOSE i \in DOMAIN order : order[i] = s
  IN  [s \in occupied |-> <<cards[place(s)], cards[Len(order) + place(s)]>>]
DealtBoard(cards, occupied) ==
  SubSeq(cards, 2 * Cardinality(occupied) + 1, 2 * Cardinality(occupied) + 5)

(* Cards assigned in seat order from somewhere in the deck, the last of    *)
(* the board drawn anywhere: a card may be asked for twice.                *)
Rotated(by) == [i \in Deck |-> ((i + by) % DeckSize) + 1]
Idle == plan = NoPlan /\ score.status = "idle" /\ bench.status = "idle"
PlanDeal ==
  /\ Idle
  /\ \E occupied \in {o \in SUBSET (0 .. TableSize - 1) : Cardinality(o) > 1},
        by \in Deck, river \in {1, 7, DeckSize}, filler \in {Rotated(0), Reverse(Rotated(3))} :
       \E button \in occupied :
         LET n     == Cardinality(occupied)
             index(s) == Cardinality({t \in occupied : t < s})
             holes == [s \in occupied |-> <<Rotated(by)[2 * index(s) + 1], Rotated(by)[2 * index(s) + 2]>>]
             board == Append(SubSeq(Rotated(by), 2 * n + 1, 2 * n + 4), river)
         IN  plan' = [cards |-> FromAssignments(button, occupied, holes, board, filler),
                      button |-> button, holes |-> holes, board |-> board, branched |-> FALSE]
  /\ UNCHANGED <<draw, score, bench>>
BranchRunout ==
  /\ plan # NoPlan /\ plan.cards # <<>> /\ ~plan.branched /\ draw = NoPlan
  /\ \E by \in Deck :
       LET board == SubSeq(Rotated(by), 1, 5) IN
       plan' = [plan EXCEPT !.branched = TRUE, !.board = board,
                  !.cards = BranchPublicRunout(@, Cardinality(DOMAIN plan.holes), board)]
  /\ UNCHANGED <<draw, score, bench>>

(* sample_available: a number below the total weight of the combinations   *)
(* that no known card blocks, counted off in their order.                  *)
Available(range, blocked) == SelectSeq(range, LAMBDA c : Range(c.cards) \cap blocked = {})
TotalWeight(range) == FoldLeft(LAMBDA sum, c : sum + c.weight, 0, range)
WeightBefore(range, i) == TotalWeight(SubSeq(range, 1, i - 1))
Sampled(range, number) ==
  LET i == CHOOSE i \in DOMAIN range : /\ WeightBefore(range, i) <= number
                                       /\ number < WeightBefore(range, i) + range[i].weight
  IN  range[i].cards
SampleRange ==
  /\ plan # NoPlan /\ plan.cards # <<>> /\ ~plan.branched /\ draw = NoPlan
  /\ \E range \in Ranges, known \in 0 .. 3 :
       LET blocked == Range(SubSeq(plan.cards, 1, known))
           left    == Available(range, blocked)
       IN  draw' = [range |-> range, blocked |-> blocked,
                    drawn |-> [n \in 0 .. TotalWeight(left) - 1 |-> Sampled(left, n)]]
  /\ UNCHANGED <<plan, score, bench>>

-----------------------------------------------------------------------------
(* Evaluation: run_case.  A block is one deal, played once with the hero   *)
(* in every seat; only a block without a failed episode enters the         *)
(* confidence interval.                                                    *)
Failed == [failed |-> TRUE, delta |-> <<>>]
Results(n) ==
  {Failed} \cup {[failed |-> FALSE, delta |-> d] :
                   d \in {d \in [0 .. n - 1 -> {-Stack, 0, Stack, (n - 1) * Stack}] :
                            SumFunction(d) = 0}}

(* derive_seed of the deal leaves the hero's seat out. *)
DealSeed(table, deal, hero) == <<table, deal, 0>>

StartCase ==
  /\ Idle
  /\ \E n \in SeatCounts, mirror \in BOOLEAN :
       score' = [score EXCEPT !.status = "running", !.seats = n, !.mirror = mirror]
  /\ UNCHANGED <<plan, draw, bench>>

(* With the same policy in every seat the rotated episodes of a deal are   *)
(* one and the same hand.                                                  *)
Episodes(key) ==
  IF score.mirror /\ key \in DOMAIN score.hands THEN {score.hands[key]} ELSE Results(score.seats)
NextPlace(place) ==
  IF place.hero + 1 < score.seats THEN [place EXCEPT !.hero = @ + 1]
  ELSE IF place.deal + 1 < Deals THEN [place EXCEPT !.hero = 0, !.deal = @ + 1]
  ELSE [table |-> place.table + 1, deal |-> 0, hero |-> 0]

PlayEpisode ==
  /\ score.status = "running"
  /\ LET p == score.place
         key == <<DealSeed(p.table, p.deal, p.hero), p.deal % score.seats>> IN
     \E result \in Episodes(key) :
       LET delta == IF result.failed THEN 0 ELSE result.delta[p.hero]
           block == [delta |-> score.block.delta + delta,
                     completed |-> score.block.completed + (IF result.failed THEN 0 ELSE 1)]
           ends  == p.hero + 1 = score.seats
           counted == ends /\ block.completed = score.seats
           next  == NextPlace(p)
       IN  score' = [score EXCEPT
             !.completed = @ + (IF result.failed THEN 0 ELSE 1),
             !.failed = @ + (IF result.failed THEN 1 ELSE 0),
             !.positive = @ + (IF delta > 0 THEN 1 ELSE 0),
             !.even = @ + (IF ~result.failed /\ delta = 0 THEN 1 ELSE 0),
             !.busts = @ + (IF delta <= -Stack THEN 1 ELSE 0),
             !.total = @ + delta,
             !.blocks = @ + (IF counted THEN 1 ELSE 0),
             !.blockSum = @ + (IF counted THEN block.delta ELSE 0),
             !.block = IF ends THEN [delta |-> 0, completed |-> 0] ELSE block,
             !.hands = IF ends \/ ~score.mirror THEN <<>> ELSE (key :> result) @@ @,
             !.place = next,
             !.status = IF next.table = Tables THEN "reported" ELSE "running"]
  /\ UNCHANGED <<plan, draw, bench>>

-----------------------------------------------------------------------------
(* Benchmark: worker w plays the hands w, w + workers, w + 2 workers ...   *)
WorkerCounts == LET most == Min({Parallelism, 16})
                IN  {w \in {1, 2, 4, 8, 16} : w <= most} \cup {most}
StartBenchmark ==
  /\ Idle
  /\ \E workers \in WorkerCounts :
       bench' = [bench EXCEPT !.status = "running", !.next = [w \in 0 .. workers - 1 |-> w],
                              !.tally = [w \in 0 .. workers - 1 |-> [completed |-> 0, failed |-> 0]]]
  /\ UNCHANGED <<plan, draw, score>>
RunHand(w) ==
  /\ bench.status = "running" /\ bench.next[w] < Hands
  /\ \E result \in {"completed", "failed"} :
       bench' = [bench EXCEPT !.next[w] = @ + Cardinality(DOMAIN bench.next),
                              !.tally[w][result] = @ + 1,
                              !.ran = Append(@, bench.next[w])]
  /\ UNCHANGED <<plan, draw, score>>
(* All workers are joined and their results added. *)
JoinWorkers ==
  /\ bench.status = "running" /\ \A w \in DOMAIN bench.next : bench.next[w] >= Hands
  /\ bench' = [bench EXCEPT !.status = "reported",
                 !.completed = SumFunction([w \in DOMAIN bench.tally |-> bench.tally[w].completed]),
                 !.failed = SumFunction([w \in DOMAIN bench.tally |-> bench.tally[w].failed])]
  /\ UNCHANGED <<plan, draw, score>>

TrainingInit ==
  /\ plan = NoPlan /\ draw = NoPlan
  /\ score = [status |-> "idle", seats |-> 0, mirror |-> FALSE, hands |-> <<>>,
              place |-> [table |-> 0, deal |-> 0, hero |-> 0],
              completed |-> 0, failed |-> 0, positive |-> 0, even |-> 0, busts |-> 0, total |-> 0,
              blocks |-> 0, blockSum |-> 0, block |-> [delta |-> 0, completed |-> 0]]
  /\ bench = [status |-> "idle", next |-> <<>>, tally |-> <<>>, ran |-> <<>>,
              completed |-> 0, failed |-> 0]
TrainingNext ==
  \/ PlanDeal \/ BranchRunout \/ SampleRange
  \/ StartCase \/ PlayEpisode
  \/ StartBenchmark \/ (\E w \in DOMAIN bench.next : RunHand(w)) \/ JoinWorkers

TrainingSpec == TrainingInit /\ [][TrainingNext]_trainingVars

-----------------------------------------------------------------------------
(* A plan is a whole deck, and the engine deals from it the cards that     *)
(* were assigned to each seat and the board, before and after the board is *)
(* replaced; and a range yields each combination that no known card blocks *)
(* exactly as often as its weight says.                                    *)
PlansHold ==
  /\ plan # NoPlan /\ plan.cards # <<>> =>
       /\ Range(plan.cards) = Deck /\ Len(plan.cards) = DeckSize
       /\ DealtHoles(plan.cards, plan.button, DOMAIN plan.holes) = plan.holes
       /\ DealtBoard(plan.cards, DOMAIN plan.holes) = plan.board
  /\ draw # NoPlan =>
       \A i \in DOMAIN draw.range :
         Cardinality({n \in DOMAIN draw.drawn : draw.drawn[n] = draw.range[i].cards}) =
           IF Range(draw.range[i].cards) \cap draw.blocked = {} THEN draw.range[i].weight ELSE 0

(* An evaluation accounts for every episode it set out to play, and a      *)
(* policy that plays against itself scores zero in every block of the      *)
(* interval, because the rotation pairs its seats; a benchmark plays every *)
(* hand once, however its workers are scheduled.                           *)
ReportsAddUp ==
  /\ score.status = "reported" =>
       /\ score.completed + score.failed = Tables * Deals * score.seats
       /\ score.blocks * score.seats <= score.completed
       /\ score.failed = 0 => score.blocks = Tables * Deals
       /\ score.mirror => score.blockSum = 0
       /\ score.positive + score.even <= score.completed
  /\ bench.status = "reported" =>
       /\ Unique(bench.ran) /\ Range(bench.ran) = 0 .. Hands - 1
       /\ bench.completed + bench.failed = Hands

(* DealtAsPlanned: every hand is dealt from its plan and counted once, by  *)
(* the evaluator and by the parallel benchmark.                            *)
DealtAsPlanned == PlansHold /\ ReportsAddUp
=============================================================================
