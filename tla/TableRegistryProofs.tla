------------------------ MODULE TableRegistryProofs -------------------------
(***************************************************************************)
(* Proofs about the table registry, for any number of sessions, tables,    *)
(* seats and hands, any configuration and any crash and restart.           *)
(*                                                                         *)
(* Every session that is routed sits where its route leads, nobody else    *)
(* does, and the file says the same; the controller of a tournament counts *)
(* those with chips; and nobody at the head of a queue is passed over.     *)
(* A tournament of its own gives out its places and its pool exactly, and  *)
(* its clock does not depend on how the time is cut into pieces.           *)
(*                                                                         *)
(* The inductive invariant (RegistryInv) says of every table that its      *)
(* seats, their sessions and the departures that are queued fit (TableFits)*)
(* and that its image for the checkpoint has the players and stacks of now *)
(* (Imaged); of the registry that routes and seats lead to each other      *)
(* (Routing), that a player is one person at one seat (Persons), that the  *)
(* hands of two tables have two numbers (HandsNumbered) and that whoever   *)
(* waits is in one queue, once, and not seated (Queues); and of the file   *)
(* what a registry loaded from it needs (FileFits).  Each operation is     *)
(* shown first for its table, then for the registry around it.  The loops  *)
(* of a boundary, a sweep and a look at the breaks are functions on        *)
(* 0 .. n; what holds after their last pass holds because there is no      *)
(* first pass after which it does not.                                     *)
(*                                                                         *)
(* The hypothesis EarlyLeaves = FALSE: players ask to leave during a hand. *)
(* A leave between hands can free the seat while its departure is still    *)
(* queued; then the next boundary takes the route of whoever sits there    *)
(* now, and RoutesMatchSeats does not hold.                                *)
(*                                                                         *)
(* The tournament has an invariant of its own (CupInv): its standings are  *)
(* the last places in order, as many as players are out, its clock is      *)
(* inside a level or a break, and seats belong to one player each.         *)
(***************************************************************************)
EXTENDS TableRegistry, TournamentTable, ChipSums

-----------------------------------------------------------------------------
(* What holds of a table. *)

IsTable(tb) ==
  tb = [cfg |-> tb.cfg, roster |-> tb.roster, run |-> tb.run, hands |-> tb.hands,
        leaving |-> tb.leaving, hand |-> tb.hand, dealt |-> tb.dealt, result |-> tb.result,
        durable |-> tb.durable, seatSess |-> tb.seatSess, queue |-> tb.queue,
        departures |-> tb.departures, tour |-> tb.tour]
IsController(c) ==
  c = [cfg |-> c.cfg, status |-> c.status, entrants |-> c.entrants, remaining |-> c.remaining,
       level |-> c.level, elapsed |-> c.elapsed, rest |-> c.rest, standings |-> c.standings]

(* Who is seated where with what. *)
RosterFits(cfg, roster) ==
  /\ DOMAIN roster \subseteq 0 .. cfg.seats - 1
  /\ \A x \in DOMAIN roster :
       /\ roster[x] = [player |-> roster[x].player, stack |-> roster[x].stack]
       /\ roster[x].player \in Nat /\ roster[x].stack \in Nat

(* The controller knows the players seated by their seats, and who still has chips. *)
TourFits(tour, roster) ==
  tour # NoTour =>
    /\ IsController(tour)
    /\ \A p, q \in DOMAIN tour.entrants : tour.entrants[p] = tour.entrants[q] => p = q
    /\ \A x \in DOMAIN roster :
         /\ roster[x].player \in DOMAIN tour.entrants
         /\ tour.entrants[roster[x].player] = x
         /\ roster[x].player \in tour.remaining <=> roster[x].stack > 0

(* The sessions that leave are those of the seats that leave, a hand is between
   seats that had chips, and without a hand there is none of this. *)
HandFits(tb) ==
  /\ \A x \in tb.leaving : x \in DOMAIN tb.seatSess /\ tb.seatSess[x] \in tb.departures
  /\ \A s \in tb.departures : \E x \in tb.leaving : tb.seatSess[x] = s
  /\ tb.hand = NoHand => tb.leaving = {} /\ DOMAIN tb.dealt = {} /\ DOMAIN tb.result = {}
  /\ DOMAIN tb.dealt \subseteq EligibleSeats(tb) /\ DOMAIN tb.result \subseteq EligibleSeats(tb)
  /\ \A x \in DOMAIN tb.result : tb.result[x] \in Nat

TableFits(tb) ==
  /\ IsTable(tb) /\ tb.cfg \in TableConfigs /\ tb.hand \in Nat
  /\ DOMAIN tb.seatSess = DOMAIN tb.roster
  /\ RosterFits(tb.cfg, tb.roster)
  /\ TourFits(tb.tour, tb.roster) /\ (tb.cfg.tour = NoTour => tb.tour = NoTour)
  /\ HandFits(tb)

(* The image for the checkpoint has the players and stacks of now. *)
Imaged(tb) == tb.durable.roster = tb.roster

-----------------------------------------------------------------------------
(* What holds of the registry. *)

IsRegistry(r) ==
  r = [tables |-> r.tables, sessions |-> r.sessions, waits |-> r.waits, history |-> r.history,
       nextTable |-> r.nextTable, nextPlayer |-> r.nextPlayer, nextHand |-> r.nextHand]

(* Identities given out so far. *)
Counted(r) ==
  /\ r.nextTable \in Nat \ {0} /\ r.nextPlayer \in Nat /\ r.nextHand \in Nat \ {0}
  /\ \A t \in DOMAIN r.tables : t \in Nat \ {0} /\ t < r.nextTable

(* Routes lead to the seats of their sessions, and back. *)
RouteFits(r, s) ==
  LET x == r.sessions[s] IN
  /\ x.table \in DOMAIN r.tables
  /\ x.seat \in DOMAIN r.tables[x.table].roster
  /\ r.tables[x.table].roster[x.seat].player = x.player
  /\ r.tables[x.table].seatSess[x.seat] = s
SeatFits(r, t, x) ==
  LET s == r.tables[t].seatSess[x] IN
  s \in DOMAIN r.sessions /\ r.sessions[s].table = t /\ r.sessions[s].seat = x
Routing(r) ==
  /\ \A s \in DOMAIN r.sessions : RouteFits(r, s)
  /\ \A t \in DOMAIN r.tables : \A x \in DOMAIN r.tables[t].roster : SeatFits(r, t, x)

(* A player is one person at one seat. *)
Persons(r) ==
  /\ \A t \in DOMAIN r.tables : \A x \in DOMAIN r.tables[t].roster :
       r.tables[t].roster[x].player < r.nextPlayer
  /\ \A t, u \in DOMAIN r.tables :
       \A x \in DOMAIN r.tables[t].roster, y \in DOMAIN r.tables[u].roster :
         r.tables[t].roster[x].player = r.tables[u].roster[y].player => t = u /\ x = y

HandsNumbered(r) ==
  /\ \A t \in DOMAIN r.tables : r.tables[t].hand < r.nextHand
  /\ \A t, u \in DOMAIN r.tables :
       t # u /\ r.tables[t].hand # NoHand => r.tables[t].hand # r.tables[u].hand

(* Whoever waits is in one queue, once, and not seated. *)
WaitEntries == [session : Sessions, request : SeatRequests]
QueueFits(r, t) ==
  LET queue == r.tables[t].queue IN
  /\ queue \in Seq(WaitEntries)
  /\ \A i \in 1 .. Len(queue) :
       /\ queue[i].session \in DOMAIN r.waits /\ r.waits[queue[i].session] = t
       /\ queue[i].session \notin DOMAIN r.sessions
  /\ \A i, j \in 1 .. Len(queue) : queue[i].session = queue[j].session => i = j
Queues(r) == \A t \in DOMAIN r.tables : QueueFits(r, t)

Sound(r) ==
  /\ IsRegistry(r) /\ Counted(r)
  /\ Routing(r) /\ Persons(r) /\ HandsNumbered(r) /\ Queues(r)
  /\ \A t \in DOMAIN r.tables : TableFits(r.tables[t])
AllImaged(r) == \A t \in DOMAIN r.tables : Imaged(r.tables[t])

(* The same of a checkpoint. *)
FileFits(c) ==
  /\ c.nextTable \in Nat \ {0} /\ c.nextPlayer \in Nat /\ c.nextHand \in Nat \ {0}
  /\ \A t \in DOMAIN c.tables :
       /\ t \in Nat \ {0} /\ t < c.nextTable
       /\ c.tables[t].cfg \in TableConfigs
       /\ RosterFits(c.tables[t].cfg, c.tables[t].image.roster)
       /\ TourFits(c.tables[t].tour, c.tables[t].image.roster)
       /\ c.tables[t].cfg.tour = NoTour => c.tables[t].tour = NoTour
  /\ \A s \in DOMAIN c.sessions :
       /\ c.sessions[s].table \in DOMAIN c.tables
       /\ c.sessions[s].seat \in DOMAIN c.tables[c.sessions[s].table].image.roster
       /\ c.tables[c.sessions[s].table].image.roster[c.sessions[s].seat].player = c.sessions[s].player
  /\ \A s, u \in DOMAIN c.sessions :
       c.sessions[s].table = c.sessions[u].table /\ c.sessions[s].seat = c.sessions[u].seat => s = u
  /\ \A t \in DOMAIN c.tables : \A x \in DOMAIN c.tables[t].image.roster :
       /\ c.tables[t].image.roster[x].player < c.nextPlayer
       /\ \E s \in DOMAIN c.sessions : c.sessions[s].table = t /\ c.sessions[s].seat = x
  /\ \A t, u \in DOMAIN c.tables :
       \A x \in DOMAIN c.tables[t].image.roster, y \in DOMAIN c.tables[u].image.roster :
         c.tables[t].image.roster[x].player = c.tables[u].image.roster[y].player => t = u /\ x = y

RegistryInv ==
  /\ Sound(reg) /\ AllImaged(reg)
  /\ ckpt # NoFile => FileFits(ckpt)

-----------------------------------------------------------------------------
(* The loops.  Each is a function on an initial segment of the numbers; that *)
(* there is one is shown by the least number up to which there is none.       *)

(* The passes of the blind clock. *)
TickLoop(c, time, n, f) ==
  f = [k \in 0 .. n |->
         IF k = 0 THEN <<c, time>>
         ELSE LET before == f[k - 1]
              IN  IF before[2] = 0 THEN before ELSE TickPass(before[1], before[2])]

(* The clock has its passes. *)
LEMMA TickLoopExists ==
  ASSUME NEW c, NEW time, NEW n \in Nat
  PROVE  \E f : TickLoop(c, time, n, f)
<1> DEFINE Bad == {k \in Nat : ~ \E f : TickLoop(c, time, k, f)}
<1>1. SUFFICES ASSUME Bad # {} PROVE FALSE
  OBVIOUS
<1>2. PICK m \in Bad : \A k \in Bad : m <= k
  BY <1>1, LeastOf
<1>3. CASE m = 0
  <2> DEFINE f == [k \in 0 .. 0 |-> <<c, time>>]
  <2>1. TickLoop(c, time, 0, f)
    BY DEF TickLoop
  <2> QED BY <1>2, <1>3, <2>1
<1>4. CASE m # 0
  <2>1. m - 1 \in Nat /\ m - 1 \notin Bad
    BY <1>2, <1>4
  <2>2. PICK f : TickLoop(c, time, m - 1, f)
    BY <2>1
  <2> DEFINE Next(x) == IF x[2] = 0 THEN x ELSE TickPass(x[1], x[2])
             g == [k \in 0 .. m |-> IF k = m THEN Next(f[m - 1]) ELSE f[k]]
  <2>3. \A k \in 0 .. m - 1 : f[k] = IF k = 0 THEN <<c, time>> ELSE Next(f[k - 1])
    BY <2>2 DEF TickLoop
  <2> HIDE DEF Next
  <2>4. \A k \in 0 .. m : g[k] = IF k = 0 THEN <<c, time>> ELSE Next(g[k - 1])
    BY <1>2, <1>4, <2>1, <2>3
  <2>5. g = [k \in 0 .. m |-> IF k = 0 THEN <<c, time>> ELSE Next(g[k - 1])]
    BY <2>4
  <2>6. TickLoop(c, time, m, g)
    BY <2>5 DEF TickLoop, Next
  <2> QED BY <1>2, <2>6
<1> QED BY <1>3, <1>4

(* The clock changes nothing but the clock. *)
LEMMA TickKeeps ==
  ASSUME NEW c, IsController(c), NEW time \in Nat
  PROVE  /\ IsController(Tick(c, time))
         /\ Tick(c, time).entrants = c.entrants /\ Tick(c, time).remaining = c.remaining
<1> DEFINE Same(x) == IsController(x) /\ x.entrants = c.entrants /\ x.remaining = c.remaining
<1>1. PICK f : TickLoop(c, time, time, f)
  BY TickLoopExists
<1> DEFINE loop == CHOOSE g : TickLoop(c, time, time, g)
<1>2. TickLoop(c, time, time, loop)
  BY <1>1
<1>3. Tick(c, time) = IF c.status \in {"Running", "Break"} THEN loop[time][1] ELSE c
  BY DEF Tick, TickLoop
<1> HIDE DEF loop
<1>4. ASSUME NEW x, NEW left, Same(x) PROVE Same(TickPass(x, left)[1])
  BY <1>4 DEF TickPass, IsController
<1> DEFINE Bad == {k \in 0 .. time : ~Same(loop[k][1])}
<1>5. Bad = {}
  <2>1. SUFFICES ASSUME Bad # {} PROVE FALSE
    OBVIOUS
  <2> HIDE DEF Same
  <2>2. PICK m \in Bad : \A k \in Bad : m <= k
    <3>1. Bad \subseteq Nat
      OBVIOUS
    <3> QED BY <2>1, <3>1, LeastOf
  <2>3. loop[m] = IF m = 0 THEN <<c, time>>
                  ELSE IF loop[m - 1][2] = 0 THEN loop[m - 1] ELSE TickPass(loop[m - 1][1], loop[m - 1][2])
    BY <1>2, <2>2 DEF TickLoop
  <2>4. m # 0
    BY <2>2, <2>3 DEF Same
  <2>5. m - 1 \in 0 .. time /\ m - 1 \notin Bad
    BY <2>2, <2>4
  <2>6. Same(loop[m - 1][1])
    BY <2>5
  <2>7. Same(loop[m][1])
    BY <1>4, <2>3, <2>4, <2>6
  <2> QED BY <2>2, <2>7
<1>6. Same(loop[time][1])
  BY <1>5
<1> QED BY <1>3, <1>6

(* The passes of the queue at a boundary. *)
AdmitLoop(r, t, n, f) ==
  f = [k \in 0 .. n |->
         IF k = 0 THEN r
         ELSE IF Admissible(f[k - 1], t) THEN AdmitHead(f[k - 1], t) ELSE f[k - 1]]

(* The loop has its passes. *)
LEMMA AdmitLoopExists ==
  ASSUME NEW r, NEW t, NEW n \in Nat
  PROVE  \E f : AdmitLoop(r, t, n, f)
<1> DEFINE Bad == {k \in Nat : ~ \E f : AdmitLoop(r, t, k, f)}
<1>1. SUFFICES ASSUME Bad # {} PROVE FALSE
  OBVIOUS
<1>2. PICK m \in Bad : \A k \in Bad : m <= k
  BY <1>1, LeastOf
<1>3. CASE m = 0
  <2> DEFINE f == [k \in 0 .. 0 |-> r]
  <2>1. AdmitLoop(r, t, 0, f)
    BY DEF AdmitLoop
  <2> QED BY <1>2, <1>3, <2>1
<1>4. CASE m # 0
  <2>1. m - 1 \in Nat /\ m - 1 \notin Bad
    BY <1>2, <1>4
  <2>2. PICK f : AdmitLoop(r, t, m - 1, f)
    BY <2>1
  <2> DEFINE Pass(x, k) == IF Admissible(x, t) THEN AdmitHead(x, t) ELSE x
             g == [k \in 0 .. m |-> IF k = m THEN Pass(f[m - 1], m) ELSE f[k]]
  <2>3. \A k \in 0 .. m - 1 : f[k] = IF k = 0 THEN r ELSE Pass(f[k - 1], k)
    BY <2>2 DEF AdmitLoop
  <2> HIDE DEF Pass
  <2>4. \A k \in 0 .. m : g[k] = IF k = 0 THEN r ELSE Pass(g[k - 1], k)
    BY <1>2, <1>4, <2>1, <2>3
  <2>5. g = [k \in 0 .. m |-> IF k = 0 THEN r ELSE Pass(g[k - 1], k)]
    BY <2>4
  <2>6. AdmitLoop(r, t, m, g)
    BY <2>5 DEF AdmitLoop, Pass
  <2> QED BY <1>2, <2>6
<1> QED BY <1>3, <1>4

(* The tables of a sweep. *)
SweepLoop(r, time, n, f) ==
  f = [k \in 0 .. n |->
         IF k = 0 THEN [ok |-> TRUE, r |-> r]
         ELSE IF k \in Terminal(r) THEN FinalizeOne(f[k - 1], k, time) ELSE f[k - 1]]

(* The loop has its passes. *)
LEMMA SweepLoopExists ==
  ASSUME NEW r, NEW time, NEW n \in Nat
  PROVE  \E f : SweepLoop(r, time, n, f)
<1> DEFINE Bad == {k \in Nat : ~ \E f : SweepLoop(r, time, k, f)}
<1>1. SUFFICES ASSUME Bad # {} PROVE FALSE
  OBVIOUS
<1>2. PICK m \in Bad : \A k \in Bad : m <= k
  BY <1>1, LeastOf
<1>3. CASE m = 0
  <2> DEFINE f == [k \in 0 .. 0 |-> [ok |-> TRUE, r |-> r]]
  <2>1. SweepLoop(r, time, 0, f)
    BY DEF SweepLoop
  <2> QED BY <1>2, <1>3, <2>1
<1>4. CASE m # 0
  <2>1. m - 1 \in Nat /\ m - 1 \notin Bad
    BY <1>2, <1>4
  <2>2. PICK f : SweepLoop(r, time, m - 1, f)
    BY <2>1
  <2> DEFINE Start == [ok |-> TRUE, r |-> r]
             Pass(x, k) == IF k \in Terminal(r) THEN FinalizeOne(x, k, time) ELSE x
             g == [k \in 0 .. m |-> IF k = m THEN Pass(f[m - 1], m) ELSE f[k]]
  <2>3. \A k \in 0 .. m - 1 : f[k] = IF k = 0 THEN Start ELSE Pass(f[k - 1], k)
    BY <2>2 DEF SweepLoop
  <2> HIDE DEF Start, Pass
  <2>4. \A k \in 0 .. m : g[k] = IF k = 0 THEN Start ELSE Pass(g[k - 1], k)
    BY <1>2, <1>4, <2>1, <2>3
  <2>5. g = [k \in 0 .. m |-> IF k = 0 THEN Start ELSE Pass(g[k - 1], k)]
    BY <2>4
  <2>6. SweepLoop(r, time, m, g)
    BY <2>5 DEF SweepLoop, Start, Pass
  <2> QED BY <1>2, <2>6
<1> QED BY <1>3, <1>4

(* The tables on a break. *)
BreakLoop(r, time, n, f) ==
  f = [k \in 0 .. n |->
         IF k = 0 THEN r
         ELSE IF k \in OnBreak(r) THEN AfterBreak(f[k - 1], k, time) ELSE f[k - 1]]

(* The loop has its passes. *)
LEMMA BreakLoopExists ==
  ASSUME NEW r, NEW time, NEW n \in Nat
  PROVE  \E f : BreakLoop(r, time, n, f)
<1> DEFINE Bad == {k \in Nat : ~ \E f : BreakLoop(r, time, k, f)}
<1>1. SUFFICES ASSUME Bad # {} PROVE FALSE
  OBVIOUS
<1>2. PICK m \in Bad : \A k \in Bad : m <= k
  BY <1>1, LeastOf
<1>3. CASE m = 0
  <2> DEFINE f == [k \in 0 .. 0 |-> r]
  <2>1. BreakLoop(r, time, 0, f)
    BY DEF BreakLoop
  <2> QED BY <1>2, <1>3, <2>1
<1>4. CASE m # 0
  <2>1. m - 1 \in Nat /\ m - 1 \notin Bad
    BY <1>2, <1>4
  <2>2. PICK f : BreakLoop(r, time, m - 1, f)
    BY <2>1
  <2> DEFINE Pass(x, k) == IF k \in OnBreak(r) THEN AfterBreak(x, k, time) ELSE x
             g == [k \in 0 .. m |-> IF k = m THEN Pass(f[m - 1], m) ELSE f[k]]
  <2>3. \A k \in 0 .. m - 1 : f[k] = IF k = 0 THEN r ELSE Pass(f[k - 1], k)
    BY <2>2 DEF BreakLoop
  <2> HIDE DEF Pass
  <2>4. \A k \in 0 .. m : g[k] = IF k = 0 THEN r ELSE Pass(g[k - 1], k)
    BY <1>2, <1>4, <2>1, <2>3
  <2>5. g = [k \in 0 .. m |-> IF k = 0 THEN r ELSE Pass(g[k - 1], k)]
    BY <2>4
  <2>6. BreakLoop(r, time, m, g)
    BY <2>5 DEF BreakLoop, Pass
  <2> QED BY <1>2, <2>6
<1> QED BY <1>3, <1>4

(* The operators are what their loops end with. *)
LEMMA AdmittedIsLoop ==
  ASSUME NEW r, NEW t, r.tables[t].tour = NoTour, Len(r.tables[t].queue) \in Nat
  PROVE  \E f : /\ AdmitLoop(r, t, Len(r.tables[t].queue), f)
                /\ Admitted(r, t) = f[Len(r.tables[t].queue)]
<1> DEFINE n == Len(r.tables[t].queue)
           loop == CHOOSE f : AdmitLoop(r, t, n, f)
<1>1. \E f : AdmitLoop(r, t, n, f)
  BY AdmitLoopExists
<1>2. AdmitLoop(r, t, n, loop)
  BY <1>1
<1>3. Admitted(r, t) = loop[n]
  BY DEF Admitted, AdmitLoop
<1> QED BY <1>2, <1>3

(* The operators are what their loops end with. *)
LEMMA FinalizedIsLoop ==
  ASSUME NEW r, NEW time, r.nextTable - 1 \in Nat
  PROVE  \E f : SweepLoop(r, time, r.nextTable - 1, f) /\ Finalized(r, time) = f[r.nextTable - 1]
<1> DEFINE n == r.nextTable - 1
           loop == CHOOSE f : SweepLoop(r, time, n, f)
<1>1. \E f : SweepLoop(r, time, n, f)
  BY SweepLoopExists
<1>2. SweepLoop(r, time, n, loop)
  BY <1>1
<1>3. Finalized(r, time) = loop[n]
  BY DEF Finalized, SweepLoop
<1> QED BY <1>2, <1>3

(* The operators are what their loops end with. *)
LEMMA BreaksAdvancedIsLoop ==
  ASSUME NEW r, NEW time, r.nextTable - 1 \in Nat
  PROVE  \E f : BreakLoop(r, time, r.nextTable - 1, f) /\ BreaksAdvanced(r, time) = f[r.nextTable - 1]
<1> DEFINE n == r.nextTable - 1
           loop == CHOOSE f : BreakLoop(r, time, n, f)
<1>1. \E f : BreakLoop(r, time, n, f)
  BY BreakLoopExists
<1>2. BreakLoop(r, time, n, loop)
  BY <1>1
<1>3. BreaksAdvanced(r, time) = loop[n]
  BY DEF BreaksAdvanced, BreakLoop
<1> QED BY <1>2, <1>3

-----------------------------------------------------------------------------
(* Tables. *)

(* The same persons with the same sessions sit at a table afterwards, or some of
   them. *)
Keeps(tb, q) ==
  /\ DOMAIN q.roster \subseteq DOMAIN tb.roster
  /\ \A x \in DOMAIN q.roster :
       q.roster[x].player = tb.roster[x].player /\ q.seatSess[x] = tb.seatSess[x]
  /\ q.cfg = tb.cfg

(* One person more. *)
Enters(tb, q, x, p, s) ==
  /\ x \notin DOMAIN tb.roster /\ DOMAIN q.roster = DOMAIN tb.roster \cup {x}
  /\ q.roster[x].player = p /\ q.seatSess[x] = s
  /\ \A y \in DOMAIN tb.roster : q.roster[y] = tb.roster[y] /\ q.seatSess[y] = tb.seatSess[y]
  /\ q.cfg = tb.cfg

(* A table after somebody sat down. *)
JoinedAt(tb, p, x, s) == [Registered(Seated(tb, p, x), p, x) EXCEPT !.seatSess = With(@, x, s)]

(* What the configurations say about seats. *)
LEMMA SeatsOfConfig ==
  ASSUME NEW cfg \in TableConfigs
  PROVE  cfg.seats \in Nat /\ cfg.stack \in Nat \ {0}
BY RegistryAssumption

(* A request for a seat is granted with a free one. *)
LEMMA SeatForIsFree ==
  ASSUME NEW tb, tb.cfg.seats \in Nat, NEW request, Seatable(tb, request)
  PROVE  SeatFor(tb, request) \in FreeSeats(tb)
<1>1. FreeSeats(tb) \subseteq Nat
  BY DEF FreeSeats, TableSeats
<1>2. CASE request = AnySeat
  <2>1. FreeSeats(tb) # {}
    BY <1>2 DEF Seatable
  <2>2. \E m \in FreeSeats(tb) : \A n \in FreeSeats(tb) : m <= n
    BY <1>1, <2>1, LeastOf
  <2>3. Min(FreeSeats(tb)) \in FreeSeats(tb)
    BY <2>2 DEF Min
  <2> QED BY <1>2, <2>3 DEF SeatFor
<1>3. CASE request # AnySeat
  BY <1>3 DEF Seatable, SeatFor
<1> QED BY <1>2, <1>3

(* Whom no seat is free for has none when there are fewer. *)
LEMMA SeatableWithFewer ==
  ASSUME NEW tb, NEW q, FreeSeats(q) \subseteq FreeSeats(tb), NEW request, Seatable(q, request)
  PROVE  Seatable(tb, request)
BY DEF Seatable

(* refresh_between_hand_state touches the state of the run only. *)
LEMMA RefreshedKeeps ==
  ASSUME NEW tb, IsTable(tb)
  PROVE  /\ IsTable(Refreshed(tb))
         /\ Refreshed(tb).cfg = tb.cfg /\ Refreshed(tb).roster = tb.roster
         /\ Refreshed(tb).leaving = tb.leaving /\ Refreshed(tb).hand = tb.hand
         /\ Refreshed(tb).dealt = tb.dealt /\ Refreshed(tb).result = tb.result
         /\ Refreshed(tb).durable = tb.durable /\ Refreshed(tb).seatSess = tb.seatSess
         /\ Refreshed(tb).queue = tb.queue /\ Refreshed(tb).departures = tb.departures
         /\ Refreshed(tb).tour = tb.tour
BY DEF Refreshed, IsTable

(* The roster of nobody. *)
LEMMA NobodySeated ==
  DOMAIN NoRoster = {} /\ DOMAIN Pending = {}
BY DEF NoRoster, Pending

(* A new table has nobody. *)
LEMMA FreshTable ==
  ASSUME NEW cfg \in TableConfigs
  PROVE  /\ TableFits(NewTable(cfg)) /\ Imaged(NewTable(cfg))
         /\ DOMAIN NewTable(cfg).roster = {} /\ NewTable(cfg).queue = <<>>
         /\ NewTable(cfg).hand = NoHand /\ NewTable(cfg).cfg = cfg
<1> DEFINE tour == IF cfg.tour = NoTour THEN NoTour ELSE NewController(cfg.tour)
<1>1. tour # NoTour => IsController(tour) /\ DOMAIN tour.entrants = {}
  <2>1. DOMAIN <<>> = {}
    OBVIOUS
  <2> DEFINE none == <<>>
             c == [cfg |-> cfg.tour, status |-> "Registering", entrants |-> none, remaining |-> {},
                   level |-> 1, elapsed |-> 0, rest |-> 0, standings |-> none]
  <2>2. tour # NoTour => tour = c
    BY DEF NewController
  <2>3. DOMAIN none = {}
    BY <2>1
  <2> HIDE DEF none, tour
  <2>4. IsController(c) /\ c.entrants = none
    BY DEF IsController
  <2> QED BY <2>2, <2>3, <2>4
<1>2. cfg.tour = NoTour => tour = NoTour
  OBVIOUS
<1> HIDE DEF tour
<1> DEFINE tb == [cfg |-> cfg, roster |-> NoRoster, run |-> "Waiting", hands |-> FALSE,
                  leaving |-> {}, hand |-> NoHand, dealt |-> NoRoster, result |-> Pending,
                  durable |-> Pending, seatSess |-> NoRoster, queue |-> <<>>,
                  departures |-> {}, tour |-> tour]
           image == Image(tb)
           new == [tb EXCEPT !.durable = image]
<1>3. /\ IsTable(tb) /\ tb.cfg = cfg /\ tb.roster = NoRoster /\ tb.leaving = {} /\ tb.hand = NoHand
      /\ tb.dealt = NoRoster /\ tb.result = Pending
      /\ tb.seatSess = NoRoster /\ tb.queue = <<>> /\ tb.departures = {} /\ tb.tour = tour
  BY DEF IsTable
<1>4. NewTable(cfg) = new
  BY DEF NewTable, tour
<1> HIDE DEF tb
<1>5. image.roster = NoRoster
  BY <1>3 DEF Image
<1> HIDE DEF image
<1>6. IsTable(new) /\ new.cfg = cfg /\ new.roster = NoRoster /\ new.leaving = {} /\ new.hand = NoHand
      /\ new.dealt = NoRoster /\ new.result = Pending /\ new.durable.roster = NoRoster
      /\ new.seatSess = NoRoster /\ new.queue = <<>> /\ new.departures = {} /\ new.tour = tour
  BY <1>3, <1>5 DEF IsTable
<1>7. RosterFits(new.cfg, new.roster)
  BY <1>6, NobodySeated DEF RosterFits
<1>8. TourFits(new.tour, new.roster)
  BY <1>1, <1>6, NobodySeated DEF TourFits
<1>9. HandFits(new)
  BY <1>6, NobodySeated DEF HandFits
<1>10. TableFits(new)
  BY <1>2, <1>6, <1>7, <1>8, <1>9, NobodySeated DEF TableFits, NoHand
<1> HIDE DEF new
<1> QED BY <1>4, <1>6, <1>10, NobodySeated DEF Imaged

(* Somebody sits down between hands. *)
LEMMA JoinedTable ==
  ASSUME NEW tb, TableFits(tb), tb.hand = NoHand,
         NEW x \in FreeSeats(tb), NEW p \in Nat, NEW s,
         tb.tour # NoTour => CanRegister(tb.tour, p, x)
  PROVE  /\ TableFits(JoinedAt(tb, p, x, s)) /\ Enters(tb, JoinedAt(tb, p, x, s), x, p, s)
         /\ JoinedAt(tb, p, x, s).hand = NoHand /\ JoinedAt(tb, p, x, s).queue = tb.queue
         /\ tb.tour = NoTour =>
              /\ JoinedAt(tb, p, x, s) = [Seated(tb, p, x) EXCEPT !.seatSess = With(@, x, s)]
              /\ JoinedAt(tb, p, x, s).tour = NoTour
              /\ IsTable(Seated(tb, p, x)) /\ Seated(tb, p, x).queue = tb.queue
<1> DEFINE seated == [tb EXCEPT !.roster = With(@, x, [player |-> p, stack |-> tb.cfg.stack])]
           fresh == Seated(tb, p, x)
           c == RegisterEntrant(tb.tour, p, x)
           tour == IF tb.tour = NoTour THEN NoTour ELSE IF CanStart(c) THEN StartTournament(c) ELSE c
           registered == Registered(fresh, p, x)
           q == JoinedAt(tb, p, x, s)
           roster == With(tb.roster, x, [player |-> p, stack |-> tb.cfg.stack])
           sess == With(tb.seatSess, x, s)
<1>1. /\ IsTable(tb) /\ tb.cfg \in TableConfigs /\ tb.cfg.seats \in Nat /\ tb.cfg.stack \in Nat \ {0}
      /\ DOMAIN tb.seatSess = DOMAIN tb.roster /\ RosterFits(tb.cfg, tb.roster)
      /\ TourFits(tb.tour, tb.roster) /\ (tb.cfg.tour = NoTour => tb.tour = NoTour) /\ HandFits(tb)
  BY SeatsOfConfig DEF TableFits
<1>2. x \in 0 .. tb.cfg.seats - 1 /\ x \notin DOMAIN tb.roster
  BY DEF FreeSeats, TableSeats
<1>3. /\ DOMAIN roster = DOMAIN tb.roster \cup {x}
      /\ roster[x] = [player |-> p, stack |-> tb.cfg.stack]
      /\ \A y \in DOMAIN tb.roster : roster[y] = tb.roster[y]
  BY <1>2 DEF With
<1>4. /\ DOMAIN sess = DOMAIN tb.roster \cup {x} /\ sess[x] = s
      /\ \A y \in DOMAIN tb.roster : sess[y] = tb.seatSess[y]
  BY <1>1, <1>2 DEF With
<1>5. /\ IsTable(seated) /\ seated.cfg = tb.cfg /\ seated.roster = roster /\ seated.leaving = tb.leaving
      /\ seated.hand = tb.hand /\ seated.dealt = tb.dealt /\ seated.result = tb.result
      /\ seated.seatSess = tb.seatSess /\ seated.queue = tb.queue
      /\ seated.departures = tb.departures /\ seated.tour = tb.tour
  <2> HIDE DEF roster
  <2>1. seated = [tb EXCEPT !.roster = roster]
    BY DEF roster, IsTable
  <2> QED BY <1>1, <2>1 DEF IsTable
<1>6. fresh = Refreshed(seated)
  BY DEF Seated
<1>7. /\ IsTable(fresh) /\ fresh.cfg = tb.cfg /\ fresh.roster = roster /\ fresh.leaving = tb.leaving
      /\ fresh.hand = tb.hand /\ fresh.dealt = tb.dealt /\ fresh.result = tb.result
      /\ fresh.seatSess = tb.seatSess /\ fresh.queue = tb.queue
      /\ fresh.departures = tb.departures /\ fresh.tour = tb.tour
  <2> HIDE DEF seated, fresh
  <2> QED BY <1>5, <1>6, RefreshedKeeps
<1>8. tb.tour = NoTour => registered = fresh
  <2> HIDE DEF fresh
  <2> QED BY <1>7 DEF Registered
<1>9. tb.tour # NoTour => registered = [fresh EXCEPT !.tour = tour]
  <2> HIDE DEF fresh
  <2> QED BY <1>7 DEF Registered
<1> HIDE DEF fresh, registered, roster, sess
<1>10. /\ IsTable(registered) /\ registered.cfg = tb.cfg /\ registered.roster = roster
       /\ registered.leaving = tb.leaving
       /\ registered.hand = tb.hand /\ registered.dealt = tb.dealt /\ registered.result = tb.result
       /\ registered.seatSess = tb.seatSess /\ registered.queue = tb.queue
       /\ registered.departures = tb.departures /\ registered.tour = tour
  <2>1. CASE tb.tour = NoTour
    BY <1>7, <1>8, <2>1
  <2>2. CASE tb.tour # NoTour
    <3> HIDE DEF tour
    <3> QED BY <1>7, <1>9, <2>2 DEF IsTable
  <2> QED BY <2>1, <2>2
<1>11. q = [registered EXCEPT !.seatSess = sess]
  BY <1>10 DEF JoinedAt, registered, fresh, sess, IsTable
<1> HIDE DEF q
<1>12. tb.tour = NoTour => q = [Seated(tb, p, x) EXCEPT !.seatSess = With(@, x, s)]
  BY <1>7, <1>8, <1>11 DEF fresh, sess
<1>13. /\ IsTable(q) /\ q.cfg = tb.cfg /\ q.roster = roster /\ q.leaving = tb.leaving
       /\ q.hand = tb.hand /\ q.dealt = tb.dealt /\ q.result = tb.result
       /\ q.seatSess = sess /\ q.queue = tb.queue
       /\ q.departures = tb.departures /\ q.tour = tour
  <2> HIDE DEF tour
  <2> QED BY <1>10, <1>11 DEF IsTable
<1>14. RosterFits(q.cfg, q.roster)
  <2>1. tb.cfg.stack \in Nat /\ roster[x].player = p /\ roster[x].stack = tb.cfg.stack
    BY <1>1, <1>3
  <2>2. \A y \in DOMAIN roster :
          /\ roster[y] = [player |-> roster[y].player, stack |-> roster[y].stack]
          /\ roster[y].player \in Nat /\ roster[y].stack \in Nat
    BY <1>1, <1>3, <2>1 DEF RosterFits
  <2>3. DOMAIN roster \subseteq 0 .. tb.cfg.seats - 1
    BY <1>1, <1>2, <1>3 DEF RosterFits
  <2> QED BY <1>13, <2>2, <2>3 DEF RosterFits
<1>15. ASSUME tb.tour # NoTour
       PROVE  /\ IsController(tour)
              /\ tour.entrants = With(tb.tour.entrants, p, x)
              /\ tour.remaining = tb.tour.remaining \cup {p}
  <2>1. IsController(tb.tour)
    BY <1>1, <1>15 DEF TourFits
  <2>2. /\ IsController(c) /\ c.entrants = With(tb.tour.entrants, p, x)
        /\ c.remaining = tb.tour.remaining \cup {p}
    <3> DEFINE e == With(tb.tour.entrants, p, x)
               m == tb.tour.remaining \cup {p}
    <3>1. c = [tb.tour EXCEPT !.entrants = e, !.remaining = m]
      BY <2>1 DEF RegisterEntrant, IsController
    <3> HIDE DEF e, m, c
    <3>2. IsController(c) /\ c.entrants = e /\ c.remaining = m
      BY <2>1, <3>1 DEF IsController
    <3> QED BY <3>2 DEF e, m
  <2> HIDE DEF c
  <2> QED BY <1>15, <2>2 DEF StartTournament, IsController
<1>16. TourFits(q.tour, q.roster)
  <2>1. SUFFICES ASSUME tb.tour # NoTour PROVE TourFits(tour, roster)
    BY <1>13 DEF TourFits
  <2>2. /\ p \notin DOMAIN tb.tour.entrants
        /\ \A o \in DOMAIN tb.tour.entrants : tb.tour.entrants[o] # x
    BY <2>1 DEF CanRegister
  <2>3. /\ DOMAIN tour.entrants = DOMAIN tb.tour.entrants \cup {p}
        /\ tour.entrants[p] = x
        /\ \A o \in DOMAIN tb.tour.entrants : tour.entrants[o] = tb.tour.entrants[o]
    BY <1>15, <2>1, <2>2 DEF With
  <2>4. /\ \A o, u \in DOMAIN tb.tour.entrants : tb.tour.entrants[o] = tb.tour.entrants[u] => o = u
        /\ \A y \in DOMAIN tb.roster :
             /\ tb.roster[y].player \in DOMAIN tb.tour.entrants
             /\ tb.tour.entrants[tb.roster[y].player] = y
             /\ tb.roster[y].player \in tb.tour.remaining <=> tb.roster[y].stack > 0
    BY <1>1, <2>1 DEF TourFits
  <2>5. \A o, u \in DOMAIN tour.entrants : tour.entrants[o] = tour.entrants[u] => o = u
    BY <2>2, <2>3, <2>4
  <2>6. ASSUME NEW y \in DOMAIN roster
        PROVE  /\ roster[y].player \in DOMAIN tour.entrants
               /\ tour.entrants[roster[y].player] = y
               /\ roster[y].player \in tour.remaining <=> roster[y].stack > 0
    <3>1. CASE y = x
      <4>1. roster[y].player = p /\ roster[y].stack = tb.cfg.stack
        BY <1>3, <3>1
      <4>2. p \in tour.remaining /\ tb.cfg.stack > 0
        BY <1>1, <1>15, <2>1
      <4> HIDE DEF tour
      <4> QED BY <2>3, <3>1, <4>1, <4>2
    <3>2. CASE y \in DOMAIN tb.roster
      <4>1. roster[y] = tb.roster[y] /\ tb.roster[y].player # p
        BY <1>3, <2>2, <2>4, <3>2
      <4>2. tb.roster[y].player \in tour.remaining <=> tb.roster[y].player \in tb.tour.remaining
        BY <1>15, <2>1, <4>1
      <4> HIDE DEF tour
      <4> QED BY <2>3, <2>4, <3>2, <4>1, <4>2
    <3> QED BY <1>3, <3>1, <3>2
  <2>7. IsController(tour)
    BY <1>15, <2>1
  <2> HIDE DEF tour
  <2> QED BY <2>5, <2>6, <2>7 DEF TourFits
<1>17. HandFits(q)
  <2>1. tb.leaving = {} /\ tb.departures = {} /\ DOMAIN tb.dealt = {} /\ DOMAIN tb.result = {}
    BY <1>1 DEF HandFits
  <2> QED BY <1>13, <2>1 DEF HandFits
<1>18. q.cfg.tour = NoTour => q.tour = NoTour
  BY <1>1, <1>13
<1>19. TableFits(q)
  BY <1>1, <1>3, <1>4, <1>13, <1>14, <1>16, <1>17, <1>18 DEF TableFits, NoHand
<1>20. Enters(tb, q, x, p, s)
  BY <1>2, <1>3, <1>4, <1>13 DEF Enters
<1>21. tb.tour = NoTour => q.tour = NoTour
  BY <1>13
<1>22. IsTable(Seated(tb, p, x)) /\ Seated(tb, p, x).queue = tb.queue
  BY <1>7 DEF fresh
<1> HIDE DEF tour
<1> QED BY <1>12, <1>13, <1>19, <1>20, <1>21, <1>22 DEF q

(* A hand begins between hands. *)
LEMMA DealtTable ==
  ASSUME NEW tb, TableFits(tb), tb.hand = NoHand, NEW h \in Nat \ {0}
  PROVE  /\ TableFits(Dealt(tb, h)) /\ Keeps(tb, Dealt(tb, h))
         /\ Dealt(tb, h).hand = h /\ Dealt(tb, h).roster = tb.roster
         /\ Dealt(tb, h).durable = tb.durable /\ Dealt(tb, h).queue = tb.queue
<1> DEFINE q == Dealt(tb, h)
           dealt == [x \in EligibleSeats(tb) |-> tb.roster[x].stack]
<1>1. /\ IsTable(tb) /\ tb.cfg \in TableConfigs /\ DOMAIN tb.seatSess = DOMAIN tb.roster
      /\ RosterFits(tb.cfg, tb.roster) /\ TourFits(tb.tour, tb.roster)
      /\ (tb.cfg.tour = NoTour => tb.tour = NoTour) /\ HandFits(tb)
  BY DEF TableFits
<1>2. DOMAIN dealt = EligibleSeats(tb)
  OBVIOUS
<1>3. q = [tb EXCEPT !.hand = h, !.hands = TRUE, !.run = "Running", !.result = Pending, !.dealt = dealt]
  BY DEF Dealt
<1> HIDE DEF q, dealt
<1>4. /\ IsTable(q) /\ q.cfg = tb.cfg /\ q.roster = tb.roster /\ q.leaving = tb.leaving /\ q.hand = h
      /\ q.dealt = dealt /\ q.result = Pending /\ q.durable = tb.durable /\ q.seatSess = tb.seatSess
      /\ q.queue = tb.queue /\ q.departures = tb.departures /\ q.tour = tb.tour
  BY <1>1, <1>3 DEF IsTable
<1>5. tb.leaving = {} /\ tb.departures = {}
  BY <1>1 DEF HandFits
<1>6. EligibleSeats(q) = EligibleSeats(tb)
  BY <1>4 DEF EligibleSeats
<1>7. HandFits(q)
  BY <1>2, <1>4, <1>5, <1>6, NobodySeated DEF HandFits, NoHand
<1>8. TableFits(q)
  BY <1>1, <1>4, <1>7 DEF TableFits
<1>9. Keeps(tb, q)
  BY <1>4 DEF Keeps
<1> QED BY <1>4, <1>8, <1>9 DEF q

(* The image for the checkpoint is taken. *)
LEMMA DurableTable ==
  ASSUME NEW tb, TableFits(tb)
  PROVE  /\ TableFits(Durable(tb)) /\ Keeps(tb, Durable(tb)) /\ Imaged(Durable(tb))
         /\ Durable(tb).hand = tb.hand /\ Durable(tb).roster = tb.roster
         /\ Durable(tb).queue = tb.queue /\ Durable(tb).seatSess = tb.seatSess
         /\ Durable(tb).cfg = tb.cfg
<1> DEFINE q == Durable(tb)
           image == Image(tb)
<1>1. /\ IsTable(tb) /\ tb.cfg \in TableConfigs /\ DOMAIN tb.seatSess = DOMAIN tb.roster
      /\ RosterFits(tb.cfg, tb.roster) /\ TourFits(tb.tour, tb.roster) /\ tb.hand \in Nat
      /\ (tb.cfg.tour = NoTour => tb.tour = NoTour) /\ HandFits(tb)
  BY DEF TableFits
<1>2. q = [tb EXCEPT !.durable = image]
  BY DEF Durable
<1>3. image.roster = tb.roster
  BY DEF Image
<1> HIDE DEF q, image
<1>4. /\ IsTable(q) /\ q.cfg = tb.cfg /\ q.roster = tb.roster /\ q.leaving = tb.leaving
      /\ q.hand = tb.hand /\ q.dealt = tb.dealt /\ q.result = tb.result /\ q.durable = image
      /\ q.seatSess = tb.seatSess
      /\ q.queue = tb.queue /\ q.departures = tb.departures /\ q.tour = tb.tour
  BY <1>1, <1>2 DEF IsTable
<1>5. EligibleSeats(q) = EligibleSeats(tb)
  BY <1>4 DEF EligibleSeats
<1>6. HandFits(q)
  BY <1>1, <1>4, <1>5 DEF HandFits
<1>7. TableFits(q)
  BY <1>1, <1>4, <1>6 DEF TableFits
<1>8. Keeps(tb, q) /\ Imaged(q)
  BY <1>3, <1>4 DEF Keeps, Imaged
<1> QED BY <1>4, <1>7, <1>8 DEF q

(* A break goes on. *)
LEMMA TickedTable ==
  ASSUME NEW tb, TableFits(tb), tb.tour # NoTour, NEW time \in Nat
  PROVE  LET q == [tb EXCEPT !.tour = Tick(@, time)] IN
         /\ TableFits(q) /\ Keeps(tb, q)
         /\ q.hand = tb.hand /\ q.roster = tb.roster /\ q.durable = tb.durable /\ q.queue = tb.queue
<1> DEFINE q == [tb EXCEPT !.tour = Tick(@, time)]
           tour == Tick(tb.tour, time)
<1>1. /\ IsTable(tb) /\ tb.cfg \in TableConfigs /\ DOMAIN tb.seatSess = DOMAIN tb.roster
      /\ RosterFits(tb.cfg, tb.roster) /\ TourFits(tb.tour, tb.roster) /\ tb.hand \in Nat
      /\ (tb.cfg.tour = NoTour => tb.tour = NoTour) /\ HandFits(tb)
  BY DEF TableFits
<1>2. q = [tb EXCEPT !.tour = tour]
  BY <1>1 DEF IsTable
<1>3. IsController(tb.tour)
  BY <1>1 DEF TourFits
<1>4. IsController(tour) /\ tour.entrants = tb.tour.entrants /\ tour.remaining = tb.tour.remaining
  BY <1>3, TickKeeps
<1> HIDE DEF q, tour
<1>5. /\ IsTable(q) /\ q.cfg = tb.cfg /\ q.roster = tb.roster /\ q.leaving = tb.leaving
      /\ q.hand = tb.hand /\ q.dealt = tb.dealt /\ q.result = tb.result /\ q.durable = tb.durable
      /\ q.seatSess = tb.seatSess
      /\ q.queue = tb.queue /\ q.departures = tb.departures /\ q.tour = tour
  BY <1>1, <1>2 DEF IsTable
<1>6. EligibleSeats(q) = EligibleSeats(tb)
  BY <1>5 DEF EligibleSeats
<1>7. HandFits(q)
  BY <1>1, <1>5, <1>6 DEF HandFits
<1>8. TourFits(q.tour, q.roster)
  BY <1>1, <1>4, <1>5 DEF TourFits
<1>9. TableFits(q)
  BY <1>1, <1>5, <1>7, <1>8 DEF TableFits
<1>10. Keeps(tb, q)
  BY <1>5 DEF Keeps
<1> QED BY <1>5, <1>9, <1>10 DEF q

(* A registered player withdraws. *)
WithdrawnTable(tb, x) ==
  Durable([Unseated(tb, x) EXCEPT !.tour = UnregisterEntrant(tb.tour, tb.roster[x].player)])

(* A registered player withdraws. *)
LEMMA Withdrawing ==
  ASSUME NEW tb, TableFits(tb), tb.hand = NoHand, tb.tour # NoTour, NEW x \in DOMAIN tb.roster
  PROVE  LET q == WithdrawnTable(tb, x) IN
         /\ TableFits(q) /\ Keeps(tb, q) /\ Imaged(q) /\ q.hand = NoHand /\ q.queue = tb.queue
         /\ DOMAIN q.roster = DOMAIN tb.roster \ {x}
<1> DEFINE p == tb.roster[x].player
           roster == Without(tb.roster, x)
           sess == Without(tb.seatSess, x)
           out == [tb EXCEPT !.roster = roster, !.seatSess = sess]
           fresh == Unseated(tb, x)
           tour == UnregisterEntrant(tb.tour, p)
           q == [fresh EXCEPT !.tour = tour]
<1>1. /\ IsTable(tb) /\ tb.cfg \in TableConfigs /\ DOMAIN tb.seatSess = DOMAIN tb.roster
      /\ RosterFits(tb.cfg, tb.roster) /\ TourFits(tb.tour, tb.roster) /\ tb.hand \in Nat
      /\ (tb.cfg.tour = NoTour => tb.tour = NoTour) /\ HandFits(tb)
  BY DEF TableFits
<1>2. /\ DOMAIN roster = DOMAIN tb.roster \ {x} /\ DOMAIN sess = DOMAIN tb.roster \ {x}
      /\ \A y \in DOMAIN tb.roster \ {x} : roster[y] = tb.roster[y] /\ sess[y] = tb.seatSess[y]
  BY <1>1 DEF Without
<1>3. fresh = Refreshed(out)
  BY <1>1 DEF Unseated, IsTable
<1> HIDE DEF roster, sess
<1>4. /\ IsTable(out) /\ out.cfg = tb.cfg /\ out.roster = roster /\ out.leaving = tb.leaving
      /\ out.hand = tb.hand /\ out.dealt = tb.dealt /\ out.result = tb.result
      /\ out.seatSess = sess /\ out.queue = tb.queue /\ out.departures = tb.departures
  <2>1. IsTable(tb) /\ out = [tb EXCEPT !.roster = roster, !.seatSess = sess]
    BY <1>1
  <2> HIDE DEF out
  <2> QED BY <2>1 DEF IsTable
<1> HIDE DEF out, fresh
<1>5. /\ IsTable(fresh) /\ fresh.cfg = tb.cfg /\ fresh.roster = roster /\ fresh.leaving = tb.leaving
      /\ fresh.hand = tb.hand /\ fresh.dealt = tb.dealt /\ fresh.result = tb.result
      /\ fresh.seatSess = sess /\ fresh.queue = tb.queue /\ fresh.departures = tb.departures
  BY <1>3, <1>4, RefreshedKeeps
<1>6. /\ IsController(tour) /\ tour.entrants = Without(tb.tour.entrants, p)
      /\ tour.remaining = tb.tour.remaining \ {p}
  <2>1. IsController(tb.tour)
    BY <1>1 DEF TourFits
  <2> DEFINE e == Without(tb.tour.entrants, p)
             m == tb.tour.remaining \ {p}
  <2>2. tour = [tb.tour EXCEPT !.entrants = e, !.remaining = m]
    BY <2>1 DEF UnregisterEntrant, IsController
  <2> HIDE DEF e, m, tour
  <2>3. IsController(tour) /\ tour.entrants = e /\ tour.remaining = m
    BY <2>1, <2>2 DEF IsController
  <2> QED BY <2>3 DEF e, m
<1> HIDE DEF tour
<1>7. /\ IsTable(q) /\ q.cfg = tb.cfg /\ q.roster = roster /\ q.leaving = tb.leaving
      /\ q.hand = tb.hand /\ q.dealt = tb.dealt /\ q.result = tb.result
      /\ q.seatSess = sess /\ q.queue = tb.queue /\ q.departures = tb.departures /\ q.tour = tour
  BY <1>5 DEF IsTable
<1> HIDE DEF q
<1>8. RosterFits(q.cfg, q.roster)
  <2>1. \A y \in DOMAIN roster : y \in DOMAIN tb.roster /\ roster[y] = tb.roster[y]
    BY <1>2
  <2>2. RosterFits(tb.cfg, roster)
    BY <1>1, <2>1 DEF RosterFits
  <2> QED BY <1>7, <2>2
<1>9. TourFits(q.tour, q.roster)
  <2>1. /\ \A o, u \in DOMAIN tb.tour.entrants : tb.tour.entrants[o] = tb.tour.entrants[u] => o = u
        /\ \A y \in DOMAIN tb.roster :
             /\ tb.roster[y].player \in DOMAIN tb.tour.entrants
             /\ tb.tour.entrants[tb.roster[y].player] = y
             /\ tb.roster[y].player \in tb.tour.remaining <=> tb.roster[y].stack > 0
    BY <1>1 DEF TourFits
  <2>2. /\ DOMAIN tour.entrants = DOMAIN tb.tour.entrants \ {p}
        /\ \A o \in DOMAIN tb.tour.entrants \ {p} : tour.entrants[o] = tb.tour.entrants[o]
    BY <1>6 DEF Without
  <2>3. \A o, u \in DOMAIN tour.entrants : tour.entrants[o] = tour.entrants[u] => o = u
    BY <2>1, <2>2
  <2>4. ASSUME NEW y \in DOMAIN roster
        PROVE  /\ roster[y].player \in DOMAIN tour.entrants
               /\ tour.entrants[roster[y].player] = y
               /\ roster[y].player \in tour.remaining <=> roster[y].stack > 0
    <3>1. y \in DOMAIN tb.roster /\ y # x /\ roster[y] = tb.roster[y]
      BY <1>2
    <3>2. tb.roster[y].player # p
      BY <2>1, <3>1
    <3> HIDE DEF p
    <3>3. tb.roster[y].player \in tour.remaining <=> tb.roster[y].player \in tb.tour.remaining
      BY <1>6, <3>2
    <3> QED BY <2>1, <2>2, <3>1, <3>2, <3>3
  <2> QED BY <1>6, <1>7, <2>3, <2>4 DEF TourFits
<1>10. HandFits(q)
  BY <1>1, <1>7 DEF HandFits
<1>11. TableFits(q)
  BY <1>1, <1>2, <1>7, <1>8, <1>9, <1>10 DEF TableFits
<1>12. Keeps(tb, q)
  BY <1>2, <1>7 DEF Keeps
<1>13. WithdrawnTable(tb, x) = Durable(q)
  BY DEF WithdrawnTable, q, fresh, tour
<1>14. /\ TableFits(Durable(q)) /\ Imaged(Durable(q)) /\ Durable(q).hand = tb.hand
       /\ Durable(q).roster = roster /\ Durable(q).queue = tb.queue /\ Durable(q).seatSess = q.seatSess
       /\ Durable(q).cfg = q.cfg
  BY <1>7, <1>11, DurableTable
<1>15. Keeps(tb, Durable(q))
  BY <1>7, <1>12, <1>14 DEF Keeps
<1> QED BY <1>2, <1>13, <1>14, <1>15

(* A player of a hand asks to leave after it. *)
LEMMA LeavingTable ==
  ASSUME NEW tb, TableFits(tb), tb.hand # NoHand, NEW x \in DOMAIN tb.roster, NEW s, tb.seatSess[x] = s,
         NEW leaving, leaving = tb.leaving \cup {x},
         NEW departures, departures = tb.departures \cup {s},
         NEW q, q = [tb EXCEPT !.leaving = leaving, !.departures = departures]
  PROVE  /\ TableFits(q) /\ Keeps(tb, q)
         /\ q.hand = tb.hand /\ q.roster = tb.roster /\ q.durable = tb.durable /\ q.queue = tb.queue
<1>1. /\ IsTable(tb) /\ tb.cfg \in TableConfigs /\ DOMAIN tb.seatSess = DOMAIN tb.roster
      /\ RosterFits(tb.cfg, tb.roster) /\ TourFits(tb.tour, tb.roster) /\ tb.hand \in Nat
      /\ (tb.cfg.tour = NoTour => tb.tour = NoTour) /\ HandFits(tb)
  BY DEF TableFits
<1>2. /\ IsTable(q) /\ q.cfg = tb.cfg /\ q.roster = tb.roster /\ q.leaving = leaving
      /\ q.hand = tb.hand /\ q.dealt = tb.dealt /\ q.result = tb.result /\ q.durable = tb.durable
      /\ q.seatSess = tb.seatSess
      /\ q.queue = tb.queue /\ q.departures = departures /\ q.tour = tb.tour
  BY <1>1 DEF IsTable
<1>3. EligibleSeats(q) = EligibleSeats(tb)
  BY <1>2 DEF EligibleSeats
<1>4. /\ \A y \in tb.leaving : y \in DOMAIN tb.seatSess /\ tb.seatSess[y] \in tb.departures
      /\ \A u \in tb.departures : \E y \in tb.leaving : tb.seatSess[y] = u
  BY <1>1 DEF HandFits
<1>5. /\ \A y \in leaving : y \in DOMAIN tb.seatSess /\ tb.seatSess[y] \in departures
      /\ \A u \in departures : \E y \in leaving : tb.seatSess[y] = u
  BY <1>1, <1>4
<1>6. HandFits(q)
  BY <1>1, <1>2, <1>3, <1>5 DEF HandFits
<1>7. TableFits(q)
  BY <1>1, <1>2, <1>6 DEF TableFits
<1>8. Keeps(tb, q)
  BY <1>2 DEF Keeps
<1> QED BY <1>2, <1>7, <1>8

(* The hand of a table ends. *)
LEMMA OverTable ==
  ASSUME NEW tb, TableFits(tb), tb.hand # NoHand, NEW final \in ResultsOf(tb)
  PROVE  LET q == [tb EXCEPT !.result = final] IN
         /\ TableFits(q) /\ Keeps(tb, q)
         /\ q.hand = tb.hand /\ q.roster = tb.roster /\ q.durable = tb.durable /\ q.queue = tb.queue
<1> DEFINE q == [tb EXCEPT !.result = final]
<1>1. /\ IsTable(tb) /\ tb.cfg \in TableConfigs /\ DOMAIN tb.seatSess = DOMAIN tb.roster
      /\ RosterFits(tb.cfg, tb.roster) /\ TourFits(tb.tour, tb.roster) /\ tb.hand \in Nat
      /\ (tb.cfg.tour = NoTour => tb.tour = NoTour) /\ HandFits(tb)
  BY DEF TableFits
<1>2. /\ IsTable(q) /\ q.cfg = tb.cfg /\ q.roster = tb.roster /\ q.leaving = tb.leaving
      /\ q.hand = tb.hand /\ q.dealt = tb.dealt /\ q.result = final /\ q.durable = tb.durable
      /\ q.seatSess = tb.seatSess
      /\ q.queue = tb.queue /\ q.departures = tb.departures /\ q.tour = tb.tour
  BY <1>1 DEF IsTable
<1> HIDE DEF q
<1>3. DOMAIN final = DOMAIN tb.dealt /\ \A x \in DOMAIN final : final[x] \in Nat
  <2> DEFINE total == SumOf(tb.dealt)
  <2>1. final \in [DOMAIN tb.dealt -> 0 .. total]
    BY DEF ResultsOf
  <2> HIDE DEF total
  <2>2. \A n \in 0 .. total : n \in Nat
    OBVIOUS
  <2> QED BY <2>1, <2>2
<1>4. EligibleSeats(q) = EligibleSeats(tb)
  BY <1>2 DEF EligibleSeats
<1>5. HandFits(q)
  BY <1>1, <1>2, <1>3, <1>4 DEF HandFits
<1>6. TableFits(q)
  BY <1>1, <1>2, <1>5 DEF TableFits
<1>7. Keeps(tb, q)
  BY <1>2 DEF Keeps
<1> QED BY <1>2, <1>6, <1>7 DEF q

(* The table after a hand, before the sessions that leave are let go. *)
Finished(tb, time) == [Reconciled(tb) EXCEPT !.tour = TourAfter(tb, time)]

(* The player who is known by a seat. *)
LEMMA EntrantOf ==
  ASSUME NEW c, \A p, q \in DOMAIN c.entrants : c.entrants[p] = c.entrants[q] => p = q,
         NEW p \in DOMAIN c.entrants
  PROVE  EntrantAt(c, c.entrants[p]) = p
BY DEF EntrantAt

(* What a hand leaves: who was eliminated, in which place. *)
Out(c, before, after) == {EntrantAt(c, s) : s \in Busted(before, after)}
Left(c, before, after) == c.remaining \ Out(c, before, after)
Rows(c, before, after) ==
  [i \in DOMAIN BustOrder(before, after) |-> Standing(c, BustOrder(before, after)[i], Place(c, i))]
Ranked(c, before, after) == c.standings \o Rows(c, before, after)
WinnerRow(c, left) ==
  LET winner == CHOOSE p \in left : TRUE
  IN  [player |-> winner, seat |-> c.entrants[winner], place |-> 1, payout |-> 0]
Paid(cfg, rows) == [i \in DOMAIN rows |-> [rows[i] EXCEPT !.payout = Award(cfg, rows[i].place)]]
Decided(c, left, standings, status) ==
  [cfg |-> c.cfg, status |-> status, entrants |-> c.entrants, remaining |-> left, level |-> c.level,
   elapsed |-> c.elapsed, rest |-> c.rest, standings |-> standings]

(* complete_hand: the last player left has won, and the payouts are made. *)
LEMMA HandDecides ==
  ASSUME NEW c, IsController(c), NEW before, NEW after
  PROVE  LET left == Left(c, before, after)
             rows == Ranked(c, before, after)
         IN  CompleteTournamentHand(c, before, after) =
               IF Cardinality(left) = 1
               THEN Decided(c, left, Paid(c.cfg, Append(rows, WinnerRow(c, left))), "Complete")
               ELSE Decided(c, left, rows, c.status)
<1> DEFINE left == Left(c, before, after)
           rows == Ranked(c, before, after)
           ranked == [c EXCEPT !.remaining = left, !.standings = rows]
           all == Append(rows, WinnerRow(c, left))
           winner == CHOOSE p \in ranked.remaining : TRUE
           crowned == [ranked EXCEPT !.standings = all]
           paid == Paid(c.cfg, all)
           payout == [crowned EXCEPT !.standings = paid]
           complete == [payout EXCEPT !.status = "Complete"]
           d == CompleteTournamentHand(c, before, after)
<1>1. ranked = [c EXCEPT !.remaining = @ \ {EntrantAt(c, x) : x \in Busted(before, after)},
                  !.standings = @ \o [i \in DOMAIN BustOrder(before, after) |->
                     Standing(c, BustOrder(before, after)[i], Place(c, i))]]
  BY DEF Ranked, Rows, Left, Out, IsController
<1>2. ranked = [c EXCEPT !.remaining = left, !.standings = rows]
  OBVIOUS
<1> HIDE DEF ranked, left, rows
<1>3. IsController(ranked) /\ ranked = Decided(c, left, rows, c.status)
  <2>1. /\ ranked.cfg = c.cfg /\ ranked.status = c.status /\ ranked.entrants = c.entrants
        /\ ranked.remaining = left /\ ranked.level = c.level /\ ranked.elapsed = c.elapsed
        /\ ranked.rest = c.rest /\ ranked.standings = rows
    BY <1>2 DEF IsController
  <2>2. IsController(ranked)
    BY <1>2 DEF IsController
  <2>3. ranked = Decided(c, left, rows, c.status)
    BY <2>1, <2>2 DEF IsController, Decided
  <2> QED BY <2>2, <2>3
<1>4. crowned = [ranked EXCEPT !.standings = Append(@, [player |-> winner, seat |-> c.entrants[winner],
                                                        place |-> 1, payout |-> 0])]
  <2>1. ranked.remaining = left /\ ranked.standings = rows
    BY <1>3 DEF Decided
  <2>2. Append(rows, [player |-> winner, seat |-> c.entrants[winner], place |-> 1, payout |-> 0]) = all
    BY <2>1 DEF WinnerRow
  <2> HIDE DEF all, winner
  <2> QED BY <1>3, <2>1, <2>2 DEF IsController
<1>5. crowned = [ranked EXCEPT !.standings = all]
  OBVIOUS
<1> HIDE DEF crowned, all
<1>6. IsController(crowned) /\ crowned.cfg = c.cfg /\ crowned.standings = all
  BY <1>3, <1>5 DEF IsController, Decided
<1>7. payout = PayOut(crowned)
  BY <1>6 DEF PayOut, Paid
<1>8. payout = [crowned EXCEPT !.standings = paid]
  OBVIOUS
<1> HIDE DEF payout, paid
<1>9. complete = Decided(c, left, paid, "Complete")
  <2>1. IsController(payout) /\ payout.standings = paid
    BY <1>6, <1>8 DEF IsController
  <2>2. /\ payout.cfg = c.cfg /\ payout.entrants = c.entrants /\ payout.remaining = left
        /\ payout.level = c.level /\ payout.elapsed = c.elapsed /\ payout.rest = c.rest
    <3>1. /\ crowned.cfg = c.cfg /\ crowned.entrants = c.entrants /\ crowned.remaining = left
          /\ crowned.level = c.level /\ crowned.elapsed = c.elapsed /\ crowned.rest = c.rest
      BY <1>3, <1>5 DEF IsController, Decided
    <3> QED BY <1>6, <1>8, <3>1 DEF IsController
  <2>3. IsController(complete) /\ complete.status = "Complete"
    BY <2>1 DEF IsController
  <2>4. /\ complete.cfg = c.cfg /\ complete.entrants = c.entrants /\ complete.remaining = left
        /\ complete.level = c.level /\ complete.elapsed = c.elapsed /\ complete.rest = c.rest
        /\ complete.standings = paid
    BY <2>1, <2>2 DEF IsController
  <2> HIDE DEF complete
  <2> QED BY <2>3, <2>4 DEF IsController, Decided
<1> HIDE DEF complete
<1>10. d = IF Cardinality(ranked.remaining) = 1 THEN complete ELSE ranked
  <2> QED BY <1>1, <1>4, <1>7 DEF CompleteTournamentHand, complete
<1>11. ranked.remaining = left
  BY <1>3 DEF Decided
<1> HIDE DEF d
<1>12. d = IF Cardinality(left) = 1 THEN Decided(c, left, paid, "Complete") ELSE Decided(c, left, rows, c.status)
  BY <1>3, <1>9, <1>10, <1>11
<1> QED BY <1>12 DEF d, left, rows, paid, all

(* complete_hand: who lost the last chips is out. *)
LEMMA AfterHand ==
  ASSUME NEW c, IsController(c), NEW before, NEW after
  PROVE  LET d == CompleteTournamentHand(c, before, after) IN
         /\ IsController(d) /\ d.entrants = c.entrants
         /\ d.remaining = c.remaining \ {EntrantAt(c, x) : x \in Busted(before, after)}
<1> DEFINE d == CompleteTournamentHand(c, before, after)
<1>1. PICK standings, status : d = Decided(c, Left(c, before, after), standings, status)
  <2> HIDE DEF d
  <2>1. \/ d = Decided(c, Left(c, before, after), Ranked(c, before, after), c.status)
        \/ d = Decided(c, Left(c, before, after), Paid(c.cfg, Append(Ranked(c, before, after),
                           WinnerRow(c, Left(c, before, after)))), "Complete")
    BY HandDecides DEF d
  <2> QED BY <2>1
<1> HIDE DEF d
<1>2. IsController(d) /\ d.entrants = c.entrants /\ d.remaining = Left(c, before, after)
  BY <1>1 DEF Decided, IsController
<1> QED BY <1>2 DEF d, Left, Out

(* A hand is reconciled: the stacks of the result, the seats that leave vacant,
   and in a tournament those without chips eliminated. *)
LEMMA FinishedTable ==
  ASSUME NEW tb, TableFits(tb), NEW time \in Nat, TourAccepts(tb, time)
  PROVE  LET q == Finished(tb, time) IN
         /\ IsTable(q) /\ q.cfg = tb.cfg /\ q.leaving = {} /\ q.hand = NoHand
         /\ DOMAIN q.dealt = {} /\ DOMAIN q.result = {}
         /\ q.seatSess = tb.seatSess /\ q.queue = tb.queue /\ q.departures = tb.departures
         /\ DOMAIN q.roster = DOMAIN tb.roster \ tb.leaving
         /\ \A x \in DOMAIN q.roster : q.roster[x].player = tb.roster[x].player
         /\ RosterFits(q.cfg, q.roster) /\ TourFits(q.tour, q.roster)
         /\ (tb.tour = NoTour => q.tour = NoTour)
<1> DEFINE settled == [x \in DOMAIN tb.roster |->
                         IF x \in DOMAIN tb.result
                         THEN [tb.roster[x] EXCEPT !.stack = tb.result[x]] ELSE tb.roster[x]]
           roster == [x \in DOMAIN settled \ tb.leaving |-> settled[x]]
           none == NoRoster
           pending == Pending
           out == [tb EXCEPT !.roster = roster, !.leaving = {}, !.hand = NoHand,
                             !.dealt = none, !.result = pending]
           fresh == Reconciled(tb)
           tour == TourAfter(tb, time)
           q == [fresh EXCEPT !.tour = tour]
<1>1. /\ IsTable(tb) /\ RosterFits(tb.cfg, tb.roster) /\ TourFits(tb.tour, tb.roster) /\ HandFits(tb)
  BY DEF TableFits
<1>2. \A x \in DOMAIN tb.result :
         /\ x \in DOMAIN tb.roster /\ tb.roster[x].stack > 0 /\ tb.result[x] \in Nat
  BY <1>1 DEF HandFits, EligibleSeats
<1>3. \A x \in DOMAIN tb.roster :
         /\ tb.roster[x] = [player |-> tb.roster[x].player, stack |-> tb.roster[x].stack]
         /\ tb.roster[x].player \in Nat /\ tb.roster[x].stack \in Nat
  BY <1>1 DEF RosterFits
<1>4. ASSUME NEW x \in DOMAIN tb.roster
      PROVE  /\ settled[x] = [player |-> settled[x].player, stack |-> settled[x].stack]
             /\ settled[x].player = tb.roster[x].player
             /\ settled[x].stack = IF x \in DOMAIN tb.result THEN tb.result[x] ELSE tb.roster[x].stack
  <2> DEFINE seat == tb.roster[x]
             chips == tb.result[x]
  <2>1. seat = [player |-> seat.player, stack |-> seat.stack]
    BY <1>3
  <2>2. settled[x] = IF x \in DOMAIN tb.result THEN [seat EXCEPT !.stack = chips] ELSE seat
    OBVIOUS
  <2> HIDE DEF seat, chips, settled
  <2>3. /\ settled[x] = [player |-> settled[x].player, stack |-> settled[x].stack]
        /\ settled[x].player = seat.player
        /\ settled[x].stack = IF x \in DOMAIN tb.result THEN chips ELSE seat.stack
    BY <2>1, <2>2
  <2> QED BY <2>3 DEF seat, chips
<1>5. /\ DOMAIN roster = DOMAIN tb.roster \ tb.leaving
      /\ \A x \in DOMAIN tb.roster \ tb.leaving : roster[x] = settled[x]
  OBVIOUS
<1>6. fresh = Refreshed(out)
  BY <1>1 DEF Reconciled, IsTable
<1> HIDE DEF roster, settled, none, pending
<1>7. /\ IsTable(out) /\ out.cfg = tb.cfg /\ out.roster = roster /\ out.leaving = {}
      /\ out.hand = NoHand /\ out.dealt = none /\ out.result = pending
      /\ out.seatSess = tb.seatSess /\ out.queue = tb.queue /\ out.departures = tb.departures
  <2>1. IsTable(tb) /\ out = [tb EXCEPT !.roster = roster, !.leaving = {}, !.hand = NoHand,
                                        !.dealt = none, !.result = pending]
    BY <1>1
  <2> HIDE DEF out
  <2> QED BY <2>1 DEF IsTable
<1> HIDE DEF out, fresh, tour
<1>8. /\ IsTable(fresh) /\ fresh.cfg = tb.cfg /\ fresh.roster = roster /\ fresh.leaving = {}
      /\ fresh.hand = NoHand /\ fresh.dealt = none /\ fresh.result = pending
      /\ fresh.seatSess = tb.seatSess /\ fresh.queue = tb.queue /\ fresh.departures = tb.departures
  BY <1>6, <1>7, RefreshedKeeps
<1>9. /\ IsTable(q) /\ q.cfg = tb.cfg /\ q.roster = roster /\ q.leaving = {}
      /\ q.hand = NoHand /\ q.dealt = none /\ q.result = pending
      /\ q.seatSess = tb.seatSess /\ q.queue = tb.queue /\ q.departures = tb.departures
      /\ q.tour = tour
  BY <1>8 DEF IsTable
<1>10. Finished(tb, time) = q
  BY DEF Finished, fresh, tour
<1> HIDE DEF q
<1>11. RosterFits(q.cfg, q.roster)
  <2>1. ASSUME NEW x \in DOMAIN roster
        PROVE  /\ roster[x] = [player |-> roster[x].player, stack |-> roster[x].stack]
               /\ roster[x].player \in Nat /\ roster[x].stack \in Nat
    <3>1. x \in DOMAIN tb.roster /\ roster[x] = settled[x]
      BY <1>5
    <3> QED BY <1>2, <1>3, <1>4, <3>1
  <2>2. DOMAIN roster \subseteq 0 .. tb.cfg.seats - 1
    BY <1>1, <1>5 DEF RosterFits
  <2> QED BY <1>9, <2>1, <2>2 DEF RosterFits
<1>12. tb.tour = NoTour => tour = NoTour
  BY DEF TourAfter, tour
<1>13. ASSUME tb.tour # NoTour
       PROVE  TourFits(tour, roster)
  <2> DEFINE before == StacksBefore(tb)
             after == tb.result
             c == Tick(tb.tour, time)
             busted == Busted(before, after)
             out2 == {EntrantAt(c, x) : x \in busted}
  <2>1. /\ IsController(tb.tour)
        /\ \A p, o \in DOMAIN tb.tour.entrants : tb.tour.entrants[p] = tb.tour.entrants[o] => p = o
        /\ \A x \in DOMAIN tb.roster :
             /\ tb.roster[x].player \in DOMAIN tb.tour.entrants
             /\ tb.tour.entrants[tb.roster[x].player] = x
             /\ tb.roster[x].player \in tb.tour.remaining <=> tb.roster[x].stack > 0
    BY <1>1, <1>13 DEF TourFits
  <2>2. IsController(c) /\ c.entrants = tb.tour.entrants /\ c.remaining = tb.tour.remaining
    BY <2>1, TickKeeps
  <2>3. DOMAIN before = DOMAIN after
    BY <1>13 DEF TourAccepts, ResultAccepted
  <2>4. DOMAIN before = DOMAIN tb.roster /\ \A x \in DOMAIN tb.roster : before[x] = tb.roster[x].stack
    BY DEF StacksBefore
  <2>5. tour = CompleteTournamentHand(c, before, after)
    BY <1>13 DEF TourAfter, tour
  <2> HIDE DEF c, before, after
  <2>6. IsController(tour) /\ tour.entrants = c.entrants /\ tour.remaining = c.remaining \ out2
    BY <2>2, <2>5, AfterHand
  <2>7. \A x \in DOMAIN tb.roster : x \in busted <=> before[x] > 0 /\ after[x] = 0
    BY <2>3, <2>4 DEF Busted
  <2>8. busted \subseteq DOMAIN tb.roster
    BY <2>4 DEF Busted
  <2> HIDE DEF busted
  <2>9. \A x \in DOMAIN tb.roster : EntrantAt(c, x) = tb.roster[x].player
    <3> TAKE x \in DOMAIN tb.roster
    <3>1. EntrantAt(c, c.entrants[tb.roster[x].player]) = tb.roster[x].player
      BY <2>1, <2>2, EntrantOf
    <3> QED BY <2>1, <2>2, <3>1
  <2>10. ASSUME NEW x \in DOMAIN tb.roster
         PROVE  tb.roster[x].player \in tour.remaining <=> settled[x].stack > 0
    <3>1. tb.roster[x].player \in out2 <=> x \in busted
      <4>1. tb.roster[x].player \in out2 => \E y \in busted : tb.roster[x].player = tb.roster[y].player
        BY <2>8, <2>9
      <4>2. \A y \in DOMAIN tb.roster : tb.roster[x].player = tb.roster[y].player => x = y
        BY <2>1
      <4>3. x \in busted => tb.roster[x].player \in out2
        BY <2>8, <2>9
      <4> QED BY <2>8, <4>1, <4>2, <4>3
    <3>2. x \in DOMAIN tb.result /\ tb.roster[x].stack > 0 /\ tb.result[x] \in Nat
      BY <1>2, <2>3, <2>4 DEF after
    <3>3. settled[x].stack = tb.result[x]
      BY <1>4, <3>2
    <3>4. x \in busted <=> tb.result[x] = 0
      BY <2>4, <2>7, <3>2 DEF after
    <3>5. tb.roster[x].player \in c.remaining
      BY <2>1, <2>2, <3>2
    <3>6. tb.roster[x].player \in tour.remaining <=> ~ (tb.roster[x].player \in out2)
      BY <2>6, <3>5
    <3>7. settled[x].stack > 0 <=> ~ (tb.result[x] = 0)
      BY <3>2, <3>3
    <3> HIDE DEF out2
    <3> QED BY <3>1, <3>4, <3>6, <3>7
  <2>11. \A x \in DOMAIN roster :
           /\ x \in DOMAIN tb.roster /\ roster[x] = settled[x]
           /\ settled[x].player = tb.roster[x].player
    BY <1>4, <1>5
  <2> HIDE DEF out2
  <2> QED BY <2>1, <2>2, <2>6, <2>10, <2>11 DEF TourFits
<1>14. TourFits(q.tour, q.roster)
  BY <1>9, <1>12, <1>13 DEF TourFits
<1> QED BY <1>4, <1>5, <1>9, <1>10, <1>11, <1>12, <1>14, NobodySeated DEF none, pending

-----------------------------------------------------------------------------
(* The registry. *)

(* Only one table is touched. *)
OneTable(r, q, t) ==
  /\ IsRegistry(q) /\ t \in DOMAIN q.tables /\ DOMAIN q.tables = DOMAIN r.tables
  /\ \A u \in DOMAIN r.tables : u # t => q.tables[u] = r.tables[u]
  /\ q.nextTable = r.nextTable

(* Sessions lose their route with their seat and only then. *)
RoutesKept(r, q, t) ==
  /\ \A s \in DOMAIN q.sessions : s \in DOMAIN r.sessions /\ q.sessions[s] = r.sessions[s]
  /\ \A s \in DOMAIN r.sessions :
       s \in DOMAIN q.sessions <=>
         (r.sessions[s].table = t => r.sessions[s].seat \in DOMAIN q.tables[t].roster)

(* Hands keep their identities or get the next one. *)
NumbersKept(r, q, t) ==
  \/ /\ q.tables[t].hand \in {NoHand, r.tables[t].hand}
     /\ q.nextHand = r.nextHand
  \/ q.tables[t].hand = r.nextHand /\ q.nextHand = r.nextHand + 1

(* What Sound says about one table. *)
LEMMA TableOf ==
  ASSUME NEW r, Sound(r), NEW t \in DOMAIN r.tables
  PROVE  /\ TableFits(r.tables[t]) /\ r.tables[t].cfg \in TableConfigs
         /\ IsTable(r.tables[t]) /\ r.tables[t].hand \in Nat
         /\ DOMAIN r.tables[t].seatSess = DOMAIN r.tables[t].roster
         /\ t \in Nat \ {0} /\ t < r.nextTable
         /\ QueueFits(r, t)
         /\ r.tables[t].cfg.tour = NoTour => r.tables[t].tour = NoTour
<1>1. TableFits(r.tables[t]) /\ QueueFits(r, t) /\ t \in Nat \ {0} /\ t < r.nextTable
  BY DEF Sound, Queues, Counted
<1> QED BY <1>1 DEF TableFits

(* Hands have identities of their own when one table changes. *)
LEMMA HandsWithOne ==
  ASSUME NEW r, Sound(r), NEW q, NEW t, OneTable(r, q, t), NumbersKept(r, q, t)
  PROVE  HandsNumbered(q) /\ q.nextHand \in Nat \ {0} /\ q.tables[t].hand \in Nat
<1>1. \A u \in DOMAIN r.tables : r.tables[u].hand \in Nat /\ r.tables[u].hand < r.nextHand
  BY TableOf DEF Sound, HandsNumbered
<1>2. \A u, v \in DOMAIN r.tables :
        u # v /\ r.tables[u].hand # NoHand => r.tables[u].hand # r.tables[v].hand
  BY DEF Sound, HandsNumbered
<1>3. r.nextHand \in Nat \ {0}
  BY DEF Sound, Counted
<1>4. /\ DOMAIN q.tables = DOMAIN r.tables /\ t \in DOMAIN r.tables
      /\ \A u \in DOMAIN r.tables : u # t => q.tables[u].hand = r.tables[u].hand
  BY DEF OneTable
<1>5. CASE q.tables[t].hand \in {NoHand, r.tables[t].hand} /\ q.nextHand = r.nextHand
  <2>1. \A u \in DOMAIN r.tables : q.tables[u].hand = NoHand \/ q.tables[u].hand = r.tables[u].hand
    BY <1>4, <1>5
  <2>2. \A u \in DOMAIN q.tables : q.tables[u].hand < q.nextHand /\ q.tables[u].hand \in Nat
    BY <1>1, <1>3, <1>4, <1>5, <2>1 DEF NoHand
  <2>3. \A u, v \in DOMAIN q.tables :
          u # v /\ q.tables[u].hand # NoHand => q.tables[u].hand # q.tables[v].hand
    BY <1>2, <1>4, <2>1
  <2> QED BY <1>3, <1>4, <1>5, <2>2, <2>3 DEF HandsNumbered
<1>6. CASE q.tables[t].hand = r.nextHand /\ q.nextHand = r.nextHand + 1
  <2>1. \A u \in DOMAIN q.tables : q.tables[u].hand < q.nextHand /\ q.tables[u].hand \in Nat
    BY <1>1, <1>3, <1>4, <1>6
  <2>2. ASSUME NEW u \in DOMAIN q.tables, NEW v \in DOMAIN q.tables, u # v, q.tables[u].hand # NoHand
        PROVE  q.tables[u].hand # q.tables[v].hand
    <3>1. u # t => q.tables[u].hand < r.nextHand /\ q.tables[u].hand = r.tables[u].hand
      BY <1>1, <1>4
    <3>2. v # t => q.tables[v].hand < r.nextHand /\ q.tables[v].hand = r.tables[v].hand
      BY <1>1, <1>4
    <3>3. CASE u = t
      BY <1>3, <1>6, <2>1, <2>2, <3>2, <3>3
    <3>4. CASE v = t
      BY <1>3, <1>6, <2>1, <2>2, <3>1, <3>4
    <3>5. CASE u # t /\ v # t
      BY <1>2, <1>4, <2>2, <3>1, <3>2, <3>5
    <3> QED BY <3>3, <3>4, <3>5
  <2> QED BY <1>3, <1>4, <1>6, <2>1, <2>2 DEF HandsNumbered
<1> QED BY <1>5, <1>6 DEF NumbersKept

(* One table changes and nobody sits down. *)
LEMMA TableChanged ==
  ASSUME NEW r, Sound(r), NEW q, NEW t, OneTable(r, q, t),
         RoutesKept(r, q, t), NumbersKept(r, q, t), q.nextPlayer = r.nextPlayer,
         TableFits(q.tables[t]), Keeps(r.tables[t], q.tables[t]), Queues(q)
  PROVE  Sound(q)
<1>1. /\ DOMAIN q.tables = DOMAIN r.tables /\ t \in DOMAIN r.tables /\ IsRegistry(q)
      /\ \A u \in DOMAIN r.tables : u # t => q.tables[u] = r.tables[u]
      /\ q.nextTable = r.nextTable
  BY DEF OneTable
<1>2. /\ DOMAIN q.tables[t].roster \subseteq DOMAIN r.tables[t].roster
      /\ \A x \in DOMAIN q.tables[t].roster :
           /\ q.tables[t].roster[x].player = r.tables[t].roster[x].player
           /\ q.tables[t].seatSess[x] = r.tables[t].seatSess[x]
  BY DEF Keeps
<1>3. \A u \in DOMAIN q.tables : \A x \in DOMAIN q.tables[u].roster :
        /\ x \in DOMAIN r.tables[u].roster
        /\ q.tables[u].roster[x].player = r.tables[u].roster[x].player
        /\ q.tables[u].seatSess[x] = r.tables[u].seatSess[x]
  BY <1>1, <1>2
<1>4. Counted(q)
  BY <1>1, HandsWithOne DEF Sound, Counted
<1>5. \A s \in DOMAIN q.sessions : s \in DOMAIN r.sessions /\ q.sessions[s] = r.sessions[s]
  BY DEF RoutesKept
<1>6. \A s \in DOMAIN r.sessions :
        s \in DOMAIN q.sessions <=>
          (r.sessions[s].table = t => r.sessions[s].seat \in DOMAIN q.tables[t].roster)
  BY DEF RoutesKept
<1>7. ASSUME NEW s \in DOMAIN q.sessions PROVE RouteFits(q, s)
  <2>1. s \in DOMAIN r.sessions /\ q.sessions[s] = r.sessions[s]
    BY <1>5
  <2>2. RouteFits(r, s)
    BY <2>1 DEF Sound, Routing
  <2> DEFINE x == r.sessions[s]
  <2>3. /\ x.table \in DOMAIN r.tables /\ x.seat \in DOMAIN r.tables[x.table].roster
        /\ r.tables[x.table].roster[x.seat].player = x.player
        /\ r.tables[x.table].seatSess[x.seat] = s
    BY <2>2 DEF RouteFits
  <2>4. x.seat \in DOMAIN q.tables[x.table].roster
    BY <1>1, <1>6, <2>1, <2>3
  <2>5. q.sessions[s] = x
    BY <2>1
  <2> HIDE DEF x
  <2>6. x.table \in DOMAIN q.tables
    BY <1>1, <2>3
  <2>7. /\ q.tables[x.table].roster[x.seat].player = r.tables[x.table].roster[x.seat].player
        /\ q.tables[x.table].seatSess[x.seat] = r.tables[x.table].seatSess[x.seat]
    BY <1>3, <2>4, <2>6
  <2>8. /\ q.tables[x.table].roster[x.seat].player = x.player
        /\ q.tables[x.table].seatSess[x.seat] = s
    BY <2>3, <2>7
  <2> QED BY <2>4, <2>5, <2>6, <2>8 DEF RouteFits
<1>8. ASSUME NEW u \in DOMAIN q.tables, NEW x \in DOMAIN q.tables[u].roster PROVE SeatFits(q, u, x)
  <2> DEFINE s == r.tables[u].seatSess[x]
  <2>1. x \in DOMAIN r.tables[u].roster /\ q.tables[u].seatSess[x] = s /\ u \in DOMAIN r.tables
    BY <1>1, <1>3
  <2>2. s \in DOMAIN r.sessions /\ r.sessions[s].table = u /\ r.sessions[s].seat = x
    BY <2>1 DEF Sound, Routing, SeatFits
  <2>3. s \in DOMAIN q.sessions
    BY <1>6, <2>2
  <2> QED BY <1>5, <2>1, <2>2, <2>3 DEF SeatFits
<1>9. Routing(q)
  BY <1>7, <1>8 DEF Routing
<1>10. Persons(q)
  <2>1. \A u \in DOMAIN r.tables : \A x \in DOMAIN r.tables[u].roster :
          r.tables[u].roster[x].player < r.nextPlayer
    BY DEF Sound, Persons
  <2>2. \A u, v \in DOMAIN r.tables :
          \A x \in DOMAIN r.tables[u].roster, y \in DOMAIN r.tables[v].roster :
            r.tables[u].roster[x].player = r.tables[v].roster[y].player => u = v /\ x = y
    BY DEF Sound, Persons
  <2> QED BY <1>1, <1>3, <2>1, <2>2 DEF Persons
<1>11. \A u \in DOMAIN q.tables : TableFits(q.tables[u])
  BY <1>1, TableOf
<1> QED BY <1>1, <1>4, <1>9, <1>10, <1>11, HandsWithOne DEF Sound

(* Somebody sits down. *)
LEMMA SeatTaken ==
  ASSUME NEW r, Sound(r), NEW q, NEW t, OneTable(r, q, t),
         NEW x, NEW s, s \notin DOMAIN r.sessions,
         q.sessions = With(r.sessions, s, [table |-> t, player |-> r.nextPlayer, seat |-> x]),
         NumbersKept(r, q, t), q.nextPlayer = r.nextPlayer + 1,
         TableFits(q.tables[t]), Enters(r.tables[t], q.tables[t], x, r.nextPlayer, s), Queues(q)
  PROVE  Sound(q)
<1>1. /\ DOMAIN q.tables = DOMAIN r.tables /\ t \in DOMAIN r.tables /\ IsRegistry(q)
      /\ \A u \in DOMAIN r.tables : u # t => q.tables[u] = r.tables[u]
      /\ q.nextTable = r.nextTable
  BY DEF OneTable
<1>2. /\ x \notin DOMAIN r.tables[t].roster
      /\ DOMAIN q.tables[t].roster = DOMAIN r.tables[t].roster \cup {x}
      /\ q.tables[t].roster[x].player = r.nextPlayer /\ q.tables[t].seatSess[x] = s
      /\ \A y \in DOMAIN r.tables[t].roster :
           /\ q.tables[t].roster[y] = r.tables[t].roster[y]
           /\ q.tables[t].seatSess[y] = r.tables[t].seatSess[y]
  BY DEF Enters
<1>3. \A u \in DOMAIN r.tables : \A y \in DOMAIN r.tables[u].roster :
        /\ y \in DOMAIN q.tables[u].roster
        /\ q.tables[u].roster[y] = r.tables[u].roster[y]
        /\ q.tables[u].seatSess[y] = r.tables[u].seatSess[y]
  BY <1>1, <1>2
<1>4. \A u \in DOMAIN q.tables : \A y \in DOMAIN q.tables[u].roster :
        u \in DOMAIN r.tables /\ (y \in DOMAIN r.tables[u].roster \/ (u = t /\ y = x))
  BY <1>1, <1>2
<1>5. r.nextPlayer \in Nat /\ r.nextTable \in Nat \ {0} /\ \A u \in DOMAIN r.tables : u \in Nat \ {0} /\ u < r.nextTable
  BY DEF Sound, Counted
<1>6. Counted(q)
  BY <1>1, <1>5, HandsWithOne DEF Counted
<1> DEFINE route == [table |-> t, player |-> r.nextPlayer, seat |-> x]
<1>7. /\ DOMAIN q.sessions = DOMAIN r.sessions \cup {s} /\ q.sessions[s] = route
      /\ \A o \in DOMAIN r.sessions : q.sessions[o] = r.sessions[o]
  BY DEF With
<1>8. route.table = t /\ route.player = r.nextPlayer /\ route.seat = x
  OBVIOUS
<1> HIDE DEF route
<1>9. ASSUME NEW o \in DOMAIN q.sessions PROVE RouteFits(q, o)
  <2>1. CASE o = s
    BY <1>1, <1>2, <1>7, <1>8, <2>1 DEF RouteFits
  <2>2. CASE o \in DOMAIN r.sessions
    <3>1. RouteFits(r, o) /\ q.sessions[o] = r.sessions[o]
      BY <1>7, <2>2 DEF Sound, Routing
    <3> DEFINE e == r.sessions[o]
    <3>2. /\ e.table \in DOMAIN r.tables /\ e.seat \in DOMAIN r.tables[e.table].roster
          /\ r.tables[e.table].roster[e.seat].player = e.player
          /\ r.tables[e.table].seatSess[e.seat] = o
      BY <3>1 DEF RouteFits
    <3>3. /\ e.table \in DOMAIN q.tables /\ e.seat \in DOMAIN q.tables[e.table].roster
          /\ q.tables[e.table].roster[e.seat].player = e.player
          /\ q.tables[e.table].seatSess[e.seat] = o
      BY <1>1, <1>3, <3>2
    <3> QED BY <3>1, <3>3 DEF RouteFits
  <2> QED BY <1>7, <2>1, <2>2
<1>10. ASSUME NEW u \in DOMAIN q.tables, NEW y \in DOMAIN q.tables[u].roster PROVE SeatFits(q, u, y)
  <2>1. CASE u = t /\ y = x
    BY <1>2, <1>7, <1>8, <2>1 DEF SeatFits
  <2>2. CASE u \in DOMAIN r.tables /\ y \in DOMAIN r.tables[u].roster
    <3>1. SeatFits(r, u, y)
      BY <2>2 DEF Sound, Routing
    <3> QED BY <1>3, <1>7, <2>2, <3>1 DEF SeatFits
  <2> QED BY <1>4, <2>1, <2>2
<1>11. Routing(q)
  BY <1>9, <1>10 DEF Routing
<1>12. \A u \in DOMAIN r.tables : \A y \in DOMAIN r.tables[u].roster :
         r.tables[u].roster[y].player < r.nextPlayer /\ r.tables[u].roster[y].player \in Nat
  <2> TAKE u \in DOMAIN r.tables
  <2> TAKE y \in DOMAIN r.tables[u].roster
  <2>1. RosterFits(r.tables[u].cfg, r.tables[u].roster)
    BY TableOf DEF TableFits
  <2> QED BY <2>1 DEF Sound, Persons, RosterFits
<1>13. Persons(q)
  <2>1. ASSUME NEW u \in DOMAIN q.tables, NEW y \in DOMAIN q.tables[u].roster
        PROVE  /\ q.tables[u].roster[y].player \in Nat
               /\ q.tables[u].roster[y].player < q.nextPlayer
               /\ ~ (u = t /\ y = x) => q.tables[u].roster[y].player < r.nextPlayer
    BY <1>2, <1>3, <1>4, <1>5, <1>12
  <2>2. ASSUME NEW u \in DOMAIN q.tables, NEW v \in DOMAIN q.tables,
               NEW y \in DOMAIN q.tables[u].roster, NEW z \in DOMAIN q.tables[v].roster,
               q.tables[u].roster[y].player = q.tables[v].roster[z].player
        PROVE  u = v /\ y = z
    <3>1. CASE u = t /\ y = x
      <4>1. q.tables[v].roster[z].player = r.nextPlayer
        BY <1>2, <2>2, <3>1
      <4>2. v = t /\ z = x
        BY <1>5, <2>1, <4>1
      <4> QED BY <3>1, <4>2
    <3>2. CASE v = t /\ z = x
      <4>1. q.tables[u].roster[y].player = r.nextPlayer
        BY <1>2, <2>2, <3>2
      <4>2. u = t /\ y = x
        BY <1>5, <2>1, <4>1
      <4> QED BY <3>2, <4>2
    <3>3. CASE ~ (u = t /\ y = x) /\ ~ (v = t /\ z = x)
      <4>1. /\ u \in DOMAIN r.tables /\ y \in DOMAIN r.tables[u].roster
            /\ v \in DOMAIN r.tables /\ z \in DOMAIN r.tables[v].roster
        BY <1>4, <3>3
      <4>2. r.tables[u].roster[y].player = r.tables[v].roster[z].player
        BY <1>3, <2>2, <4>1
      <4> QED BY <4>1, <4>2 DEF Sound, Persons
    <3> QED BY <3>1, <3>2, <3>3
  <2> QED BY <2>1, <2>2 DEF Persons
<1>14. \A u \in DOMAIN q.tables : TableFits(q.tables[u])
  BY <1>1, TableOf
<1> QED BY <1>1, <1>6, <1>11, <1>13, <1>14, HandsWithOne DEF Sound

(* Queues stay as they are. *)
LEMMA QueuesKept ==
  ASSUME NEW r, Sound(r), NEW q, DOMAIN q.tables \subseteq DOMAIN r.tables,
         \A t \in DOMAIN q.tables : q.tables[t].queue = r.tables[t].queue,
         q.waits = r.waits,
         \A s \in DOMAIN q.sessions : s \in DOMAIN r.sessions \/ s \notin DOMAIN r.waits
  PROVE  Queues(q)
<1> SUFFICES ASSUME NEW t \in DOMAIN q.tables PROVE QueueFits(q, t)
  BY DEF Queues
<1>1. QueueFits(r, t) /\ q.tables[t].queue = r.tables[t].queue
  BY TableOf
<1> QED BY <1>1 DEF QueueFits

(* The queue of a table is of no concern to its seats. *)
LEMMA QueuedTable ==
  ASSUME NEW tb, TableFits(tb), NEW queue
  PROVE  LET q == [tb EXCEPT !.queue = queue] IN
         /\ TableFits(q) /\ Keeps(tb, q) /\ q.queue = queue
         /\ q.hand = tb.hand /\ q.roster = tb.roster /\ q.durable = tb.durable
         /\ q.seatSess = tb.seatSess /\ q.tour = tb.tour /\ q.cfg = tb.cfg
<1> DEFINE q == [tb EXCEPT !.queue = queue]
<1>1. /\ IsTable(tb) /\ tb.cfg \in TableConfigs /\ DOMAIN tb.seatSess = DOMAIN tb.roster
      /\ RosterFits(tb.cfg, tb.roster) /\ TourFits(tb.tour, tb.roster) /\ tb.hand \in Nat
      /\ (tb.cfg.tour = NoTour => tb.tour = NoTour) /\ HandFits(tb)
  BY DEF TableFits
<1>2. /\ IsTable(q) /\ q.cfg = tb.cfg /\ q.roster = tb.roster /\ q.leaving = tb.leaving
      /\ q.hand = tb.hand /\ q.dealt = tb.dealt /\ q.result = tb.result /\ q.durable = tb.durable
      /\ q.seatSess = tb.seatSess
      /\ q.queue = queue /\ q.departures = tb.departures /\ q.tour = tb.tour
  BY <1>1 DEF IsTable
<1> HIDE DEF q
<1>3. EligibleSeats(q) = EligibleSeats(tb)
  BY <1>2 DEF EligibleSeats
<1>4. HandFits(q)
  BY <1>1, <1>2, <1>3 DEF HandFits
<1>5. TableFits(q)
  BY <1>1, <1>2, <1>4 DEF TableFits
<1>6. Keeps(tb, q)
  BY <1>2 DEF Keeps
<1> QED BY <1>2, <1>5, <1>6 DEF q

(* A table is put in the place of another. *)
LEMMA TablePut ==
  ASSUME NEW r, IsRegistry(r), NEW t \in DOMAIN r.tables, NEW tb
  PROVE  LET q == [r EXCEPT !.tables[t] = tb] IN
         /\ OneTable(r, q, t) /\ q.tables[t] = tb
         /\ q.sessions = r.sessions /\ q.waits = r.waits /\ q.history = r.history
         /\ q.nextPlayer = r.nextPlayer /\ q.nextHand = r.nextHand
<1> DEFINE tables == [r.tables EXCEPT ![t] = tb]
           q == [r EXCEPT !.tables = tables]
<1>1. q = [r EXCEPT !.tables[t] = tb]
  BY DEF IsRegistry
<1>2. DOMAIN tables = DOMAIN r.tables /\ tables[t] = tb /\ \A u \in DOMAIN r.tables : u # t => tables[u] = r.tables[u]
  OBVIOUS
<1> HIDE DEF tables
<1>3. /\ IsRegistry(q) /\ q.tables = tables /\ q.nextTable = r.nextTable
      /\ q.sessions = r.sessions /\ q.waits = r.waits /\ q.history = r.history
      /\ q.nextPlayer = r.nextPlayer /\ q.nextHand = r.nextHand
  BY DEF IsRegistry
<1> HIDE DEF q
<1> QED BY <1>1, <1>2, <1>3 DEF OneTable

(* Only one table is touched, in two steps. *)
LEMMA OneTableTwice ==
  ASSUME NEW r, NEW q, NEW v, NEW t, OneTable(r, q, t), OneTable(q, v, t)
  PROVE  OneTable(r, v, t)
BY DEF OneTable

(* With the same seats nobody loses a route. *)
LEMMA SameRoutes ==
  ASSUME NEW r, Sound(r), NEW q, NEW t, OneTable(r, q, t), q.sessions = r.sessions,
         DOMAIN q.tables[t].roster = DOMAIN r.tables[t].roster
  PROVE  RoutesKept(r, q, t)
<1>1. \A s \in DOMAIN r.sessions : RouteFits(r, s)
  BY DEF Sound, Routing
<1>2. \A s \in DOMAIN r.sessions : r.sessions[s].seat \in DOMAIN r.tables[r.sessions[s].table].roster
  BY <1>1 DEF RouteFits
<1> QED BY <1>2 DEF RoutesKept

(* A table is put in the place of another with the same seats and queue. *)
LEMMA SeatsPut ==
  ASSUME NEW r, Sound(r), NEW t \in DOMAIN r.tables, NEW tb,
         TableFits(tb), Keeps(r.tables[t], tb), DOMAIN tb.roster = DOMAIN r.tables[t].roster,
         tb.queue = r.tables[t].queue, tb.hand = r.tables[t].hand
  PROVE  Sound([r EXCEPT !.tables[t] = tb])
<1> DEFINE q == [r EXCEPT !.tables[t] = tb]
<1>1. IsRegistry(r)
  BY DEF Sound
<1>2. /\ OneTable(r, q, t) /\ q.tables[t] = tb
      /\ q.sessions = r.sessions /\ q.waits = r.waits
      /\ q.nextPlayer = r.nextPlayer /\ q.nextHand = r.nextHand
  BY <1>1, TablePut
<1> HIDE DEF q
<1>3. RoutesKept(r, q, t)
  BY <1>2, SameRoutes
<1>4. NumbersKept(r, q, t)
  BY <1>2 DEF NumbersKept
<1>5. Queues(q)
  <2>1. DOMAIN q.tables = DOMAIN r.tables /\ \A u \in DOMAIN q.tables : q.tables[u].queue = r.tables[u].queue
    BY <1>2 DEF OneTable
  <2> QED BY <1>2, <2>1, QueuesKept
<1> QED BY <1>2, <1>3, <1>4, <1>5, TableChanged DEF q

(* A hand begins at a table. *)
LEMMA HandBegins ==
  ASSUME NEW r, Sound(r), NEW t \in DOMAIN r.tables, r.tables[t].hand = NoHand
  PROVE  LET q == [r EXCEPT !.tables[t] = Dealt(r.tables[t], r.nextHand), !.nextHand = @ + 1] IN
         /\ Sound(q) /\ OneTable(r, q, t) /\ q.tables[t].hand # NoHand
         /\ q.tables[t].roster = r.tables[t].roster /\ q.tables[t].durable = r.tables[t].durable
<1> DEFINE tb == Dealt(r.tables[t], r.nextHand)
           next == r.nextHand + 1
           q == [r EXCEPT !.tables[t] = tb, !.nextHand = next]
<1>1. IsRegistry(r) /\ r.nextHand \in Nat \ {0}
  BY DEF Sound, Counted
<1>2. TableFits(r.tables[t])
  BY TableOf
<1>3. /\ TableFits(tb) /\ Keeps(r.tables[t], tb)
      /\ tb.hand = r.nextHand /\ tb.roster = r.tables[t].roster
      /\ tb.durable = r.tables[t].durable /\ tb.queue = r.tables[t].queue
  BY <1>1, <1>2, DealtTable
<1>4. q = [r EXCEPT !.tables[t] = Dealt(r.tables[t], r.nextHand), !.nextHand = @ + 1]
  BY <1>1 DEF IsRegistry
<1> HIDE DEF tb, next
<1>5. /\ OneTable(r, q, t) /\ q.tables[t] = tb /\ q.sessions = r.sessions /\ q.waits = r.waits
      /\ q.nextPlayer = r.nextPlayer /\ q.nextHand = next
  <2> DEFINE v == [r EXCEPT !.tables[t] = tb]
  <2>1. /\ OneTable(r, v, t) /\ v.tables[t] = tb /\ v.sessions = r.sessions /\ v.waits = r.waits
        /\ v.nextPlayer = r.nextPlayer /\ v.nextHand = r.nextHand
    BY <1>1, TablePut
  <2>2. q = [v EXCEPT !.nextHand = next]
    BY <1>1 DEF IsRegistry
  <2> HIDE DEF q, v
  <2>3. /\ IsRegistry(q) /\ q.tables = v.tables /\ q.sessions = v.sessions /\ q.waits = v.waits
        /\ q.nextPlayer = v.nextPlayer /\ q.nextHand = next /\ q.nextTable = v.nextTable
    BY <2>1, <2>2 DEF IsRegistry, OneTable
  <2> QED BY <2>1, <2>3 DEF OneTable
<1> HIDE DEF q
<1>6. RoutesKept(r, q, t)
  BY <1>3, <1>5, SameRoutes
<1>7. NumbersKept(r, q, t)
  BY <1>3, <1>5 DEF NumbersKept, next
<1>8. Queues(q)
  <2>1. DOMAIN q.tables = DOMAIN r.tables /\ \A u \in DOMAIN q.tables : q.tables[u].queue = r.tables[u].queue
    BY <1>3, <1>5 DEF OneTable
  <2> QED BY <1>5, <2>1, QueuesKept
<1>9. Sound(q)
  BY <1>3, <1>5, <1>6, <1>7, <1>8, TableChanged
<1> QED BY <1>1, <1>3, <1>4, <1>5, <1>9 DEF NoHand

(* The first of a queue and the others. *)
LEMMA HeadOfQueue ==
  ASSUME NEW r, Sound(r), NEW t \in DOMAIN r.tables, r.tables[t].queue # <<>>
  PROVE  LET queue == r.tables[t].queue IN
         /\ Len(queue) \in Nat \ {0} /\ Tail(queue) \in Seq(WaitEntries)
         /\ Len(Tail(queue)) = Len(queue) - 1
         /\ \A i \in 1 .. Len(queue) - 1 : Tail(queue)[i] = queue[i + 1]
         /\ Head(queue) = queue[1]
<1> DEFINE queue == r.tables[t].queue
<1>1. queue \in Seq(WaitEntries) /\ queue # <<>>
  BY TableOf DEF QueueFits
<1> HIDE DEF queue
<1>2. /\ Len(queue) \in Nat \ {0} /\ Tail(queue) \in Seq(WaitEntries)
      /\ Len(Tail(queue)) = Len(queue) - 1
      /\ \A i \in 1 .. Len(queue) - 1 : Tail(queue)[i] = queue[i + 1]
      /\ Head(queue) = queue[1]
  BY <1>1
<1> QED BY <1>2 DEF queue

(* The head of the queue is admitted. *)
LEMMA HeadAdmitted ==
  ASSUME NEW r, Sound(r), NEW t \in DOMAIN r.tables, r.tables[t].hand = NoHand,
         r.tables[t].tour = NoTour, Admissible(r, t)
  PROVE  LET q == AdmitHead(r, t) IN
         /\ Sound(q) /\ OneTable(r, q, t) /\ q.nextHand = r.nextHand
         /\ q.tables[t].hand = NoHand /\ q.tables[t].tour = NoTour
         /\ q.tables[t].cfg = r.tables[t].cfg
         /\ Len(q.tables[t].queue) = Len(r.tables[t].queue) - 1
         /\ Len(r.tables[t].queue) \in Nat /\ Len(r.tables[t].queue) # 0
<1> DEFINE tb == r.tables[t]
           queue == tb.queue
           s == Head(queue).session
           x == SeatFor(tb, Head(queue).request)
           p == r.nextPlayer
           q == AdmitHead(r, t)
           joined == JoinedAt(tb, p, x, s)
           later == Tail(queue)
           table == [joined EXCEPT !.queue = later]
           route == [table |-> t, player |-> p, seat |-> x]
           sessions == With(r.sessions, s, route)
           waits == Without(r.waits, s)
           next == r.nextPlayer + 1
<1>1. /\ TableFits(tb) /\ tb.cfg \in TableConfigs /\ IsTable(tb) /\ QueueFits(r, t)
      /\ IsRegistry(r) /\ p \in Nat
  BY TableOf DEF Sound, Counted
<1>2. queue # <<>> /\ Seatable(tb, Head(queue).request)
  BY DEF Admissible
<1>3. /\ Len(queue) \in Nat \ {0} /\ later \in Seq(WaitEntries) /\ Len(later) = Len(queue) - 1
      /\ \A i \in 1 .. Len(queue) - 1 : later[i] = queue[i + 1]
      /\ Head(queue) = queue[1]
  BY <1>2, HeadOfQueue
<1>4. x \in FreeSeats(tb)
  BY <1>1, <1>2, SeatsOfConfig, SeatForIsFree
<1>5. /\ \A i \in 1 .. Len(queue) :
           /\ queue[i].session \in DOMAIN r.waits /\ r.waits[queue[i].session] = t
           /\ queue[i].session \notin DOMAIN r.sessions
      /\ \A i, j \in 1 .. Len(queue) : queue[i].session = queue[j].session => i = j
  BY <1>1 DEF QueueFits
<1>6. s \in DOMAIN r.waits /\ r.waits[s] = t /\ s \notin DOMAIN r.sessions /\ s = queue[1].session
  BY <1>3, <1>5
<1>7. /\ TableFits(joined) /\ Enters(tb, joined, x, p, s)
      /\ joined.hand = NoHand /\ joined.queue = queue /\ joined.tour = NoTour
      /\ joined = [Seated(tb, p, x) EXCEPT !.seatSess = With(@, x, s)]
      /\ IsTable(Seated(tb, p, x)) /\ Seated(tb, p, x).queue = queue
  BY <1>1, <1>4, JoinedTable
<1>8. table = [Seated(tb, p, x) EXCEPT !.queue = Tail(@), !.seatSess = With(@, x, s)]
  <2> DEFINE seated == Seated(tb, p, x)
             sess == With(seated.seatSess, x, s)
  <2>1. joined = [seated EXCEPT !.seatSess = sess] /\ IsTable(seated) /\ later = Tail(seated.queue)
    BY <1>7 DEF IsTable
  <2> HIDE DEF seated, sess, joined, later
  <2>2. table = [seated EXCEPT !.queue = later, !.seatSess = sess]
    BY <2>1 DEF IsTable
  <2>3. table = [seated EXCEPT !.queue = Tail(@), !.seatSess = With(@, x, s)]
    BY <2>1, <2>2 DEF IsTable, sess
  <2> QED BY <2>3 DEF seated
<1> HIDE DEF joined, later
<1>9. /\ TableFits(table) /\ table.queue = later /\ table.hand = NoHand /\ table.tour = NoTour
      /\ table.roster = joined.roster /\ table.seatSess = joined.seatSess /\ table.cfg = joined.cfg
  <2>1. TableFits(joined) /\ joined.hand = NoHand /\ joined.tour = NoTour
    BY <1>7
  <2> QED BY <2>1, QueuedTable
<1>10. Enters(tb, table, x, p, s) /\ table.cfg = tb.cfg
  BY <1>7, <1>9 DEF Enters
<1> HIDE DEF table
<1>11. q = [r EXCEPT !.tables[t] = table, !.sessions = sessions, !.waits = waits, !.nextPlayer = next]
  BY <1>1, <1>8 DEF AdmitHead, IsRegistry, Unindexed
<1> HIDE DEF q, s, x, sessions, waits, next
<1>12. /\ OneTable(r, q, t) /\ q.tables[t] = table /\ q.sessions = sessions /\ q.waits = waits
       /\ q.nextPlayer = next /\ q.nextHand = r.nextHand
  <2> DEFINE v == [r EXCEPT !.tables[t] = table]
  <2>1. OneTable(r, v, t) /\ v.tables[t] = table /\ v.nextHand = r.nextHand
    BY <1>1, TablePut
  <2>2. q = [v EXCEPT !.sessions = sessions, !.waits = waits, !.nextPlayer = next]
    BY <1>1, <1>11 DEF IsRegistry
  <2> HIDE DEF v
  <2>3. /\ IsRegistry(q) /\ q.tables = v.tables /\ q.sessions = sessions /\ q.waits = waits
        /\ q.nextPlayer = next /\ q.nextTable = v.nextTable /\ q.nextHand = v.nextHand
    BY <2>1, <2>2 DEF IsRegistry, OneTable
  <2> QED BY <2>1, <2>3 DEF OneTable
<1>13. /\ DOMAIN sessions = DOMAIN r.sessions \cup {s}
       /\ DOMAIN waits = DOMAIN r.waits \ {s} /\ \A o \in DOMAIN waits : waits[o] = r.waits[o]
  BY DEF sessions, waits, With, Without
<1>14. Queues(q)
  <2> SUFFICES ASSUME NEW u \in DOMAIN q.tables PROVE QueueFits(q, u)
    BY DEF Queues
  <2>1. u \in DOMAIN r.tables
    BY <1>12 DEF OneTable
  <2>2. CASE u # t
    <3> DEFINE other == r.tables[u].queue
    <3>1. q.tables[u].queue = other
      BY <1>12, <2>1, <2>2 DEF OneTable
    <3>2. /\ other \in Seq(WaitEntries)
          /\ \A i \in 1 .. Len(other) :
               /\ other[i].session \in DOMAIN r.waits /\ r.waits[other[i].session] = u
               /\ other[i].session \notin DOMAIN r.sessions
          /\ \A i, j \in 1 .. Len(other) : other[i].session = other[j].session => i = j
      BY <2>1, TableOf DEF QueueFits
    <3> HIDE DEF other
    <3>3. \A i \in 1 .. Len(other) : other[i].session # s
      BY <1>6, <2>2, <3>2 DEF s
    <3>4. \A i \in 1 .. Len(other) :
             /\ other[i].session \in DOMAIN q.waits /\ q.waits[other[i].session] = u
             /\ other[i].session \notin DOMAIN q.sessions
      BY <1>12, <1>13, <3>2, <3>3
    <3> QED BY <3>1, <3>2, <3>4 DEF QueueFits
  <2>3. CASE u = t
    <3>1. q.tables[u].queue = later
      BY <1>9, <1>12, <2>3
    <3>2. \A i \in 1 .. Len(later) : i + 1 \in 1 .. Len(queue) /\ i + 1 # 1 /\ later[i] = queue[i + 1]
      BY <1>3
    <3>3. \A i \in 1 .. Len(later) :
             /\ later[i].session \in DOMAIN r.waits /\ r.waits[later[i].session] = t
             /\ later[i].session \notin DOMAIN r.sessions
      BY <1>5, <3>2
    <3>4. \A i \in 1 .. Len(later) : later[i].session # s
      <4> TAKE i \in 1 .. Len(later)
      <4>1. 1 \in 1 .. Len(queue) /\ i + 1 \in 1 .. Len(queue) /\ i + 1 # 1 /\ later[i] = queue[i + 1]
        BY <1>3, <3>2
      <4>2. queue[i + 1].session # queue[1].session
        BY <1>5, <4>1
      <4> QED BY <1>6, <4>1, <4>2 DEF s
    <3>5. \A i \in 1 .. Len(later) :
             /\ later[i].session \in DOMAIN q.waits /\ q.waits[later[i].session] = u
             /\ later[i].session \notin DOMAIN q.sessions
      BY <1>12, <1>13, <2>3, <3>3, <3>4
    <3>6. \A i, j \in 1 .. Len(later) : later[i].session = later[j].session => i = j
      <4> TAKE i, j \in 1 .. Len(later)
      <4>1. /\ i + 1 \in 1 .. Len(queue) /\ j + 1 \in 1 .. Len(queue)
            /\ later[i] = queue[i + 1] /\ later[j] = queue[j + 1]
        BY <3>2
      <4>2. later[i].session = later[j].session => i + 1 = j + 1
        BY <1>5, <4>1
      <4>3. Len(later) \in Nat
        BY <1>3
      <4> QED BY <4>2, <4>3
    <3> QED BY <1>3, <3>1, <3>5, <3>6 DEF QueueFits
  <2> QED BY <2>2, <2>3
<1>15. NumbersKept(r, q, t)
  BY <1>9, <1>12 DEF NumbersKept
<1>16. s \notin DOMAIN r.sessions
  BY <1>6 DEF s
<1>17. Sound(q)
  <2>1. q.sessions = With(r.sessions, s, [table |-> t, player |-> r.nextPlayer, seat |-> x])
    BY <1>12 DEF sessions
  <2>2. Enters(r.tables[t], q.tables[t], x, r.nextPlayer, s)
    BY <1>10, <1>12
  <2>3. q.nextPlayer = r.nextPlayer + 1 /\ TableFits(q.tables[t])
    BY <1>9, <1>12 DEF next
  <2> QED BY <1>12, <1>14, <1>15, <1>16, <2>1, <2>2, <2>3, SeatTaken
<1>18. /\ q.tables[t].hand = NoHand /\ q.tables[t].tour = NoTour /\ q.tables[t].cfg = tb.cfg
       /\ Len(q.tables[t].queue) = Len(queue) - 1 /\ Len(queue) \in Nat /\ Len(queue) # 0
  BY <1>3, <1>9, <1>10, <1>12
<1> QED BY <1>12, <1>17, <1>18 DEF q

(* Where the admissions of a boundary have got to after n looks at the queue. *)
AdmittedSoFar(r, q, t, n) ==
  /\ Sound(q) /\ OneTable(r, q, t) /\ q.nextHand = r.nextHand
  /\ q.tables[t].hand = NoHand /\ q.tables[t].tour = NoTour /\ q.tables[t].cfg = r.tables[t].cfg
  /\ Admissible(q, t) => Len(q.tables[t].queue) = Len(r.tables[t].queue) - n

(* One more look. *)
LEMMA AdmissionStep ==
  ASSUME NEW r, NEW q, NEW t \in DOMAIN r.tables, NEW n \in Nat, Len(r.tables[t].queue) \in Nat,
         AdmittedSoFar(r, q, t, n)
  PROVE  AdmittedSoFar(r, IF Admissible(q, t) THEN AdmitHead(q, t) ELSE q, t, n + 1)
<1>1. t \in DOMAIN q.tables
  BY DEF AdmittedSoFar, OneTable
<1>2. CASE Admissible(q, t)
  <2> DEFINE v == AdmitHead(q, t)
  <2>1. /\ Sound(v) /\ OneTable(q, v, t) /\ v.nextHand = q.nextHand
        /\ v.tables[t].hand = NoHand /\ v.tables[t].tour = NoTour
        /\ v.tables[t].cfg = q.tables[t].cfg
        /\ Len(v.tables[t].queue) = Len(q.tables[t].queue) - 1
    BY <1>1, <1>2, HeadAdmitted DEF AdmittedSoFar
  <2>2. OneTable(r, v, t)
    BY <2>1, OneTableTwice DEF AdmittedSoFar
  <2>3. Len(q.tables[t].queue) = Len(r.tables[t].queue) - n
    BY <1>2 DEF AdmittedSoFar
  <2> HIDE DEF v
  <2>4. Len(v.tables[t].queue) = Len(r.tables[t].queue) - (n + 1)
    BY <2>1, <2>3
  <2>5. AdmittedSoFar(r, v, t, n + 1)
    BY <2>1, <2>2, <2>4 DEF AdmittedSoFar
  <2> QED BY <1>2, <2>5 DEF v
<1>3. CASE ~Admissible(q, t)
  BY <1>3 DEF AdmittedSoFar
<1> QED BY <1>2, <1>3

(* At a boundary a ring table admits from its queue until nobody waits or no seat
   is free that the head accepts. *)
LEMMA QueueAdmitted ==
  ASSUME NEW r, Sound(r), NEW t \in DOMAIN r.tables, r.tables[t].hand = NoHand
  PROVE  LET q == Admitted(r, t) IN
         /\ Sound(q) /\ OneTable(r, q, t) /\ q.nextHand = r.nextHand
         /\ q.tables[t].hand = NoHand /\ q.tables[t].cfg = r.tables[t].cfg
         /\ r.tables[t].tour = NoTour => ~Admissible(q, t)
<1> DEFINE queue == r.tables[t].queue
           last == Len(queue)
<1>1. queue \in Seq(WaitEntries) /\ last \in Nat
  BY TableOf DEF QueueFits
<1>2. CASE r.tables[t].tour = NoTour
  <2>1. PICK f : AdmitLoop(r, t, last, f) /\ Admitted(r, t) = f[last]
    BY <1>1, <1>2, AdmittedIsLoop
  <2> DEFINE Bad == {k \in 0 .. last : ~AdmittedSoFar(r, f[k], t, k)}
  <2>2. AdmittedSoFar(r, r, t, 0)
    <3>1. OneTable(r, r, t)
      BY DEF OneTable, Sound
    <3>2. Len(r.tables[t].queue) = Len(r.tables[t].queue) - 0
      BY <1>1
    <3> QED BY <1>2, <3>1, <3>2 DEF AdmittedSoFar
  <2>3. Bad = {}
    <3>1. SUFFICES ASSUME Bad # {} PROVE FALSE
      OBVIOUS
    <3> HIDE DEF last
    <3>2. PICK m \in Bad : \A k \in Bad : m <= k
      <4>1. Bad \subseteq Nat
        OBVIOUS
      <4> QED BY <3>1, <4>1, LeastOf
    <3>3. f[m] = IF m = 0 THEN r ELSE IF Admissible(f[m - 1], t) THEN AdmitHead(f[m - 1], t) ELSE f[m - 1]
      BY <2>1, <3>2 DEF AdmitLoop
    <3>4. m # 0
      BY <2>2, <3>2, <3>3
    <3>5. m - 1 \in Nat /\ m - 1 \in 0 .. last /\ m - 1 \notin Bad
      BY <1>1, <3>2, <3>4
    <3>6. AdmittedSoFar(r, f[m - 1], t, m - 1)
      BY <3>5
    <3>7. AdmittedSoFar(r, f[m], t, (m - 1) + 1)
      BY <1>1, <3>3, <3>4, <3>5, <3>6, AdmissionStep DEF last
    <3> QED BY <3>2, <3>7
  <2>4. AdmittedSoFar(r, Admitted(r, t), t, last)
    BY <1>1, <2>1, <2>3
  <2> DEFINE q == Admitted(r, t)
  <2> HIDE DEF q
  <2>5. AdmittedSoFar(r, q, t, last)
    BY <2>4 DEF q
  <2>6. ~Admissible(q, t)
    <3>1. SUFFICES ASSUME Admissible(q, t) PROVE FALSE
      OBVIOUS
    <3>2. Len(q.tables[t].queue) = last - last
      BY <2>5, <3>1 DEF AdmittedSoFar
    <3>3. t \in DOMAIN q.tables /\ q.tables[t].queue # <<>> /\ Sound(q)
      BY <2>5, <3>1 DEF AdmittedSoFar, OneTable, Admissible
    <3>4. Len(q.tables[t].queue) \in Nat \ {0}
      BY <3>3, HeadOfQueue
    <3> QED BY <1>1, <3>2, <3>4
  <2> QED BY <2>5, <2>6 DEF AdmittedSoFar, q
<1>3. CASE r.tables[t].tour # NoTour
  <2>1. Admitted(r, t) = r
    BY <1>3 DEF Admitted
  <2>2. OneTable(r, r, t)
    BY DEF OneTable, Sound
  <2> QED BY <1>3, <2>1, <2>2
<1> QED BY <1>2, <1>3

(* The registry after a hand, before the queue is looked at. *)
Boundary(r, t, time) == Departed([r EXCEPT !.tables[t] = Finished(r.tables[t], time)], t)

(* Sessions that leave lose their seats and their routes together. *)
LEMMA BoundaryIsSound ==
  ASSUME NEW r, Sound(r), NEW t \in DOMAIN r.tables, NEW time \in Nat, TourAccepts(r.tables[t], time)
  PROVE  LET q == Boundary(r, t, time) IN
         /\ Sound(q) /\ OneTable(r, q, t) /\ q.nextHand = r.nextHand
         /\ q.tables[t].hand = NoHand /\ q.tables[t].cfg = r.tables[t].cfg
<1> DEFINE tb == r.tables[t]
           after == Finished(tb, time)
           done == [r EXCEPT !.tables[t] = after]
           gone == {s \in after.departures : s \in DOMAIN r.sessions}
           left == {r.sessions[s].seat : s \in gone}
           sess == [x \in (DOMAIN tb.seatSess \cap DOMAIN after.roster) \ left |-> tb.seatSess[x]]
           sessions == [s \in DOMAIN r.sessions \ gone |-> r.sessions[s]]
           table == [after EXCEPT !.departures = {}, !.seatSess = sess]
           q == Boundary(r, t, time)
<1>1. /\ TableFits(tb) /\ tb.cfg \in TableConfigs /\ IsTable(tb) /\ HandFits(tb)
      /\ DOMAIN tb.seatSess = DOMAIN tb.roster /\ IsRegistry(r)
      /\ tb.cfg.tour = NoTour => tb.tour = NoTour
  BY TableOf DEF Sound, TableFits
<1>2. /\ IsTable(after) /\ after.cfg = tb.cfg /\ after.leaving = {} /\ after.hand = NoHand
      /\ DOMAIN after.dealt = {} /\ DOMAIN after.result = {}
      /\ after.seatSess = tb.seatSess /\ after.queue = tb.queue /\ after.departures = tb.departures
      /\ DOMAIN after.roster = DOMAIN tb.roster \ tb.leaving
      /\ \A x \in DOMAIN after.roster : after.roster[x].player = tb.roster[x].player
      /\ RosterFits(after.cfg, after.roster) /\ TourFits(after.tour, after.roster)
      /\ (tb.tour = NoTour => after.tour = NoTour)
  BY <1>1, FinishedTable
<1> HIDE DEF after
<1>3. /\ OneTable(r, done, t) /\ done.tables[t] = after /\ done.sessions = r.sessions
      /\ done.waits = r.waits /\ done.nextPlayer = r.nextPlayer /\ done.nextHand = r.nextHand
  BY <1>1, TablePut
<1>4. q = Departed(done, t)
  BY DEF Boundary, after
<1> HIDE DEF done
<1>5. q = [done EXCEPT !.sessions = sessions, !.tables[t] = table]
  <2>1. IsRegistry(done) /\ t \in DOMAIN done.tables
    BY <1>3 DEF OneTable
  <2>2. q = [done EXCEPT
               !.sessions = [s \in DOMAIN r.sessions \ gone |-> r.sessions[s]],
               !.tables[t].departures = {},
               !.tables[t].seatSess =
                  [x \in (DOMAIN tb.seatSess \cap DOMAIN after.roster) \ left |-> tb.seatSess[x]]]
    BY <1>2, <1>3, <1>4, <2>1 DEF Departed, IsRegistry, IsTable
  <2> HIDE DEF sess, sessions, q
  <2>3. q = [done EXCEPT !.sessions = sessions, !.tables[t].departures = {}, !.tables[t].seatSess = sess]
    BY <2>2 DEF sess, sessions
  <2> QED BY <1>3, <2>1, <2>3 DEF IsRegistry
<1>6. /\ DOMAIN sessions = DOMAIN r.sessions \ gone
      /\ \A s \in DOMAIN sessions : sessions[s] = r.sessions[s]
  OBVIOUS
<1>7. /\ \A x \in tb.leaving : x \in DOMAIN tb.roster /\ tb.seatSess[x] \in tb.departures
      /\ \A s \in tb.departures : \E x \in tb.leaving : tb.seatSess[x] = s
  BY <1>1 DEF HandFits
<1>8. \A x \in DOMAIN tb.roster :
        /\ tb.seatSess[x] \in DOMAIN r.sessions /\ r.sessions[tb.seatSess[x]].table = t
        /\ r.sessions[tb.seatSess[x]].seat = x
  BY DEF Sound, Routing, SeatFits
<1>9. gone = tb.departures
  <2>1. \A s \in tb.departures : s \in DOMAIN r.sessions
    BY <1>7, <1>8
  <2> QED BY <1>2, <2>1
<1>10. left = tb.leaving
  <2>1. \A s \in gone : r.sessions[s].seat \in tb.leaving
    BY <1>7, <1>8, <1>9
  <2>2. \A x \in tb.leaving : tb.seatSess[x] \in gone /\ r.sessions[tb.seatSess[x]].seat = x
    BY <1>7, <1>8, <1>9
  <2> HIDE DEF gone
  <2> QED BY <2>1, <2>2
<1>11. /\ DOMAIN sess = DOMAIN after.roster
       /\ \A x \in DOMAIN sess : sess[x] = tb.seatSess[x]
  <2> HIDE DEF left
  <2> QED BY <1>1, <1>2, <1>10
<1> HIDE DEF gone, left, sess, sessions, q
<1>12. /\ IsTable(table) /\ table.cfg = tb.cfg /\ table.roster = after.roster /\ table.leaving = {}
       /\ table.hand = NoHand /\ DOMAIN table.dealt = {} /\ DOMAIN table.result = {}
       /\ table.seatSess = sess /\ table.queue = tb.queue /\ table.departures = {}
       /\ table.tour = after.tour
  <2>1. IsTable(after) /\ table = [after EXCEPT !.departures = {}, !.seatSess = sess]
    BY <1>2
  <2> HIDE DEF table
  <2>2. /\ IsTable(table) /\ table.cfg = after.cfg /\ table.roster = after.roster
        /\ table.leaving = after.leaving /\ table.hand = after.hand /\ table.dealt = after.dealt
        /\ table.result = after.result /\ table.seatSess = sess /\ table.queue = after.queue
        /\ table.departures = {} /\ table.tour = after.tour
    BY <2>1 DEF IsTable
  <2> QED BY <1>2, <2>2
<1> HIDE DEF table
<1>13. TableFits(table)
  <2>1. HandFits(table)
    BY <1>12 DEF HandFits
  <2> QED BY <1>1, <1>2, <1>11, <1>12, <2>1 DEF TableFits, NoHand
<1>14. Keeps(tb, table)
  BY <1>2, <1>11, <1>12 DEF Keeps
<1>15. /\ OneTable(r, q, t) /\ q.tables[t] = table /\ q.sessions = sessions /\ q.waits = r.waits
       /\ q.nextPlayer = r.nextPlayer /\ q.nextHand = r.nextHand
  <2>1. IsRegistry(done) /\ t \in DOMAIN done.tables
    BY <1>3 DEF OneTable
  <2> DEFINE v == [done EXCEPT !.tables[t] = table]
  <2>2. /\ OneTable(done, v, t) /\ v.tables[t] = table /\ v.waits = done.waits
        /\ v.nextPlayer = done.nextPlayer /\ v.nextHand = done.nextHand
    BY <2>1, TablePut
  <2>3. q = [v EXCEPT !.sessions = sessions]
    BY <1>5, <2>1 DEF IsRegistry
  <2> HIDE DEF v
  <2>4. /\ IsRegistry(q) /\ q.tables = v.tables /\ q.waits = v.waits /\ q.sessions = sessions
        /\ q.nextPlayer = v.nextPlayer /\ q.nextHand = v.nextHand /\ q.nextTable = v.nextTable
    BY <2>2, <2>3 DEF IsRegistry, OneTable
  <2>5. OneTable(done, q, t)
    BY <2>2, <2>4 DEF OneTable
  <2>6. OneTable(r, q, t)
    BY <1>3, <2>5, OneTableTwice
  <2> QED BY <1>3, <2>2, <2>4, <2>6
<1>16. RoutesKept(r, q, t)
  <2>1. \A s \in DOMAIN q.sessions : s \in DOMAIN r.sessions /\ q.sessions[s] = r.sessions[s]
    BY <1>6, <1>15
  <2>2. ASSUME NEW s \in DOMAIN r.sessions
        PROVE  s \in DOMAIN q.sessions <=>
                 (r.sessions[s].table = t => r.sessions[s].seat \in DOMAIN q.tables[t].roster)
    <3>1. s \in DOMAIN q.sessions <=> s \notin tb.departures
      BY <1>6, <1>9, <1>15
    <3>2. DOMAIN q.tables[t].roster = DOMAIN tb.roster \ tb.leaving
      BY <1>2, <1>12, <1>15
    <3>3. RouteFits(r, s)
      BY DEF Sound, Routing
    <3> DEFINE x == r.sessions[s].seat
    <3>4. r.sessions[s].table = t => x \in DOMAIN tb.roster /\ tb.seatSess[x] = s
      BY <3>3 DEF RouteFits
    <3>5. s \in tb.departures => r.sessions[s].table = t /\ x \in tb.leaving
      BY <1>7, <1>8
    <3>6. r.sessions[s].table = t /\ x \in tb.leaving => s \in tb.departures
      BY <1>7, <3>4
    <3> QED BY <3>1, <3>2, <3>4, <3>5, <3>6
  <2> QED BY <2>1, <2>2 DEF RoutesKept
<1>17. NumbersKept(r, q, t)
  BY <1>12, <1>15 DEF NumbersKept
<1>18. Queues(q)
  <2>1. DOMAIN q.tables = DOMAIN r.tables /\ \A u \in DOMAIN q.tables : q.tables[u].queue = r.tables[u].queue
    BY <1>12, <1>15 DEF OneTable
  <2>2. \A s \in DOMAIN q.sessions : s \in DOMAIN r.sessions
    BY <1>6, <1>15
  <2> QED BY <1>15, <2>1, <2>2, QueuesKept
<1>19. Sound(q)
  BY <1>13, <1>14, <1>15, <1>16, <1>17, <1>18, TableChanged
<1> QED BY <1>12, <1>15, <1>19 DEF q

(* The rollover of a hand leaves a sound registry, an image of every table, and
   no ring table whose queue was passed over. *)
LEMMA RolloverIsSound ==
  ASSUME NEW r, Sound(r), AllImaged(r), NEW t \in DOMAIN r.tables, NEW time \in Nat,
         RolloverSucceeds(r, t, time)
  PROVE  LET q == Rollover(r, t, time) IN
         Sound(q) /\ AllImaged(q) /\ OneTable(r, q, t) /\ ~LeftWaiting(q, t)
<1> DEFINE b == Boundary(r, t, time)
           a == Admitted(b, t)
           v == [a EXCEPT !.tables[t] = Durable(a.tables[t])]
           q == Rollover(r, t, time)
<1>1. TourAccepts(r.tables[t], time)
  BY DEF RolloverSucceeds
<1>2. /\ Sound(b) /\ OneTable(r, b, t) /\ b.nextHand = r.nextHand
      /\ b.tables[t].hand = NoHand /\ b.tables[t].cfg = r.tables[t].cfg
  BY <1>1, BoundaryIsSound
<1>3. t \in DOMAIN b.tables
  BY <1>2 DEF OneTable
<1>4. Settled(r, t, time) = [a EXCEPT !.tables[t] = Durable(@)]
  BY DEF Settled, Boundary, Finished
<1> HIDE DEF b
<1>5. /\ Sound(a) /\ OneTable(b, a, t)
      /\ a.tables[t].hand = NoHand /\ a.tables[t].cfg = b.tables[t].cfg
      /\ b.tables[t].tour = NoTour => ~Admissible(a, t)
  BY <1>2, <1>3, QueueAdmitted
<1>6. b.tables[t].cfg.tour = NoTour => b.tables[t].tour = NoTour
  BY <1>2, <1>3, TableOf
<1> HIDE DEF a
<1>7. IsRegistry(a) /\ t \in DOMAIN a.tables /\ TableFits(a.tables[t])
  BY <1>5, TableOf DEF Sound, OneTable
<1>8. Settled(r, t, time) = v
  BY <1>4, <1>7 DEF IsRegistry
<1> DEFINE tb == Durable(a.tables[t])
<1>9. /\ TableFits(tb) /\ Keeps(a.tables[t], tb) /\ Imaged(tb)
      /\ tb.hand = NoHand /\ tb.roster = a.tables[t].roster
      /\ tb.queue = a.tables[t].queue /\ tb.cfg = a.tables[t].cfg
  BY <1>5, <1>7, DurableTable
<1> HIDE DEF tb
<1>10. v = [a EXCEPT !.tables[t] = tb]
  BY DEF tb
<1> HIDE DEF v
<1>11. Sound(v)
  BY <1>5, <1>7, <1>9, <1>10, SeatsPut
<1>12. OneTable(a, v, t) /\ v.tables[t] = tb
  BY <1>7, <1>10, TablePut
<1>13. OneTable(r, v, t)
  BY <1>2, <1>5, <1>12, OneTableTwice
<1>14. AllImaged(v)
  BY <1>9, <1>12, <1>13 DEF AllImaged, OneTable
<1>15. ~LeftWaiting(v, t)
  <2>1. SUFFICES ASSUME tb.cfg.tour = NoTour, Admissible(v, t) PROVE FALSE
    BY <1>12 DEF LeftWaiting
  <2>2. ~Admissible(a, t)
    BY <1>5, <1>6, <1>9, <2>1
  <2>3. FreeSeats(tb) = FreeSeats(a.tables[t])
    BY <1>9 DEF FreeSeats, TableSeats
  <2>4. \A request : Seatable(tb, request) <=> Seatable(a.tables[t], request)
    BY <2>3 DEF Seatable
  <2> QED BY <1>9, <1>12, <2>1, <2>2, <2>4 DEF Admissible
<1>16. q = IF Continues(v.tables[t])
           THEN [v EXCEPT !.tables[t] = Dealt(v.tables[t], v.nextHand), !.nextHand = @ + 1]
           ELSE v
  BY <1>8 DEF Rollover
<1>17. CASE Continues(v.tables[t])
  <2> DEFINE w == [v EXCEPT !.tables[t] = Dealt(v.tables[t], v.nextHand), !.nextHand = @ + 1]
  <2>1. t \in DOMAIN v.tables /\ v.tables[t].hand = NoHand
    BY <1>9, <1>12 DEF OneTable
  <2>2. /\ Sound(w) /\ OneTable(v, w, t) /\ w.tables[t].hand # NoHand
        /\ w.tables[t].roster = v.tables[t].roster /\ w.tables[t].durable = v.tables[t].durable
    BY <1>11, <2>1, HandBegins
  <2> HIDE DEF w
  <2>3. OneTable(r, w, t)
    BY <1>13, <2>2, OneTableTwice
  <2>4. AllImaged(w)
    BY <1>14, <2>2 DEF AllImaged, OneTable, Imaged
  <2>5. ~LeftWaiting(w, t)
    BY <2>2 DEF LeftWaiting
  <2> QED BY <1>16, <1>17, <2>2, <2>3, <2>4, <2>5 DEF w
<1>18. CASE ~Continues(v.tables[t])
  BY <1>11, <1>13, <1>14, <1>15, <1>16, <1>18
<1> QED BY <1>17, <1>18

(* The history has no part in this. *)
LEMMA HistoryApart ==
  ASSUME NEW r, Sound(r), AllImaged(r), NEW history
  PROVE  LET q == [r EXCEPT !.history = history] IN
         Sound(q) /\ AllImaged(q) /\ q.tables = r.tables /\ q.nextTable = r.nextTable
<1> DEFINE q == [r EXCEPT !.history = history]
<1>1. IsRegistry(r) /\ Counted(r) /\ Routing(r) /\ Persons(r) /\ HandsNumbered(r) /\ Queues(r)
      /\ \A t \in DOMAIN r.tables : TableFits(r.tables[t])
  BY DEF Sound
<1>2. /\ IsRegistry(q) /\ q.tables = r.tables /\ q.sessions = r.sessions /\ q.waits = r.waits
      /\ q.nextTable = r.nextTable /\ q.nextPlayer = r.nextPlayer /\ q.nextHand = r.nextHand
  BY <1>1 DEF IsRegistry
<1> HIDE DEF q
<1>3. Counted(q)
  BY <1>1, <1>2 DEF Counted
<1>4. Routing(q)
  <2>1. \A s \in DOMAIN q.sessions : RouteFits(r, s) => RouteFits(q, s)
    BY <1>2 DEF RouteFits
  <2>2. \A t \in DOMAIN q.tables : \A x \in DOMAIN q.tables[t].roster : SeatFits(r, t, x) => SeatFits(q, t, x)
    BY <1>2 DEF SeatFits
  <2> QED BY <1>1, <1>2, <2>1, <2>2 DEF Routing
<1>5. Persons(q) /\ HandsNumbered(q)
  BY <1>1, <1>2 DEF Persons, HandsNumbered
<1>6. Queues(q)
  BY <1>1, <1>2 DEF Queues, QueueFits
<1>7. Sound(q) /\ AllImaged(q)
  BY <1>1, <1>2, <1>3, <1>4, <1>5, <1>6 DEF Sound, AllImaged
<1> QED BY <1>2, <1>7 DEF q

(* Where a sweep has got to. *)
SweptSoFar(r, x) ==
  x.ok =>
    /\ Sound(x.r) /\ AllImaged(x.r)
    /\ DOMAIN x.r.tables = DOMAIN r.tables /\ x.r.nextTable = r.nextTable
    /\ \A u \in DOMAIN r.tables : LeftWaiting(x.r, u) => LeftWaiting(r, u)

(* One more table. *)
LEMMA SweepStep ==
  ASSUME NEW r, NEW x, NEW t \in DOMAIN r.tables, NEW time \in Nat, SweptSoFar(r, x)
  PROVE  SweptSoFar(r, FinalizeOne(x, t, time))
<1> DEFINE history == Recorded(x.r.history, t, x.r.tables[t].hand)
           recorded == [x.r EXCEPT !.history = history]
           y == FinalizeOne(x, t, time)
<1>1. CASE x.ok /\ Sound(x.r) /\ RolloverSucceeds(recorded, t, time)
  <2>1. /\ AllImaged(x.r) /\ DOMAIN x.r.tables = DOMAIN r.tables /\ x.r.nextTable = r.nextTable
        /\ \A u \in DOMAIN r.tables : LeftWaiting(x.r, u) => LeftWaiting(r, u)
    BY <1>1 DEF SweptSoFar
  <2>2. /\ Sound(recorded) /\ AllImaged(recorded) /\ recorded.tables = x.r.tables
        /\ recorded.nextTable = x.r.nextTable
    BY <1>1, <2>1, HistoryApart
  <2>3. [x.r EXCEPT !.history = Recorded(@, t, x.r.tables[t].hand)] = recorded
    BY <1>1 DEF Sound, IsRegistry
  <2> HIDE DEF recorded
  <2> DEFINE q == Rollover(recorded, t, time)
  <2>4. y = [ok |-> TRUE, r |-> q]
    BY <1>1, <2>3 DEF FinalizeOne
  <2>5. Sound(q) /\ AllImaged(q) /\ OneTable(recorded, q, t) /\ ~LeftWaiting(q, t)
    BY <1>1, <2>1, <2>2, RolloverIsSound
  <2> HIDE DEF q, y
  <2>6. y.r = q
    BY <2>4
  <2>7. DOMAIN q.tables = DOMAIN r.tables /\ q.nextTable = r.nextTable
    BY <2>1, <2>2, <2>5 DEF OneTable
  <2>8. ASSUME NEW u \in DOMAIN r.tables, LeftWaiting(q, u) PROVE LeftWaiting(r, u)
    <3>1. u # t
      BY <2>5, <2>8
    <3>2. q.tables[u] = x.r.tables[u]
      BY <2>1, <2>2, <2>5, <3>1 DEF OneTable
    <3>3. LeftWaiting(x.r, u)
      BY <2>8, <3>2 DEF LeftWaiting, Admissible
    <3> QED BY <2>1, <3>3
  <2> QED BY <2>5, <2>6, <2>7, <2>8 DEF SweptSoFar, y
<1>2. CASE ~ (x.ok /\ Sound(x.r) /\ RolloverSucceeds(recorded, t, time))
  <2>1. CASE x.ok
    <3>1. Sound(x.r)
      BY <2>1 DEF SweptSoFar
    <3>2. [x.r EXCEPT !.history = Recorded(@, t, x.r.tables[t].hand)] = recorded
      BY <3>1 DEF Sound, IsRegistry
    <3>3. ~RolloverSucceeds(recorded, t, time)
      BY <1>2, <2>1, <3>1
    <3> HIDE DEF recorded
    <3>4. y = [ok |-> FALSE, r |-> x.r]
      BY <3>2, <3>3 DEF FinalizeOne
    <3> HIDE DEF y
    <3>5. y.ok = FALSE
      BY <3>4
    <3> QED BY <3>5 DEF SweptSoFar, y
  <2>2. CASE ~x.ok
    <3>1. y = [ok |-> FALSE, r |-> x.r]
      BY <2>2 DEF FinalizeOne
    <3> HIDE DEF y
    <3>2. y.ok = FALSE
      BY <3>1
    <3> QED BY <3>2 DEF SweptSoFar, y
  <2> QED BY <2>1, <2>2
<1> QED BY <1>1, <1>2

(* A sweep that ends well leaves a sound registry. *)
LEMMA SweepIsSound ==
  ASSUME NEW r, Sound(r), AllImaged(r), NEW time \in Nat
  PROVE  SweptSoFar(r, Finalized(r, time))
<1> DEFINE last == r.nextTable - 1
<1>1. last \in Nat
  BY DEF Sound, Counted
<1>2. PICK f : SweepLoop(r, time, last, f) /\ Finalized(r, time) = f[last]
  BY <1>1, FinalizedIsLoop
<1> DEFINE Bad == {k \in 0 .. last : ~SweptSoFar(r, f[k])}
<1>3. Bad = {}
  <2>1. SUFFICES ASSUME Bad # {} PROVE FALSE
    OBVIOUS
  <2> HIDE DEF last
  <2>2. PICK m \in Bad : \A k \in Bad : m <= k
    <3>1. Bad \subseteq Nat
      OBVIOUS
    <3> QED BY <2>1, <3>1, LeastOf
  <2>3. CASE m = 0
    <3> DEFINE start == [ok |-> TRUE, r |-> r]
    <3>1. f[0] = start
      BY <1>2, <2>2, <2>3 DEF SweepLoop
    <3>2. start.r = r
      OBVIOUS
    <3> HIDE DEF start
    <3>3. SweptSoFar(r, start)
      BY <3>2 DEF SweptSoFar
    <3> QED BY <2>2, <2>3, <3>1, <3>3
  <2>4. CASE m # 0
    <3>1. f[m] = IF m \in Terminal(r) THEN FinalizeOne(f[m - 1], m, time) ELSE f[m - 1]
      BY <1>2, <2>2, <2>4 DEF SweepLoop
    <3>2. m - 1 \in 0 .. last /\ m - 1 \notin Bad
      BY <1>1, <2>2, <2>4
    <3>3. SweptSoFar(r, f[m - 1])
      BY <3>2
    <3>4. m \in Terminal(r) => m \in DOMAIN r.tables
      BY DEF Terminal
    <3>5. SweptSoFar(r, f[m])
      BY <3>1, <3>3, <3>4, SweepStep
    <3> QED BY <2>2, <3>5
  <2> QED BY <2>3, <2>4
<1> QED BY <1>1, <1>2, <1>3

(* Where the look at the breaks has got to after the table n. *)
BreaksSoFar(r, q, n) ==
  /\ Sound(q) /\ AllImaged(q)
  /\ DOMAIN q.tables = DOMAIN r.tables /\ q.nextTable = r.nextTable
  /\ \A u \in DOMAIN r.tables :
       /\ q.tables[u].cfg = r.tables[u].cfg
       /\ u \notin OnBreak(r) \/ n < u => q.tables[u] = r.tables[u]

(* The clock of one break. *)
LEMMA BreakStep ==
  ASSUME NEW r, NEW q, NEW n \in Nat, NEW t \in OnBreak(r), t = n + 1, NEW time \in Nat,
         BreaksSoFar(r, q, n), \A u \in DOMAIN r.tables : u \in Nat
  PROVE  BreaksSoFar(r, AfterBreak(q, t, time), t)
<1> DEFINE tb == [q.tables[t] EXCEPT !.tour = Tick(@, time)]
           v == [q EXCEPT !.tables[t] = tb]
           w == [v EXCEPT !.tables[t] = Dealt(v.tables[t], v.nextHand), !.nextHand = @ + 1]
           x == AfterBreak(q, t, time)
<1>1. t \in DOMAIN r.tables /\ t \in DOMAIN q.tables /\ Sound(q) /\ AllImaged(q) /\ IsRegistry(q)
  BY DEF OnBreak, BreaksSoFar, Sound
<1>2. q.tables[t] = r.tables[t]
  BY <1>1 DEF BreaksSoFar
<1>3. q.tables[t].hand = NoHand /\ q.tables[t].tour # NoTour
  BY <1>2 DEF OnBreak, TourStatus
<1>4. /\ TableFits(tb) /\ Keeps(q.tables[t], tb)
      /\ tb.hand = q.tables[t].hand /\ tb.roster = q.tables[t].roster
      /\ tb.durable = q.tables[t].durable /\ tb.queue = q.tables[t].queue
  BY <1>1, <1>3, TableOf, TickedTable
<1> HIDE DEF tb
<1>5. Sound(v)
  BY <1>1, <1>4, SeatsPut
<1>6. OneTable(q, v, t) /\ v.tables[t] = tb /\ v.nextHand = q.nextHand
  BY <1>1, TablePut
<1>7. AllImaged(v)
  BY <1>1, <1>4, <1>6 DEF AllImaged, OneTable, Imaged
<1>8. v.tables[t].cfg = q.tables[t].cfg
  BY <1>4, <1>6 DEF Keeps
<1>9. ASSUME NEW y, Sound(y), AllImaged(y), OneTable(q, y, t), y.tables[t].cfg = q.tables[t].cfg
      PROVE  BreaksSoFar(r, y, t)
  <2>1. DOMAIN y.tables = DOMAIN r.tables /\ y.nextTable = r.nextTable
    BY <1>9 DEF BreaksSoFar, OneTable
  <2>2. ASSUME NEW u \in DOMAIN r.tables
        PROVE  /\ y.tables[u].cfg = r.tables[u].cfg
               /\ u \notin OnBreak(r) \/ t < u => y.tables[u] = r.tables[u]
    <3>1. q.tables[u].cfg = r.tables[u].cfg /\ (u \notin OnBreak(r) \/ n < u => q.tables[u] = r.tables[u])
      BY DEF BreaksSoFar
    <3>2. u \in DOMAIN q.tables /\ (u # t => y.tables[u] = q.tables[u])
      BY <1>9 DEF OneTable, BreaksSoFar
    <3>3. CASE u = t
      <4>1. ~ (u \notin OnBreak(r) \/ t < u)
        BY <3>3
      <4> QED BY <1>9, <3>1, <3>3, <4>1
    <3>4. CASE u # t
      BY <3>1, <3>2, <3>4
    <3> QED BY <3>3, <3>4
  <2> QED BY <1>9, <2>1, <2>2 DEF BreaksSoFar
<1>10. x = IF ReadyToStart(tb) /\ Bindable(tb)
           THEN [q EXCEPT !.tables[t] = Dealt(tb, q.nextHand), !.nextHand = @ + 1]
           ELSE v
  BY DEF AfterBreak, tb
<1>11. [q EXCEPT !.tables[t] = Dealt(tb, q.nextHand), !.nextHand = @ + 1] = w
  BY <1>1, <1>6 DEF IsRegistry
<1> HIDE DEF v
<1>12. /\ Sound(w) /\ OneTable(v, w, t)
       /\ w.tables[t].roster = v.tables[t].roster /\ w.tables[t].durable = v.tables[t].durable
  <2>1. t \in DOMAIN v.tables /\ v.tables[t].hand = NoHand
    BY <1>3, <1>4, <1>6 DEF OneTable
  <2> QED BY <1>5, <2>1, HandBegins
<1>13. w.tables[t].cfg = v.tables[t].cfg
  <2>1. t \in DOMAIN v.tables /\ IsRegistry(v) /\ w.tables[t] = Dealt(v.tables[t], v.nextHand)
    BY <1>6 DEF OneTable, IsRegistry
  <2>2. Keeps(v.tables[t], Dealt(v.tables[t], v.nextHand))
    <3>1. TableFits(v.tables[t]) /\ v.tables[t].hand = NoHand /\ v.nextHand \in Nat \ {0}
      BY <1>3, <1>4, <1>5, <1>6 DEF Sound, Counted
    <3> QED BY <3>1, DealtTable
  <2> HIDE DEF w
  <2> QED BY <2>1, <2>2 DEF Keeps
<1> HIDE DEF w, x
<1>14. OneTable(q, w, t) /\ AllImaged(w)
  <2>1. OneTable(q, w, t)
    BY <1>6, <1>12, OneTableTwice
  <2>2. AllImaged(w)
    BY <1>7, <1>12 DEF AllImaged, OneTable, Imaged
  <2> QED BY <2>1, <2>2
<1>15. BreaksSoFar(r, v, t)
  BY <1>5, <1>6, <1>7, <1>8, <1>9
<1>16. BreaksSoFar(r, w, t)
  BY <1>8, <1>9, <1>12, <1>13, <1>14
<1> QED BY <1>10, <1>11, <1>15, <1>16 DEF x

(* The look at the breaks leaves a sound registry, and ring tables as they were. *)
LEMMA BreaksAreSound ==
  ASSUME NEW r, Sound(r), AllImaged(r), NEW time \in Nat
  PROVE  LET q == BreaksAdvanced(r, time) IN
         /\ Sound(q) /\ AllImaged(q) /\ DOMAIN q.tables = DOMAIN r.tables
         /\ \A u \in DOMAIN r.tables : LeftWaiting(q, u) => LeftWaiting(r, u)
<1> DEFINE last == r.nextTable - 1
           q == BreaksAdvanced(r, time)
<1>1. last \in Nat /\ \A u \in DOMAIN r.tables : u \in Nat \ {0}
  BY DEF Sound, Counted
<1>2. PICK f : BreakLoop(r, time, last, f) /\ BreaksAdvanced(r, time) = f[last]
  BY <1>1, BreaksAdvancedIsLoop
<1> DEFINE Bad == {k \in 0 .. last : ~BreaksSoFar(r, f[k], k)}
<1>3. Bad = {}
  <2>1. SUFFICES ASSUME Bad # {} PROVE FALSE
    OBVIOUS
  <2> HIDE DEF last
  <2>2. PICK m \in Bad : \A k \in Bad : m <= k
    <3>1. Bad \subseteq Nat
      OBVIOUS
    <3> QED BY <2>1, <3>1, LeastOf
  <2>3. CASE m = 0
    <3>1. f[0] = r
      BY <1>2, <2>2, <2>3 DEF BreakLoop
    <3>2. BreaksSoFar(r, r, 0)
      BY <1>1 DEF BreaksSoFar
    <3> QED BY <2>2, <2>3, <3>1, <3>2
  <2>4. CASE m # 0
    <3>1. f[m] = IF m \in OnBreak(r) THEN AfterBreak(f[m - 1], m, time) ELSE f[m - 1]
      BY <1>2, <2>2, <2>4 DEF BreakLoop
    <3>2. m - 1 \in Nat /\ m - 1 \in 0 .. last /\ m - 1 \notin Bad /\ m = (m - 1) + 1
      BY <1>1, <2>2, <2>4
    <3>3. BreaksSoFar(r, f[m - 1], m - 1)
      BY <3>2
    <3>4. CASE m \in OnBreak(r)
      <4>1. BreaksSoFar(r, AfterBreak(f[m - 1], m, time), m)
        BY <1>1, <3>2, <3>3, <3>4, BreakStep
      <4> QED BY <2>2, <3>1, <3>4, <4>1
    <3>5. CASE m \notin OnBreak(r)
      <4>1. \A u \in DOMAIN r.tables : m < u => m - 1 < u
        BY <1>1, <3>2
      <4>2. BreaksSoFar(r, f[m - 1], m)
        BY <3>3, <4>1 DEF BreaksSoFar
      <4> QED BY <2>2, <3>1, <3>5, <4>2
    <3> QED BY <3>4, <3>5
  <2> QED BY <2>3, <2>4
<1>4. BreaksSoFar(r, q, last)
  BY <1>1, <1>2, <1>3
<1> HIDE DEF q, last
<1>5. ASSUME NEW u \in DOMAIN r.tables, LeftWaiting(q, u) PROVE LeftWaiting(r, u)
  <2>1. q.tables[u].cfg.tour = NoTour /\ q.tables[u].cfg = r.tables[u].cfg
    BY <1>4, <1>5 DEF LeftWaiting, BreaksSoFar
  <2>2. r.tables[u].tour = NoTour
    BY <2>1, TableOf
  <2>3. u \notin OnBreak(r)
    BY <2>2 DEF OnBreak, TourStatus
  <2>4. q.tables[u] = r.tables[u]
    BY <1>4, <2>3 DEF BreaksSoFar
  <2> QED BY <1>5, <2>4 DEF LeftWaiting, Admissible
<1> QED BY <1>4, <1>5 DEF BreaksSoFar, q

-----------------------------------------------------------------------------
(* The checkpoint. *)

(* What is written at any moment describes one consistent registry. *)
LEMMA CheckpointFits ==
  ASSUME NEW r, Sound(r), AllImaged(r)
  PROVE  FileFits(CheckpointOf(r))
<1> DEFINE c == CheckpointOf(r)
           tables == [t \in DOMAIN r.tables |->
                        [cfg |-> r.tables[t].cfg, tour |-> r.tables[t].tour,
                         image |-> r.tables[t].durable]]
<1>1. /\ DOMAIN tables = DOMAIN r.tables
      /\ \A t \in DOMAIN tables : /\ tables[t].cfg = r.tables[t].cfg /\ tables[t].tour = r.tables[t].tour
                                  /\ tables[t].image = r.tables[t].durable
  OBVIOUS
<1>2. \A t \in DOMAIN tables : tables[t].image.roster = r.tables[t].roster
  BY <1>1 DEF AllImaged, Imaged
<1>3. c = [tables |-> tables, sessions |-> r.sessions,
           nextTable |-> r.nextTable, nextPlayer |-> r.nextPlayer, nextHand |-> r.nextHand]
  BY DEF CheckpointOf
<1> HIDE DEF tables, c
<1>4. /\ c.tables = tables /\ c.sessions = r.sessions /\ c.nextTable = r.nextTable
      /\ c.nextPlayer = r.nextPlayer /\ c.nextHand = r.nextHand
  BY <1>3
<1>5. /\ c.nextTable \in Nat \ {0} /\ c.nextPlayer \in Nat /\ c.nextHand \in Nat \ {0}
  BY <1>4 DEF Sound, Counted
<1>6. ASSUME NEW t \in DOMAIN c.tables
      PROVE  /\ t \in Nat \ {0} /\ t < c.nextTable
             /\ c.tables[t].cfg \in TableConfigs
             /\ RosterFits(c.tables[t].cfg, c.tables[t].image.roster)
             /\ TourFits(c.tables[t].tour, c.tables[t].image.roster)
             /\ c.tables[t].cfg.tour = NoTour => c.tables[t].tour = NoTour
  <2>1. t \in DOMAIN r.tables
    BY <1>1, <1>4
  <2>2. TableFits(r.tables[t]) /\ t \in Nat \ {0} /\ t < r.nextTable
    BY <2>1, TableOf
  <2> QED BY <1>1, <1>2, <1>4, <2>1, <2>2 DEF TableFits
<1>7. ASSUME NEW s \in DOMAIN c.sessions
      PROVE  /\ c.sessions[s].table \in DOMAIN c.tables
             /\ c.sessions[s].seat \in DOMAIN c.tables[c.sessions[s].table].image.roster
             /\ c.tables[c.sessions[s].table].image.roster[c.sessions[s].seat].player = c.sessions[s].player
  <2>1. RouteFits(r, s)
    BY <1>4 DEF Sound, Routing
  <2> QED BY <1>1, <1>2, <1>4, <2>1 DEF RouteFits
<1>8. ASSUME NEW s \in DOMAIN c.sessions, NEW u \in DOMAIN c.sessions,
             c.sessions[s].table = c.sessions[u].table, c.sessions[s].seat = c.sessions[u].seat
      PROVE  s = u
  <2>1. RouteFits(r, s) /\ RouteFits(r, u)
    BY <1>4 DEF Sound, Routing
  <2> QED BY <1>4, <1>8, <2>1 DEF RouteFits
<1>9. ASSUME NEW t \in DOMAIN c.tables, NEW x \in DOMAIN c.tables[t].image.roster
      PROVE  /\ c.tables[t].image.roster[x].player < c.nextPlayer
             /\ \E s \in DOMAIN c.sessions : c.sessions[s].table = t /\ c.sessions[s].seat = x
  <2>1. t \in DOMAIN r.tables /\ x \in DOMAIN r.tables[t].roster /\ c.tables[t].image.roster = r.tables[t].roster
    BY <1>1, <1>2, <1>4
  <2>2. SeatFits(r, t, x) /\ r.tables[t].roster[x].player < r.nextPlayer
    BY <2>1 DEF Sound, Routing, Persons
  <2> QED BY <1>4, <2>1, <2>2 DEF SeatFits
<1>10. ASSUME NEW t \in DOMAIN c.tables, NEW u \in DOMAIN c.tables,
              NEW x \in DOMAIN c.tables[t].image.roster, NEW y \in DOMAIN c.tables[u].image.roster,
              c.tables[t].image.roster[x].player = c.tables[u].image.roster[y].player
       PROVE  t = u /\ x = y
  <2>1. /\ t \in DOMAIN r.tables /\ x \in DOMAIN r.tables[t].roster /\ c.tables[t].image.roster = r.tables[t].roster
        /\ u \in DOMAIN r.tables /\ y \in DOMAIN r.tables[u].roster /\ c.tables[u].image.roster = r.tables[u].roster
    BY <1>1, <1>2, <1>4
  <2> QED BY <1>10, <2>1 DEF Sound, Persons
<1>11. FileFits(c)
  BY <1>5, <1>6, <1>7, <1>8, <1>9, <1>10 DEF FileFits
<1> QED BY <1>11 DEF c

(* A table of the file comes back with the sessions of its seats. *)
LEMMA TableRestored ==
  ASSUME NEW c, FileFits(c), NEW t \in DOMAIN c.tables
  PROVE  LET q == RestoredTable(c, t) IN
         /\ TableFits(q) /\ Imaged(q) /\ q.hand = NoHand /\ q.queue = <<>>
         /\ q.roster = c.tables[t].image.roster
         /\ \A x \in DOMAIN q.roster :
              LET s == q.seatSess[x] IN
              s \in DOMAIN c.sessions /\ c.sessions[s].table = t /\ c.sessions[s].seat = x
<1> DEFINE e == c.tables[t]
           image == e.image
           new == NewTable(e.cfg)
           sess == [x \in DOMAIN image.roster |-> SessionAt(c, t, x)]
           q == RestoredTable(c, t)
<1>1. e.cfg \in TableConfigs /\ RosterFits(e.cfg, image.roster) /\ TourFits(e.tour, image.roster)
      /\ (e.cfg.tour = NoTour => e.tour = NoTour)
  BY DEF FileFits
<1>2. TableFits(new) /\ new.queue = <<>> /\ new.hand = NoHand /\ new.cfg = e.cfg
  BY <1>1, FreshTable
<1>3. DOMAIN sess = DOMAIN image.roster /\ \A x \in DOMAIN image.roster : sess[x] = SessionAt(c, t, x)
  OBVIOUS
<1>4. q = [new EXCEPT !.roster = image.roster, !.run = image.run, !.hands = image.hands,
                      !.durable = image, !.tour = e.tour, !.seatSess = sess]
  BY DEF RestoredTable
<1>5. IsTable(new) /\ HandFits(new)
  BY <1>2 DEF TableFits
<1>6. new.leaving = {} /\ new.departures = {} /\ DOMAIN new.dealt = {} /\ DOMAIN new.result = {}
  BY <1>2, <1>5 DEF HandFits
<1>7. ASSUME NEW x \in DOMAIN image.roster
      PROVE  /\ SessionAt(c, t, x) \in DOMAIN c.sessions
             /\ c.sessions[SessionAt(c, t, x)].table = t /\ c.sessions[SessionAt(c, t, x)].seat = x
  <2>1. \E s \in DOMAIN c.sessions : c.sessions[s].table = t /\ c.sessions[s].seat = x
    BY DEF FileFits
  <2> QED BY <2>1 DEF SessionAt
<1> HIDE DEF q, new, sess
<1>8. /\ IsTable(q) /\ q.cfg = e.cfg /\ q.roster = image.roster /\ q.leaving = {} /\ q.hand = NoHand
      /\ DOMAIN q.dealt = {} /\ DOMAIN q.result = {} /\ q.durable = image /\ q.seatSess = sess
      /\ q.queue = <<>> /\ q.departures = {} /\ q.tour = e.tour
  <2> HIDE DEF e, image
  <2>1. /\ IsTable(q) /\ q.cfg = new.cfg /\ q.roster = image.roster /\ q.leaving = new.leaving
        /\ q.hand = new.hand /\ q.dealt = new.dealt /\ q.result = new.result /\ q.durable = image
        /\ q.seatSess = sess /\ q.queue = new.queue /\ q.departures = new.departures /\ q.tour = e.tour
    BY <1>4, <1>5 DEF IsTable
  <2> QED BY <1>2, <1>6, <2>1
<1>9. HandFits(q)
  BY <1>8 DEF HandFits
<1>10. TableFits(q) /\ Imaged(q)
  BY <1>1, <1>3, <1>8, <1>9 DEF TableFits, Imaged, NoHand
<1> QED BY <1>3, <1>7, <1>8, <1>10 DEF q

(* Tables that start hands together number them differently. *)
LEMMA EarlierCounts ==
  ASSUME NEW S, IsFiniteSet(S), S \subseteq Nat, NEW t \in S
  PROVE  /\ Earlier(S, t) \in Nat /\ Cardinality(S) \in Nat /\ Earlier(S, t) < Cardinality(S)
         /\ \A u \in S : t < u => Earlier(S, t) < Earlier(S, u) /\ Earlier(S, u) \in Nat
<1> DEFINE E(u) == {v \in S : v < u}
<1>1. ASSUME NEW u \in S
      PROVE  /\ IsFiniteSet(E(u)) /\ Cardinality(E(u)) \in Nat /\ Cardinality(S) \in Nat
             /\ Cardinality(E(u)) < Cardinality(S)
  <2>1. E(u) \in SUBSET S /\ u \notin E(u)
    OBVIOUS
  <2> HIDE DEF E
  <2>2. IsFiniteSet(E(u)) /\ Cardinality(E(u)) <= Cardinality(S) /\ (Cardinality(S) = Cardinality(E(u)) => S = E(u))
    BY <2>1, FS_Subset
  <2>3. Cardinality(E(u)) \in Nat /\ Cardinality(S) \in Nat
    BY <2>2, FS_CardinalityType
  <2>4. S # E(u)
    BY <2>1
  <2> QED BY <2>2, <2>3, <2>4
<1>2. ASSUME NEW u \in S, t < u PROVE Cardinality(E(t)) < Cardinality(E(u))
  <2>1. E(t) \in SUBSET E(u) /\ t \in E(u) /\ t \notin E(t)
    <3>1. t \in Nat /\ u \in Nat /\ \A v \in S : v \in Nat
      OBVIOUS
    <3>2. \A v \in S : v < t => v < u
      BY <1>2, <3>1
    <3>3. ~ (t < t)
      BY <3>1
    <3>4. \A v \in E(t) : v \in E(u)
      BY <3>2
    <3>5. E(t) \in SUBSET E(u)
      <4> HIDE DEF E
      <4> QED BY <3>4
    <3> QED BY <1>2, <3>3, <3>5
  <2>2. IsFiniteSet(E(u)) /\ Cardinality(E(u)) \in Nat /\ Cardinality(E(t)) \in Nat
    BY <1>1
  <2> HIDE DEF E
  <2>3. Cardinality(E(t)) <= Cardinality(E(u)) /\ (Cardinality(E(u)) = Cardinality(E(t)) => E(u) = E(t))
    BY <2>1, <2>2, FS_Subset
  <2>4. E(u) # E(t)
    BY <2>1
  <2> QED BY <2>2, <2>3, <2>4
<1>3. \A u \in S : Earlier(S, u) = Cardinality(E(u))
  BY DEF Earlier
<1> HIDE DEF E
<1> QED BY <1>1, <1>2, <1>3

(* A file that fits is loaded into a sound registry. *)
LEMMA LoadedIsSound ==
  ASSUME NEW c, FileFits(c), NEW history
  PROVE  LET r == Loaded(c, history) IN
         /\ Sound(r) /\ AllImaged(r)
         /\ \A t \in DOMAIN r.tables : r.tables[t].queue = <<>>
<1> DEFINE S == RestartsHand(c)
           tables == [t \in DOMAIN c.tables |->
                        IF t \in S THEN Dealt(RestoredTable(c, t), c.nextHand + Earlier(S, t))
                        ELSE RestoredTable(c, t)]
           next == c.nextHand + Cardinality(S)
           r == Loaded(c, history)
<1>1. /\ c.nextTable \in Nat \ {0} /\ c.nextPlayer \in Nat /\ c.nextHand \in Nat \ {0}
      /\ \A t \in DOMAIN c.tables : t \in Nat \ {0} /\ t < c.nextTable
  BY DEF FileFits
<1>2. IsFiniteSet(S) /\ S \subseteq Nat /\ S \subseteq DOMAIN c.tables
  <2>1. S \subseteq DOMAIN c.tables
    BY DEF RestartsHand
  <2> HIDE DEF S
  <2>2. S \in SUBSET Nat /\ \A s \in S : s <= c.nextTable
    BY <1>1, <2>1
  <2>3. c.nextTable \in Nat
    BY <1>1
  <2> QED BY <2>1, <2>2, <2>3, FS_BoundedSetOfNaturals
<1>3. r = [tables |-> tables, sessions |-> c.sessions, waits |-> <<>>, history |-> history,
           nextTable |-> c.nextTable, nextPlayer |-> c.nextPlayer, nextHand |-> next]
  BY DEF Loaded
<1>4. /\ DOMAIN tables = DOMAIN c.tables
      /\ \A t \in DOMAIN c.tables :
           tables[t] = IF t \in S THEN Dealt(RestoredTable(c, t), c.nextHand + Earlier(S, t))
                       ELSE RestoredTable(c, t)
  OBVIOUS
<1> HIDE DEF r, tables, S, next
<1>5. /\ IsRegistry(r) /\ r.tables = tables /\ r.sessions = c.sessions /\ r.nextTable = c.nextTable
      /\ r.nextPlayer = c.nextPlayer /\ r.nextHand = next
  <2> DEFINE none == <<>>
  <2>1. r = [tables |-> tables, sessions |-> c.sessions, waits |-> none, history |-> history,
             nextTable |-> c.nextTable, nextPlayer |-> c.nextPlayer, nextHand |-> next]
    BY <1>3
  <2> HIDE DEF none
  <2> QED BY <2>1 DEF IsRegistry
<1>6. \A t \in S : /\ Earlier(S, t) \in Nat /\ Cardinality(S) \in Nat /\ Earlier(S, t) < Cardinality(S)
                   /\ \A u \in S : t < u => Earlier(S, t) < Earlier(S, u)
  BY <1>2, EarlierCounts
<1>7. Cardinality(S) \in Nat
  BY <1>2, FS_CardinalityType
<1>8. ASSUME NEW t \in DOMAIN c.tables
      PROVE  /\ TableFits(tables[t]) /\ Imaged(tables[t]) /\ tables[t].queue = <<>>
             /\ tables[t].hand = IF t \in S THEN c.nextHand + Earlier(S, t) ELSE NoHand
             /\ tables[t].roster = c.tables[t].image.roster
             /\ \A x \in DOMAIN tables[t].roster :
                  LET s == tables[t].seatSess[x] IN
                  s \in DOMAIN c.sessions /\ c.sessions[s].table = t /\ c.sessions[s].seat = x
  <2> DEFINE q == RestoredTable(c, t)
             h == c.nextHand + Earlier(S, t)
  <2>1. /\ TableFits(q) /\ Imaged(q) /\ q.hand = NoHand /\ q.queue = <<>>
        /\ q.roster = c.tables[t].image.roster
        /\ \A x \in DOMAIN q.roster :
             /\ q.seatSess[x] \in DOMAIN c.sessions /\ c.sessions[q.seatSess[x]].table = t
             /\ c.sessions[q.seatSess[x]].seat = x
    BY TableRestored
  <2> HIDE DEF q
  <2>2. CASE t \in S
    <3>1. h \in Nat \ {0}
      BY <1>1, <1>6, <2>2
    <3>2. tables[t] = Dealt(q, h)
      BY <1>4, <2>2 DEF q
    <3> HIDE DEF h
    <3>3. /\ TableFits(Dealt(q, h)) /\ Keeps(q, Dealt(q, h))
          /\ Dealt(q, h).hand = h /\ Dealt(q, h).roster = q.roster
          /\ Dealt(q, h).durable = q.durable /\ Dealt(q, h).queue = q.queue
      BY <2>1, <3>1, DealtTable
    <3>4. \A x \in DOMAIN q.roster : Dealt(q, h).seatSess[x] = q.seatSess[x]
      BY <3>3 DEF Keeps
    <3>5. Imaged(Dealt(q, h))
      BY <2>1, <3>3 DEF Imaged
    <3>6. tables[t].hand = c.nextHand + Earlier(S, t)
      BY <3>2, <3>3 DEF h
    <3> QED BY <2>1, <2>2, <3>2, <3>3, <3>4, <3>5, <3>6
  <2>3. CASE t \notin S
    <3>1. tables[t] = q
      BY <1>4, <2>3 DEF q
    <3> QED BY <2>1, <2>3, <3>1
  <2> QED BY <2>2, <2>3
<1>9. Counted(r)
  BY <1>1, <1>4, <1>5, <1>7 DEF Counted, next
<1>10. ASSUME NEW s \in DOMAIN r.sessions PROVE RouteFits(r, s)
  <2> DEFINE e == c.sessions[s]
  <2>1. /\ e.table \in DOMAIN c.tables
        /\ e.seat \in DOMAIN c.tables[e.table].image.roster
        /\ c.tables[e.table].image.roster[e.seat].player = e.player
    BY <1>5 DEF FileFits
  <2>2. tables[e.table].roster = c.tables[e.table].image.roster
    BY <1>8, <2>1
  <2> DEFINE o == tables[e.table].seatSess[e.seat]
  <2>3. o \in DOMAIN c.sessions /\ c.sessions[o].table = e.table /\ c.sessions[o].seat = e.seat
    BY <1>8, <2>1, <2>2
  <2>4. o = s
    BY <1>5, <2>3 DEF FileFits
  <2> QED BY <1>4, <1>5, <2>1, <2>2, <2>4 DEF RouteFits
<1>11. ASSUME NEW t \in DOMAIN r.tables, NEW x \in DOMAIN r.tables[t].roster PROVE SeatFits(r, t, x)
  BY <1>4, <1>5, <1>8 DEF SeatFits
<1>12. Routing(r)
  BY <1>10, <1>11 DEF Routing
<1>13. Persons(r)
  <2>1. \A t \in DOMAIN r.tables : t \in DOMAIN c.tables /\ r.tables[t].roster = c.tables[t].image.roster
    BY <1>4, <1>5, <1>8
  <2>2. \A t \in DOMAIN c.tables : \A x \in DOMAIN c.tables[t].image.roster :
          c.tables[t].image.roster[x].player < c.nextPlayer
    BY DEF FileFits
  <2>3. \A t, u \in DOMAIN c.tables :
          \A x \in DOMAIN c.tables[t].image.roster, y \in DOMAIN c.tables[u].image.roster :
            c.tables[t].image.roster[x].player = c.tables[u].image.roster[y].player => t = u /\ x = y
    BY DEF FileFits
  <2> QED BY <1>5, <2>1, <2>2, <2>3 DEF Persons
<1>14. HandsNumbered(r)
  <2>1. \A t \in DOMAIN r.tables :
          /\ t \in DOMAIN c.tables
          /\ r.tables[t].hand = IF t \in S THEN c.nextHand + Earlier(S, t) ELSE NoHand
    BY <1>4, <1>5, <1>8
  <2>2. \A t \in DOMAIN r.tables : r.tables[t].hand < r.nextHand
    <3> TAKE t \in DOMAIN r.tables
    <3>1. CASE t \in S
      BY <1>1, <1>5, <1>6, <2>1, <3>1 DEF next
    <3>2. CASE t \notin S
      BY <1>1, <1>5, <1>7, <2>1, <3>2 DEF next, NoHand
    <3> QED BY <3>1, <3>2
  <2>3. ASSUME NEW t \in DOMAIN r.tables, NEW u \in DOMAIN r.tables, t # u, r.tables[t].hand # NoHand
        PROVE  r.tables[t].hand # r.tables[u].hand
    <3>1. t \in S /\ r.tables[t].hand = c.nextHand + Earlier(S, t) /\ Earlier(S, t) \in Nat
      BY <1>6, <2>1, <2>3
    <3>2. CASE u \notin S
      <4>1. r.tables[u].hand = NoHand
        BY <2>1, <3>2
      <4> QED BY <2>3, <4>1
    <3>3. CASE u \in S
      <4>1. r.tables[u].hand = c.nextHand + Earlier(S, u) /\ Earlier(S, u) \in Nat
        BY <1>6, <2>1, <3>3
      <4>2. t < u \/ u < t
        <5>1. t \in Nat /\ u \in Nat
          BY <1>2, <3>1, <3>3
        <5> QED BY <2>3, <5>1
      <4>3. Earlier(S, t) # Earlier(S, u)
        BY <1>6, <3>1, <3>3, <4>1, <4>2
      <4> QED BY <1>1, <3>1, <4>1, <4>3
    <3> QED BY <3>2, <3>3
  <2> QED BY <2>2, <2>3 DEF HandsNumbered
<1>15. Queues(r)
  <2> SUFFICES ASSUME NEW t \in DOMAIN r.tables PROVE QueueFits(r, t)
    BY DEF Queues
  <2>1. r.tables[t].queue = <<>>
    BY <1>4, <1>5, <1>8
  <2>2. <<>> \in Seq(WaitEntries) /\ Len(<<>>) = 0
    OBVIOUS
  <2> QED BY <2>1, <2>2 DEF QueueFits
<1>16. Sound(r)
  BY <1>4, <1>5, <1>8, <1>9, <1>12, <1>13, <1>14, <1>15 DEF Sound
<1>17. AllImaged(r) /\ \A t \in DOMAIN r.tables : r.tables[t].queue = <<>>
  BY <1>4, <1>5, <1>8 DEF AllImaged
<1> QED BY <1>16, <1>17 DEF r

-----------------------------------------------------------------------------
(* The steps. *)

(* Nobody is passed: what NoOvertaking says of a step. *)
NobodyPassed ==
  \A t \in DOMAIN reg'.tables : LeftWaiting(reg', t) =>
    t \in Tables /\ (LeftWaiting(reg, t) \/ HeadGaveUp(t))

(* A step of the running registry. *)
GoodStep == Sound(reg') /\ AllImaged(reg') /\ NobodyPassed

(* A step that touches one table and leaves nobody waiting there who was not. *)
LEMMA StepAtTable ==
  ASSUME NEW t, AllImaged(reg), OneTable(reg, reg', t), Sound(reg'), Imaged(reg'.tables[t]),
         LeftWaiting(reg', t) => LeftWaiting(reg, t) \/ HeadGaveUp(t)
  PROVE  GoodStep
<1>1. AllImaged(reg')
  BY DEF AllImaged, OneTable
<1>2. ASSUME NEW u \in DOMAIN reg'.tables, LeftWaiting(reg', u)
      PROVE  u \in Tables /\ (LeftWaiting(reg, u) \/ HeadGaveUp(u))
  <2>1. u \in Tables
    BY DEF OneTable, Tables
  <2>2. CASE u = t
    BY <1>2, <2>1, <2>2
  <2>3. CASE u # t
    <3>1. reg'.tables[u] = reg.tables[u]
      BY <2>1, <2>3 DEF OneTable, Tables
    <3>2. LeftWaiting(reg, u)
      BY <1>2, <3>1 DEF LeftWaiting, Admissible
    <3> QED BY <2>1, <3>2
  <2> QED BY <2>2, <2>3
<1> QED BY <1>1, <1>2 DEF GoodStep, NobodyPassed

(* The registry with nothing in it. *)
LEMMA EmptyIsSound ==
  ASSUME NEW history
  PROVE  LET r == [EmptyRegistry EXCEPT !.history = history] IN
         /\ Sound(r) /\ AllImaged(r) /\ DOMAIN r.tables = {}
         /\ Sound(EmptyRegistry) /\ AllImaged(EmptyRegistry) /\ DOMAIN EmptyRegistry.tables = {}
<1> DEFINE none == <<>>
<1>1. DOMAIN none = {}
  OBVIOUS
<1>2. EmptyRegistry = [tables |-> none, sessions |-> none, waits |-> none, history |-> none,
                       nextTable |-> 1, nextPlayer |-> 1, nextHand |-> 1]
  BY DEF EmptyRegistry
<1> HIDE DEF none
<1>3. [EmptyRegistry EXCEPT !.history = history] =
        [tables |-> none, sessions |-> none, waits |-> none, history |-> history,
         nextTable |-> 1, nextPlayer |-> 1, nextHand |-> 1]
  BY <1>2
<1>4. ASSUME NEW h, NEW r, r = [tables |-> none, sessions |-> none, waits |-> none, history |-> h,
                                nextTable |-> 1, nextPlayer |-> 1, nextHand |-> 1]
      PROVE  Sound(r) /\ AllImaged(r) /\ DOMAIN r.tables = {}
  <2>1. /\ IsRegistry(r) /\ DOMAIN r.tables = {} /\ DOMAIN r.sessions = {}
        /\ r.nextTable = 1 /\ r.nextPlayer = 1 /\ r.nextHand = 1
    BY <1>1, <1>4 DEF IsRegistry
  <2>2. Counted(r) /\ Routing(r) /\ Persons(r) /\ HandsNumbered(r) /\ Queues(r)
    BY <2>1 DEF Counted, Routing, Persons, HandsNumbered, Queues
  <2> QED BY <2>1, <2>2 DEF Sound, AllImaged
<1> QED BY <1>2, <1>3, <1>4

(* create, create_tournament *)
LEMMA CreateTableStep ==
  ASSUME Sound(reg), AllImaged(reg), NEW cfg \in TableConfigs, CreateTable(cfg)
  PROVE  GoodStep
<1> DEFINE n == reg.nextTable
           new == NewTable(cfg)
           tables == With(reg.tables, n, new)
           next == n + 1
<1>1. IsRegistry(reg) /\ n \in Nat \ {0} /\ reg.nextPlayer \in Nat /\ reg.nextHand \in Nat \ {0}
      /\ \A t \in DOMAIN reg.tables : t \in Nat \ {0} /\ t < n
  BY DEF Sound, Counted
<1>2. reg' = [reg EXCEPT !.tables = tables, !.nextTable = next]
  BY <1>1 DEF CreateTable, IsRegistry
<1>3. /\ TableFits(new) /\ Imaged(new) /\ DOMAIN new.roster = {} /\ new.queue = <<>>
      /\ new.hand = NoHand
  BY FreshTable
<1>4. n \notin DOMAIN reg.tables
  BY <1>1
<1>5. /\ DOMAIN tables = DOMAIN reg.tables \cup {n} /\ tables[n] = new
      /\ \A t \in DOMAIN reg.tables : tables[t] = reg.tables[t]
  BY <1>4 DEF With
<1> HIDE DEF tables, new, next
<1>6. /\ IsRegistry(reg') /\ reg'.tables = tables /\ reg'.sessions = reg.sessions
      /\ reg'.waits = reg.waits /\ reg'.nextTable = next
      /\ reg'.nextPlayer = reg.nextPlayer /\ reg'.nextHand = reg.nextHand
  BY <1>1, <1>2 DEF IsRegistry
<1>7. /\ \A t \in DOMAIN reg'.tables : t \in DOMAIN reg.tables \/ t = n
      /\ reg'.tables[n] = new
      /\ \A t \in DOMAIN reg.tables : t \in DOMAIN reg'.tables /\ reg'.tables[t] = reg.tables[t]
  BY <1>5, <1>6
<1>8. Counted(reg')
  BY <1>1, <1>6, <1>7 DEF Counted, next
<1>9. Routing(reg')
  <2>1. ASSUME NEW s \in DOMAIN reg'.sessions PROVE RouteFits(reg', s)
    <3>1. RouteFits(reg, s) /\ reg'.sessions = reg.sessions
      BY <1>6 DEF Sound, Routing
    <3> QED BY <1>7, <3>1 DEF RouteFits
  <2>2. ASSUME NEW t \in DOMAIN reg'.tables, NEW x \in DOMAIN reg'.tables[t].roster
        PROVE  SeatFits(reg', t, x)
    <3>1. t \in DOMAIN reg.tables /\ reg'.tables[t] = reg.tables[t]
      BY <1>3, <1>7
    <3>2. SeatFits(reg, t, x)
      BY <3>1 DEF Sound, Routing
    <3> QED BY <1>6, <3>1, <3>2 DEF SeatFits
  <2> QED BY <2>1, <2>2 DEF Routing
<1>10. Persons(reg')
  <2>1. \A t \in DOMAIN reg'.tables : \A x \in DOMAIN reg'.tables[t].roster :
          t \in DOMAIN reg.tables /\ reg'.tables[t] = reg.tables[t]
    BY <1>3, <1>7
  <2> QED BY <1>6, <2>1 DEF Sound, Persons
<1>11. HandsNumbered(reg')
  <2>1. \A t \in DOMAIN reg.tables : reg.tables[t].hand \in Nat /\ reg.tables[t].hand < reg.nextHand
    BY TableOf DEF Sound, HandsNumbered
  <2>2. \A t, u \in DOMAIN reg.tables :
          t # u /\ reg.tables[t].hand # NoHand => reg.tables[t].hand # reg.tables[u].hand
    BY DEF Sound, HandsNumbered
  <2>3. \A t \in DOMAIN reg'.tables : reg'.tables[t].hand < reg'.nextHand
    BY <1>1, <1>3, <1>6, <1>7, <2>1 DEF NoHand
  <2>4. \A t, u \in DOMAIN reg'.tables :
          t # u /\ reg'.tables[t].hand # NoHand => reg'.tables[t].hand # reg'.tables[u].hand
    BY <1>3, <1>7, <2>2
  <2> QED BY <2>3, <2>4 DEF HandsNumbered
<1>12. Queues(reg')
  <2> SUFFICES ASSUME NEW t \in DOMAIN reg'.tables PROVE QueueFits(reg', t)
    BY DEF Queues
  <2>1. CASE t = n
    <3>1. reg'.tables[t].queue = <<>>
      BY <1>3, <1>7, <2>1
    <3>2. <<>> \in Seq(WaitEntries) /\ Len(<<>>) = 0
      OBVIOUS
    <3> QED BY <3>1, <3>2 DEF QueueFits
  <2>2. CASE t \in DOMAIN reg.tables
    <3>1. QueueFits(reg, t)
      BY <2>2, TableOf
    <3> QED BY <1>6, <1>7, <2>2, <3>1 DEF QueueFits
  <2> QED BY <1>7, <2>1, <2>2
<1>13. \A t \in DOMAIN reg'.tables : TableFits(reg'.tables[t]) /\ Imaged(reg'.tables[t])
  BY <1>3, <1>7, TableOf DEF AllImaged
<1>14. Sound(reg') /\ AllImaged(reg')
  BY <1>6, <1>8, <1>9, <1>10, <1>11, <1>12, <1>13 DEF Sound, AllImaged
<1>15. NobodyPassed
  <2> SUFFICES ASSUME NEW t \in DOMAIN reg'.tables, LeftWaiting(reg', t)
      PROVE  t \in Tables /\ LeftWaiting(reg, t)
    BY DEF NobodyPassed
  <2>1. t # n
    BY <1>3, <1>7 DEF LeftWaiting, Admissible
  <2>2. t \in DOMAIN reg.tables /\ reg'.tables[t] = reg.tables[t]
    BY <1>7, <2>1
  <2> QED BY <2>2 DEF LeftWaiting, Admissible, Tables
<1> QED BY <1>14, <1>15 DEF GoodStep

(* Empty tables are removed. *)
LEMMA TablesRemoved ==
  ASSUME Sound(reg), AllImaged(reg), IsRegistry(reg'),
         DOMAIN reg'.tables \subseteq DOMAIN reg.tables,
         \A t \in DOMAIN reg'.tables : reg'.tables[t] = reg.tables[t],
         \A t \in DOMAIN reg.tables : t \notin DOMAIN reg'.tables => DOMAIN reg.tables[t].roster = {},
         reg'.sessions = reg.sessions, reg'.waits = reg.waits, reg'.nextTable = reg.nextTable,
         reg'.nextPlayer = reg.nextPlayer, reg'.nextHand = reg.nextHand
  PROVE  GoodStep
<1>1. Counted(reg')
  BY DEF Sound, Counted
<1>2. Routing(reg')
  <2>1. ASSUME NEW s \in DOMAIN reg'.sessions PROVE RouteFits(reg', s)
    <3> DEFINE e == reg.sessions[s]
    <3>1. /\ e.table \in DOMAIN reg.tables /\ e.seat \in DOMAIN reg.tables[e.table].roster
          /\ reg.tables[e.table].roster[e.seat].player = e.player
          /\ reg.tables[e.table].seatSess[e.seat] = s
      BY DEF Sound, Routing, RouteFits
    <3>2. e.table \in DOMAIN reg'.tables /\ reg'.tables[e.table] = reg.tables[e.table]
      BY <3>1
    <3> QED BY <3>1, <3>2 DEF RouteFits
  <2>2. ASSUME NEW t \in DOMAIN reg'.tables, NEW x \in DOMAIN reg'.tables[t].roster
        PROVE  SeatFits(reg', t, x)
    <3>1. SeatFits(reg, t, x) /\ reg'.tables[t] = reg.tables[t]
      BY DEF Sound, Routing
    <3> QED BY <3>1 DEF SeatFits
  <2> QED BY <2>1, <2>2 DEF Routing
<1>3. Persons(reg') /\ HandsNumbered(reg')
  BY DEF Sound, Persons, HandsNumbered
<1>4. Queues(reg')
  BY QueuesKept
<1>5. \A t \in DOMAIN reg'.tables : TableFits(reg'.tables[t])
  BY TableOf
<1>6. Sound(reg') /\ AllImaged(reg')
  BY <1>1, <1>2, <1>3, <1>4, <1>5 DEF Sound, AllImaged
<1>7. NobodyPassed
  <2> SUFFICES ASSUME NEW t \in DOMAIN reg'.tables, LeftWaiting(reg', t)
      PROVE  t \in Tables /\ LeftWaiting(reg, t)
    BY DEF NobodyPassed
  <2>1. t \in DOMAIN reg.tables /\ reg'.tables[t] = reg.tables[t]
    OBVIOUS
  <2> QED BY <2>1 DEF LeftWaiting, Admissible, Tables
<1> QED BY <1>6, <1>7 DEF GoodStep

(* A table with the same seats, the same queue and the same hand takes its place. *)
LEMMA SameSeatsStep ==
  ASSUME Sound(reg), AllImaged(reg), NEW t \in Tables, NEW tb,
         TableFits(tb), Keeps(reg.tables[t], tb), tb.roster = reg.tables[t].roster,
         tb.durable = reg.tables[t].durable, tb.queue = reg.tables[t].queue,
         tb.hand = reg.tables[t].hand, reg' = [reg EXCEPT !.tables[t] = tb]
  PROVE  GoodStep
<1>1. Sound(reg')
  BY SeatsPut DEF Tables
<1>2. OneTable(reg, reg', t) /\ reg'.tables[t] = tb
  BY TablePut DEF Tables, Sound
<1>3. Imaged(reg'.tables[t])
  BY <1>2 DEF AllImaged, Imaged, Tables
<1>4. ASSUME LeftWaiting(reg', t) PROVE LeftWaiting(reg, t)
  <2>1. FreeSeats(tb) = FreeSeats(reg.tables[t]) /\ tb.cfg = reg.tables[t].cfg
    BY DEF FreeSeats, TableSeats, Keeps
  <2>2. \A request : Seatable(tb, request) <=> Seatable(reg.tables[t], request)
    BY <2>1 DEF Seatable
  <2> QED BY <1>2, <1>4, <2>1, <2>2 DEF LeftWaiting, Admissible
<1> QED BY <1>1, <1>2, <1>3, <1>4, StepAtTable

(* request_leave during a hand *)
LEMMA RequestLeaveStep ==
  ASSUME EarlyLeaves = FALSE, Sound(reg), AllImaged(reg), NEW s, RequestLeave(s)
  PROVE  GoodStep
<1> DEFINE e == reg.sessions[s]
           t == e.table
           x == e.seat
           tb == reg.tables[t]
           leaving == tb.leaving \cup {x}
           departures == tb.departures \cup {s}
           q == [tb EXCEPT !.leaving = leaving, !.departures = departures]
<1>1. t \in Tables /\ x \in DOMAIN tb.roster /\ tb.seatSess[x] = s
  BY DEF RequestLeave, Routed, Sound, Routing, RouteFits, Tables
<1>2. TableFits(tb)
  BY <1>1, TableOf DEF Tables
<1>3. tb.hand # NoHand /\ reg' = [reg EXCEPT !.tables[t] = q]
  BY <1>2 DEF RequestLeave, TableFits, IsTable
<1>4. /\ TableFits(q) /\ Keeps(tb, q)
      /\ q.hand = tb.hand /\ q.roster = tb.roster /\ q.durable = tb.durable /\ q.queue = tb.queue
  <2>1. TableFits(tb) /\ tb.hand # NoHand /\ x \in DOMAIN tb.roster /\ tb.seatSess[x] = s
    BY <1>1, <1>2, <1>3
  <2>2. /\ leaving = tb.leaving \cup {x} /\ departures = tb.departures \cup {s}
        /\ q = [tb EXCEPT !.leaving = leaving, !.departures = departures]
    OBVIOUS
  <2> HIDE DEF q, tb, x, leaving, departures
  <2>3. TableFits(q)
    BY <2>1, <2>2, LeavingTable
  <2>4. Keeps(tb, q)
    BY <2>1, <2>2, LeavingTable
  <2>5. q.hand = tb.hand /\ q.roster = tb.roster /\ q.durable = tb.durable /\ q.queue = tb.queue
    BY <2>1, <2>2 DEF TableFits, IsTable
  <2> QED BY <2>3, <2>4, <2>5
<1> HIDE DEF q
<1> QED BY <1>1, <1>3, <1>4, SameSeatsStep

(* The hand of a table ends. *)
LEMMA HandOverStep ==
  ASSUME Sound(reg), AllImaged(reg), NEW t \in Tables, NEW final \in ResultsOf(reg.tables[t]),
         HandOver(t, final)
  PROVE  GoodStep
<1> DEFINE tb == reg.tables[t]
           q == [tb EXCEPT !.result = final]
<1>1. IsRegistry(reg) /\ t \in DOMAIN reg.tables /\ TableFits(tb) /\ tb.hand # NoHand
  BY TableOf DEF Sound, Tables, HandOver
<1>2. reg' = [reg EXCEPT !.tables[t] = q]
  BY DEF HandOver
<1>3. /\ TableFits(q) /\ Keeps(tb, q)
      /\ q.hand = tb.hand /\ q.roster = tb.roster /\ q.durable = tb.durable /\ q.queue = tb.queue
  BY <1>1, OverTable
<1> HIDE DEF q
<1> QED BY <1>2, <1>3, SameSeatsStep

(* cancel_registration of a tournament entrant *)
LEMMA CancelRegistrationStep ==
  ASSUME Sound(reg), AllImaged(reg), NEW s, CancelRegistrationOf(s)
  PROVE  GoodStep
<1> DEFINE e == reg.sessions[s]
           t == e.table
           x == e.seat
           tb == reg.tables[t]
           q == WithdrawnTable(tb, x)
           sessions == [u \in DOMAIN reg.sessions \ {s} |-> reg.sessions[u]]
<1>1. /\ s \in DOMAIN reg.sessions /\ t \in DOMAIN reg.tables /\ x \in DOMAIN tb.roster
      /\ tb.roster[x].player = e.player /\ tb.seatSess[x] = s
  BY DEF CancelRegistrationOf, Routed, Sound, Routing, RouteFits
<1>2. tb.hand = NoHand /\ tb.tour # NoTour
  BY DEF CancelRegistrationOf, TourStatus
<1>3. IsRegistry(reg) /\ TableFits(tb) /\ (tb.cfg.tour = NoTour => tb.tour = NoTour)
  BY <1>1, TableOf DEF Sound
<1>4. reg' = [reg EXCEPT !.tables[t] = q, !.sessions = sessions]
  BY <1>1, <1>3 DEF CancelRegistrationOf, WithdrawnTable, Without, IsRegistry
<1>5. /\ TableFits(q) /\ Keeps(tb, q) /\ Imaged(q) /\ q.hand = NoHand /\ q.queue = tb.queue
      /\ DOMAIN q.roster = DOMAIN tb.roster \ {x}
  BY <1>1, <1>2, <1>3, Withdrawing
<1>6. /\ DOMAIN sessions = DOMAIN reg.sessions \ {s}
      /\ \A u \in DOMAIN sessions : sessions[u] = reg.sessions[u]
  OBVIOUS
<1> HIDE DEF q, sessions
<1> DEFINE v == [reg EXCEPT !.tables[t] = q]
<1>7. /\ OneTable(reg, v, t) /\ v.tables[t] = q /\ v.waits = reg.waits
      /\ v.nextPlayer = reg.nextPlayer /\ v.nextHand = reg.nextHand
  <2>1. IsRegistry(reg) /\ t \in DOMAIN reg.tables
    BY <1>1, <1>3
  <2> HIDE DEF t
  <2> QED BY ONLY <2>1, TablePut DEF v
<1>8. reg' = [v EXCEPT !.sessions = sessions]
  BY <1>3, <1>4 DEF IsRegistry
<1> HIDE DEF v
<1>9. /\ OneTable(reg, reg', t) /\ reg'.tables[t] = q /\ reg'.waits = reg.waits
      /\ reg'.sessions = sessions
      /\ reg'.nextPlayer = reg.nextPlayer /\ reg'.nextHand = reg.nextHand
  BY <1>7, <1>8 DEF OneTable, IsRegistry
<1>10. RoutesKept(reg, reg', t)
  <2>1. \A u \in DOMAIN reg.sessions :
          reg.sessions[u].table = t /\ reg.sessions[u].seat = x => u = s
    BY <1>1 DEF Sound, Routing, RouteFits
  <2>2. \A u \in DOMAIN reg.sessions :
          reg.sessions[u].table = t => reg.sessions[u].seat \in DOMAIN tb.roster
    BY DEF Sound, Routing, RouteFits
  <2> QED BY <1>1, <1>5, <1>6, <1>9, <2>1, <2>2 DEF RoutesKept
<1>11. NumbersKept(reg, reg', t)
  BY <1>5, <1>9 DEF NumbersKept
<1>12. Queues(reg')
  <2>1. /\ DOMAIN reg'.tables \subseteq DOMAIN reg.tables
        /\ \A u \in DOMAIN reg'.tables : reg'.tables[u].queue = reg.tables[u].queue
    BY <1>5, <1>9 DEF OneTable
  <2> QED BY <1>6, <1>9, <2>1, QueuesKept
<1>13. Sound(reg')
  BY <1>5, <1>9, <1>10, <1>11, <1>12, TableChanged
<1>14. ~LeftWaiting(reg', t)
  BY <1>2, <1>3, <1>5, <1>9 DEF LeftWaiting, Keeps
<1> QED BY <1>5, <1>9, <1>13, <1>14, StepAtTable

(* remove *)
LEMMA CloseAndRemoveStep ==
  ASSUME Sound(reg), AllImaged(reg), NEW t \in Tables, CloseAndRemove(t)
  PROVE  GoodStep
<1> DEFINE tables == [u \in DOMAIN reg.tables \ {t} |-> reg.tables[u]]
<1>1. reg' = [reg EXCEPT !.tables = tables] /\ IsRegistry(reg)
  BY DEF CloseAndRemove, Without, Sound, IsRegistry
<1>2. /\ DOMAIN tables \subseteq DOMAIN reg.tables
      /\ \A u \in DOMAIN tables : tables[u] = reg.tables[u]
      /\ \A u \in DOMAIN reg.tables : u \notin DOMAIN tables => u = t
  OBVIOUS
<1> HIDE DEF tables
<1>3. DOMAIN reg.tables[t].roster = {}
  BY NobodySeated DEF CloseAndRemove, Removable
<1>4. /\ IsRegistry(reg') /\ reg'.tables = tables /\ reg'.sessions = reg.sessions
      /\ reg'.waits = reg.waits /\ reg'.nextTable = reg.nextTable
      /\ reg'.nextPlayer = reg.nextPlayer /\ reg'.nextHand = reg.nextHand
  BY <1>1 DEF IsRegistry
<1> QED BY <1>2, <1>3, <1>4, TablesRemoved

(* expire_inactive *)
LEMMA ExpireInactiveStep ==
  ASSUME Sound(reg), AllImaged(reg), NEW idle, ExpireInactive(idle)
  PROVE  GoodStep
<1> DEFINE tables == [u \in DOMAIN reg.tables \ idle |-> reg.tables[u]]
<1>1. reg' = [reg EXCEPT !.tables = tables] /\ IsRegistry(reg)
  BY DEF ExpireInactive, Sound, IsRegistry
<1>2. /\ DOMAIN tables \subseteq DOMAIN reg.tables
      /\ \A u \in DOMAIN tables : tables[u] = reg.tables[u]
      /\ \A u \in DOMAIN reg.tables : u \notin DOMAIN tables => u \in idle
  OBVIOUS
<1> HIDE DEF tables
<1>3. \A u \in idle : DOMAIN reg.tables[u].roster = {}
  BY NobodySeated DEF ExpireInactive, Expirable, Removable
<1>4. /\ IsRegistry(reg') /\ reg'.tables = tables /\ reg'.sessions = reg.sessions
      /\ reg'.waits = reg.waits /\ reg'.nextTable = reg.nextTable
      /\ reg'.nextPlayer = reg.nextPlayer /\ reg'.nextHand = reg.nextHand
  BY <1>1 DEF IsRegistry
<1> QED BY <1>2, <1>3, <1>4, TablesRemoved

(* The registry of a server that is gone. *)
LEMMA GoneStep ==
  ASSUME NEW history, reg' = [EmptyRegistry EXCEPT !.history = history] \/ reg' = EmptyRegistry
  PROVE  GoodStep
<1>1. Sound(reg') /\ AllImaged(reg') /\ DOMAIN reg'.tables = {}
  BY EmptyIsSound
<1> QED BY <1>1 DEF GoodStep, NobodyPassed

(* finalize_ready_hands *)
LEMMA SweepGood ==
  ASSUME Sound(reg), AllImaged(reg), NEW time \in TickTimes, Sweep(time)
  PROVE  GoodStep
<1> DEFINE x == Finalized(reg, time)
<1>1. time \in Nat
  BY RegistryAssumption
<1>2. SweptSoFar(reg, x)
  BY <1>1, SweepIsSound
<1>3. IF x.ok THEN reg' = x.r ELSE reg' = EmptyRegistry
  BY DEF Sweep
<1> HIDE DEF x
<1>4. CASE x.ok
  <2>1. Sound(reg') /\ AllImaged(reg') /\ DOMAIN reg'.tables = DOMAIN reg.tables
        /\ \A u \in DOMAIN reg.tables : LeftWaiting(reg', u) => LeftWaiting(reg, u)
    BY <1>2, <1>3, <1>4 DEF SweptSoFar
  <2> QED BY <2>1 DEF GoodStep, NobodyPassed, Tables
<1>5. CASE ~x.ok
  BY <1>3, <1>5, GoneStep
<1> QED BY <1>4, <1>5

(* advance_tournament_breaks *)
LEMMA AdvanceBreaksStep ==
  ASSUME Sound(reg), AllImaged(reg), NEW time \in TickTimes, AdvanceBreaks(time)
  PROVE  GoodStep
<1>1. time \in Nat
  BY RegistryAssumption
<1>2. reg' = BreaksAdvanced(reg, time)
  BY DEF AdvanceBreaks
<1>3. /\ Sound(reg') /\ AllImaged(reg') /\ DOMAIN reg'.tables = DOMAIN reg.tables
      /\ \A u \in DOMAIN reg.tables : LeftWaiting(reg', u) => LeftWaiting(reg, u)
  BY <1>1, <1>2, BreaksAreSound
<1> QED BY <1>3 DEF GoodStep, NobodyPassed, Tables

(* restore of the checkpoint *)
LEMMA RestartStep ==
  ASSUME ckpt # NoFile => FileFits(ckpt), Restart
  PROVE  GoodStep
<1>1. CASE ckpt = NoFile
  BY <1>1, GoneStep DEF Restart
<1>2. CASE ckpt # NoFile
  <2>1. reg' = Loaded(ckpt, LoadedHistory)
    BY <1>2 DEF Restart
  <2>2. Sound(reg') /\ AllImaged(reg') /\ \A t \in DOMAIN reg'.tables : reg'.tables[t].queue = <<>>
    BY <1>2, <2>1, LoadedIsSound
  <2>3. \A t \in DOMAIN reg'.tables : ~LeftWaiting(reg', t)
    BY <2>2 DEF LeftWaiting, Admissible
  <2> QED BY <2>2, <2>3 DEF GoodStep, NobodyPassed
<1> QED BY <1>1, <1>2

(* The registry stays as it is. *)
LEMMA SameStep ==
  ASSUME Sound(reg), AllImaged(reg), reg' = reg
  PROVE  GoodStep
<1>1. Sound(reg') /\ AllImaged(reg')
  OBVIOUS
<1>2. \A t \in DOMAIN reg'.tables : LeftWaiting(reg', t) => LeftWaiting(reg, t) /\ t \in Tables
  BY DEF Tables, LeftWaiting
<1> QED BY <1>1, <1>2 DEF GoodStep, NobodyPassed

(* A queue without its entry i. *)
LEMMA EntryRemoved ==
  ASSUME NEW S, NEW queue \in Seq(S), NEW i \in 1 .. Len(queue)
  PROVE  LET rest == RemoveAt(queue, i) IN
         /\ rest \in Seq(S) /\ Len(rest) = Len(queue) - 1
         /\ \A k \in 1 .. Len(rest) :
              /\ k < i => rest[k] = queue[k]
              /\ k >= i => rest[k] = queue[k + 1]
<1> DEFINE front == SubSeq(queue, 1, i - 1)
           back == SubSeq(queue, i + 1, Len(queue))
<1>1. /\ front \in Seq(S) /\ Len(front) = i - 1
      /\ \A k \in 1 .. i - 1 : front[k] = queue[k]
  OBVIOUS
<1>2. /\ back \in Seq(S) /\ Len(back) = Len(queue) - i
      /\ \A k \in 1 .. Len(queue) - i : back[k] = queue[k + i]
  OBVIOUS
<1>3. RemoveAt(queue, i) = front \o back
  BY DEF RemoveAt
<1> HIDE DEF front, back
<1>4. /\ front \o back \in Seq(S) /\ Len(front \o back) = Len(queue) - 1
      /\ \A k \in 1 .. Len(queue) - 1 :
           (front \o back)[k] = IF k <= i - 1 THEN front[k] ELSE back[k - (i - 1)]
  <2>1. ASSUME NEW a \in Seq(S), NEW b \in Seq(S)
        PROVE  /\ a \o b \in Seq(S) /\ Len(a \o b) = Len(a) + Len(b)
               /\ \A k \in 1 .. Len(a) + Len(b) :
                    (a \o b)[k] = IF k <= Len(a) THEN a[k] ELSE b[k - Len(a)]
    OBVIOUS
  <2>2. Len(front) + Len(back) = Len(queue) - 1 /\ Len(front) = i - 1
    BY <1>1, <1>2
  <2>3. /\ front \o back \in Seq(S) /\ Len(front \o back) = Len(front) + Len(back)
        /\ \A k \in 1 .. Len(front) + Len(back) :
             (front \o back)[k] = IF k <= Len(front) THEN front[k] ELSE back[k - Len(front)]
    BY <1>1, <1>2, <2>1
  <2> QED BY ONLY <2>2, <2>3
<1>5. \A k \in 1 .. Len(queue) - 1 : k >= i => k - (i - 1) \in 1 .. Len(queue) - i
  OBVIOUS
<1>6. \A k \in 1 .. Len(queue) - 1 : k >= i => back[k - (i - 1)] = queue[k + 1]
  BY <1>2, <1>5
<1>7. \A k \in 1 .. Len(queue) - 1 : k < i => k \in 1 .. i - 1 /\ k <= i - 1
  OBVIOUS
<1> QED BY <1>1, <1>3, <1>4, <1>6, <1>7

(* The queue of a table changes between hands or during one, and the sessions
   that wait with it. *)
LEMMA QueueStep ==
  ASSUME Sound(reg), AllImaged(reg), NEW t \in Tables, NEW queue, NEW waits,
         reg' = [reg EXCEPT !.tables[t] = [reg.tables[t] EXCEPT !.queue = queue], !.waits = waits],
         Queues(reg'),
         LeftWaiting(reg', t) => LeftWaiting(reg, t) \/ HeadGaveUp(t)
  PROVE  GoodStep
<1> DEFINE tb == reg.tables[t]
           q == [tb EXCEPT !.queue = queue]
           v == [reg EXCEPT !.tables[t] = q]
<1>1. IsRegistry(reg) /\ t \in DOMAIN reg.tables /\ TableFits(tb)
  BY TableOf DEF Sound, Tables
<1>2. /\ TableFits(q) /\ Keeps(tb, q) /\ q.queue = queue
      /\ q.hand = tb.hand /\ q.roster = tb.roster /\ q.durable = tb.durable
  BY <1>1, QueuedTable
<1>3. reg' = [reg EXCEPT !.tables[t] = q, !.waits = waits]
  OBVIOUS
<1> HIDE DEF q
<1>4. /\ OneTable(reg, v, t) /\ v.tables[t] = q /\ v.sessions = reg.sessions
      /\ v.nextPlayer = reg.nextPlayer /\ v.nextHand = reg.nextHand
  BY <1>1, TablePut
<1>5. reg' = [v EXCEPT !.waits = waits]
  BY <1>1, <1>3 DEF IsRegistry
<1> HIDE DEF v
<1>6. /\ OneTable(reg, reg', t) /\ reg'.tables[t] = q /\ reg'.sessions = reg.sessions
      /\ reg'.nextPlayer = reg.nextPlayer /\ reg'.nextHand = reg.nextHand
  BY <1>4, <1>5 DEF OneTable, IsRegistry
<1>7. RoutesKept(reg, reg', t)
  BY <1>2, <1>6, SameRoutes
<1>8. NumbersKept(reg, reg', t)
  BY <1>2, <1>6 DEF NumbersKept
<1>9. Sound(reg')
  BY <1>2, <1>6, <1>7, <1>8, TableChanged
<1>10. Imaged(reg'.tables[t])
  BY <1>1, <1>2, <1>6 DEF AllImaged, Imaged
<1> QED BY <1>6, <1>9, <1>10, StepAtTable

(* The queue of a table and the sessions that wait are other ones. *)
Requeued(r, q, t, queue, waits) ==
  /\ DOMAIN q.tables = DOMAIN r.tables /\ q.tables[t].queue = queue
  /\ \A u \in DOMAIN r.tables : u # t => q.tables[u] = r.tables[u]
  /\ q.sessions = r.sessions /\ q.waits = waits
  /\ q.tables[t].roster = r.tables[t].roster /\ q.tables[t].cfg = r.tables[t].cfg
  /\ q.tables[t].hand = r.tables[t].hand

(* What the registry is after its table got another queue. *)
LEMMA QueuePut ==
  ASSUME NEW r, Sound(r), NEW t \in DOMAIN r.tables, NEW queue, NEW waits,
         NEW tb, tb = [r.tables[t] EXCEPT !.queue = queue],
         NEW q, q = [r EXCEPT !.tables[t] = tb, !.waits = waits]
  PROVE  Requeued(r, q, t, queue, waits)
<1>1. IsRegistry(r) /\ IsTable(r.tables[t])
  BY TableOf DEF Sound
<1>2. /\ tb.queue = queue /\ tb.roster = r.tables[t].roster /\ tb.cfg = r.tables[t].cfg
      /\ tb.hand = r.tables[t].hand
  BY <1>1 DEF IsTable
<1>3. /\ q.tables = [r.tables EXCEPT ![t] = tb] /\ q.waits = waits /\ q.sessions = r.sessions
  BY <1>1 DEF IsRegistry
<1> QED BY <1>2, <1>3 DEF Requeued

(* cancel_wait of a session in a queue *)
LEMMA CancelWaitStep ==
  ASSUME Sound(reg), AllImaged(reg), NEW s, CancelWait(s)
  PROVE  GoodStep
<1> DEFINE t == reg.waits[s]
           queue == reg.tables[t].queue
           waits == [u \in DOMAIN reg.waits \ {s} |-> reg.waits[u]]
<1>1. t \in Tables /\ s \notin DOMAIN reg.sessions /\ IsRegistry(reg) /\ QueueFits(reg, t)
      /\ IsTable(reg.tables[t])
  BY TableOf DEF CancelWait, Routed, Sound, Tables
<1>2. PICK i \in DOMAIN queue :
        /\ queue[i].session = s
        /\ reg' = [reg EXCEPT !.tables[t].queue = RemoveAt(@, i), !.waits = Without(@, s)]
  BY DEF CancelWait
<1> DEFINE rest == RemoveAt(queue, i)
<1>3. queue \in Seq(WaitEntries) /\ i \in 1 .. Len(queue) /\ Len(queue) \in Nat
  <2>1. queue \in Seq(WaitEntries)
    BY <1>1 DEF QueueFits
  <2> HIDE DEF queue
  <2> QED BY <1>2, <2>1
<1>4. /\ rest \in Seq(WaitEntries) /\ Len(rest) = Len(queue) - 1
      /\ \A k \in 1 .. Len(rest) :
           /\ k < i => rest[k] = queue[k]
           /\ k >= i => rest[k] = queue[k + 1]
  BY <1>3, EntryRemoved
<1>5. reg' = [reg EXCEPT !.tables[t] = [reg.tables[t] EXCEPT !.queue = rest], !.waits = waits]
  BY <1>1, <1>2 DEF Without, IsRegistry, Tables
<1>6. /\ DOMAIN waits = DOMAIN reg.waits \ {s}
      /\ \A u \in DOMAIN waits : waits[u] = reg.waits[u]
  OBVIOUS
<1> HIDE DEF rest, waits
<1>7. /\ DOMAIN reg'.tables = DOMAIN reg.tables /\ reg'.tables[t].queue = rest
      /\ \A u \in DOMAIN reg.tables : u # t => reg'.tables[u] = reg.tables[u]
      /\ reg'.sessions = reg.sessions /\ reg'.waits = waits
      /\ reg'.tables[t].roster = reg.tables[t].roster /\ reg'.tables[t].cfg = reg.tables[t].cfg
      /\ reg'.tables[t].hand = reg.tables[t].hand
  <2> DEFINE tb == [reg.tables[t] EXCEPT !.queue = rest]
  <2>1. /\ Sound(reg) /\ t \in DOMAIN reg.tables
        /\ tb = [reg.tables[t] EXCEPT !.queue = rest]
        /\ reg' = [reg EXCEPT !.tables[t] = tb, !.waits = waits]
    BY <1>1, <1>5 DEF Tables
  <2> HIDE DEF t, tb
  <2>2. Requeued(reg, reg', t, rest, waits)
    BY <2>1, QueuePut
  <2> QED BY <2>2 DEF Requeued
<1>8. \A k, n \in 1 .. Len(queue) : queue[k].session = queue[n].session => k = n
  BY <1>1 DEF QueueFits
<1>9. QueueFits(reg', t)
  <2>1. \A k \in 1 .. Len(rest) : \E n \in 1 .. Len(queue) :
          n # i /\ rest[k] = queue[n] /\ (k < i => n = k) /\ (k >= i => n = k + 1)
    <3> SUFFICES ASSUME NEW k \in 1 .. Len(rest)
        PROVE  \E n \in 1 .. Len(queue) :
                 n # i /\ rest[k] = queue[n] /\ (k < i => n = k) /\ (k >= i => n = k + 1)
      OBVIOUS
    <3>1. CASE k < i
      <4>1. k \in 1 .. Len(queue) /\ k # i /\ rest[k] = queue[k] /\ ~(k >= i)
        BY <1>3, <1>4, <3>1
      <4> QED BY <4>1
    <3>2. CASE k >= i
      <4>1. k + 1 \in 1 .. Len(queue) /\ k + 1 # i /\ rest[k] = queue[k + 1] /\ ~(k < i)
        BY <1>3, <1>4, <3>2
      <4> QED BY <4>1
    <3> QED BY <1>3, <3>1, <3>2
  <2>2. ASSUME NEW k \in 1 .. Len(rest)
        PROVE  /\ rest[k].session \in DOMAIN waits /\ waits[rest[k].session] = t
               /\ rest[k].session \notin DOMAIN reg.sessions
    <3>1. PICK n \in 1 .. Len(queue) : n # i /\ rest[k] = queue[n]
      BY <2>1
    <3>2. queue[n].session # s
      BY <1>2, <1>3, <1>8, <3>1
    <3>3. /\ queue[n].session \in DOMAIN reg.waits /\ reg.waits[queue[n].session] = t
          /\ queue[n].session \notin DOMAIN reg.sessions
      BY <1>1 DEF QueueFits
    <3> QED BY <1>6, <3>1, <3>2, <3>3
  <2>3. ASSUME NEW k \in 1 .. Len(rest), NEW m \in 1 .. Len(rest), rest[k].session = rest[m].session
        PROVE  k = m
    <3>1. PICK n \in 1 .. Len(queue) : rest[k] = queue[n] /\ (k < i => n = k) /\ (k >= i => n = k + 1)
      BY <2>1
    <3>2. PICK o \in 1 .. Len(queue) : rest[m] = queue[o] /\ (m < i => o = m) /\ (m >= i => o = m + 1)
      BY <2>1
    <3>3. n = o
      BY <1>8, <2>3, <3>1, <3>2
    <3>4. n \in Nat /\ o \in Nat /\ k \in Nat /\ m \in Nat /\ i \in Nat
      BY <1>3
    <3>5. (k < i => n = k) /\ (k >= i => n = k + 1) /\ (m < i => o = m) /\ (m >= i => o = m + 1)
      BY <3>1, <3>2
    <3> QED BY <3>3, <3>4, <3>5
  <2> QED BY <1>4, <1>7, <2>2, <2>3 DEF QueueFits
<1>10. Queues(reg')
  <2> SUFFICES ASSUME NEW u \in DOMAIN reg'.tables, u # t PROVE QueueFits(reg', u)
    BY <1>9 DEF Queues
  <2>1. reg'.tables[u] = reg.tables[u] /\ QueueFits(reg, u)
    BY <1>7, TableOf
  <2>2. \A k \in 1 .. Len(reg.tables[u].queue) : reg.tables[u].queue[k].session # s
    BY <2>1 DEF QueueFits
  <2>3. ASSUME NEW k \in 1 .. Len(reg.tables[u].queue)
        PROVE  LET w == reg.tables[u].queue[k].session IN
               w \in DOMAIN reg'.waits /\ reg'.waits[w] = u /\ w \notin DOMAIN reg'.sessions
    <3> DEFINE w == reg.tables[u].queue[k].session
    <3>1. w \in DOMAIN reg.waits /\ reg.waits[w] = u /\ w \notin DOMAIN reg.sessions /\ w # s
      BY <2>1, <2>2 DEF QueueFits
    <3> HIDE DEF w
    <3>2. w \in DOMAIN reg'.waits /\ reg'.waits[w] = u /\ w \notin DOMAIN reg'.sessions
      BY <1>6, <1>7, <3>1
    <3> QED BY <3>2 DEF w
  <2> QED BY <2>1, <2>3 DEF QueueFits
<1>11. ASSUME LeftWaiting(reg', t) PROVE LeftWaiting(reg, t) \/ HeadGaveUp(t)
  <2>1. queue # <<>> /\ Head(queue) = queue[1]
    BY <1>3
  <2>2. CASE i = 1
    <3>1. Head(queue).session = s
      BY <1>2, <2>1, <2>2
    <3>2. s \notin DOMAIN reg'.waits /\ s \notin DOMAIN reg'.sessions
      BY <1>1, <1>6, <1>7
    <3> QED BY <2>1, <3>1, <3>2 DEF HeadGaveUp
  <2>3. CASE i # 1
    <3>1. 1 \in 1 .. Len(rest) /\ rest[1] = queue[1] /\ Head(rest) = rest[1]
      BY <1>3, <1>4, <2>3
    <3>2. /\ reg.tables[t].cfg.tour = NoTour /\ reg.tables[t].hand = NoHand
          /\ Seatable(reg'.tables[t], queue[1].request)
      BY <1>7, <1>11, <3>1 DEF LeftWaiting, Admissible
    <3>3. FreeSeats(reg'.tables[t]) = FreeSeats(reg.tables[t])
      BY <1>7 DEF FreeSeats, TableSeats
    <3>4. Seatable(reg.tables[t], queue[1].request)
      BY <3>2, <3>3 DEF Seatable
    <3> QED BY <2>1, <3>2, <3>4 DEF LeftWaiting, Admissible
  <2> QED BY <2>2, <2>3
<1> QED BY <1>1, <1>5, <1>10, <1>11, QueueStep

(* join_or_wait of a session for which no seat is free *)
LEMMA WaitStep ==
  ASSUME Sound(reg), AllImaged(reg), NEW s \in Sessions, NEW t \in Tables,
         NEW request \in SeatRequests, Wait(s, t, request)
  PROVE  GoodStep
<1> DEFINE tb == reg.tables[t]
           queue == tb.queue
           entry == [session |-> s, request |-> request]
           longer == Append(queue, entry)
           waits == With(reg.waits, s, t)
           q == [tb EXCEPT !.queue = longer]
<1>1. /\ s \notin DOMAIN reg.sessions /\ s \notin DOMAIN reg.waits /\ t \in DOMAIN reg.tables
      /\ IsRegistry(reg) /\ QueueFits(reg, t) /\ IsTable(tb)
  BY TableOf DEF Wait, MayEnter, Routed, Waiting, Tables, Sound
<1>2. reg' = [reg EXCEPT !.tables[t] = q, !.waits = waits]
  BY <1>1 DEF Wait, IsRegistry
<1>3. queue \in Seq(WaitEntries) /\ entry \in WaitEntries
  BY <1>1 DEF QueueFits, WaitEntries
<1>4. /\ longer \in Seq(WaitEntries) /\ Len(longer) = Len(queue) + 1 /\ Len(queue) \in Nat
      /\ \A k \in 1 .. Len(queue) : longer[k] = queue[k]
      /\ longer[Len(queue) + 1] = entry
      /\ Head(longer) = longer[1]
      /\ queue # <<>> => 1 \in 1 .. Len(queue) /\ Head(queue) = queue[1]
      /\ queue = <<>> => Len(queue) = 0
  <2>1. ASSUME NEW w \in Seq(WaitEntries), NEW e \in WaitEntries
        PROVE  /\ Append(w, e) \in Seq(WaitEntries) /\ Len(Append(w, e)) = Len(w) + 1
               /\ Len(w) \in Nat
               /\ \A k \in 1 .. Len(w) : Append(w, e)[k] = w[k]
               /\ Append(w, e)[Len(w) + 1] = e
               /\ Head(Append(w, e)) = Append(w, e)[1]
    OBVIOUS
  <2>2. ASSUME NEW w \in Seq(WaitEntries), w # <<>>
        PROVE  1 \in 1 .. Len(w) /\ Head(w) = w[1]
    BY <2>2
  <2>3. Len(<<>>) = 0
    OBVIOUS
  <2> HIDE DEF entry, queue
  <2> QED BY <1>3, <2>1, <2>2, <2>3
<1>5. /\ DOMAIN waits = DOMAIN reg.waits \cup {s} /\ waits[s] = t
      /\ \A u \in DOMAIN reg.waits : waits[u] = reg.waits[u]
  BY <1>1 DEF With
<1> HIDE DEF longer, waits
<1>6. Requeued(reg, reg', t, longer, waits)
  <2>1. q = [reg.tables[t] EXCEPT !.queue = longer]
    OBVIOUS
  <2> HIDE DEF q
  <2> QED BY <1>1, <1>2, <2>1, QueuePut
<1>7. QueueFits(reg', t)
  <2>1. \A k \in 1 .. Len(longer) : k \in 1 .. Len(queue) \/ k = Len(queue) + 1
    BY <1>4
  <2>2. ASSUME NEW k \in 1 .. Len(queue)
        PROVE  /\ longer[k] = queue[k] /\ queue[k].session \in DOMAIN reg.waits
               /\ queue[k].session # s
               /\ waits[queue[k].session] = t /\ queue[k].session \notin DOMAIN reg.sessions
    BY <1>1, <1>4, <1>5 DEF QueueFits
  <2>3. longer[Len(queue) + 1].session = s
    BY <1>4
  <2>4. ASSUME NEW k \in 1 .. Len(longer)
        PROVE  /\ longer[k].session \in DOMAIN waits /\ waits[longer[k].session] = t
               /\ longer[k].session \notin DOMAIN reg.sessions
    <3>1. CASE k \in 1 .. Len(queue)
      BY <1>5, <2>2, <3>1
    <3>2. CASE k = Len(queue) + 1
      BY <1>1, <1>5, <2>3, <3>2
    <3> QED BY <2>1, <3>1, <3>2
  <2>5. \A k, n \in 1 .. Len(queue) : queue[k].session = queue[n].session => k = n
    BY <1>1 DEF QueueFits
  <2>6. ASSUME NEW k \in 1 .. Len(longer), NEW n \in 1 .. Len(longer),
               longer[k].session = longer[n].session
        PROVE  k = n
    <3>1. k = Len(queue) + 1 => n \notin 1 .. Len(queue)
      BY <2>2, <2>3, <2>6
    <3>2. n = Len(queue) + 1 => k \notin 1 .. Len(queue)
      BY <2>2, <2>3, <2>6
    <3>3. k \in 1 .. Len(queue) /\ n \in 1 .. Len(queue) => k = n
      BY <2>2, <2>5, <2>6
    <3> QED BY <2>1, <3>1, <3>2, <3>3
  <2> QED BY <1>4, <1>6, <2>4, <2>6 DEF QueueFits, Requeued
<1>8. Queues(reg')
  <2> SUFFICES ASSUME NEW u \in DOMAIN reg'.tables, u # t PROVE QueueFits(reg', u)
    BY <1>7 DEF Queues
  <2>1. reg'.tables[u] = reg.tables[u] /\ QueueFits(reg, u)
    BY <1>6, TableOf DEF Requeued
  <2>2. ASSUME NEW k \in 1 .. Len(reg.tables[u].queue)
        PROVE  LET w == reg.tables[u].queue[k].session IN
               w \in DOMAIN reg'.waits /\ reg'.waits[w] = u /\ w \notin DOMAIN reg'.sessions
    <3> DEFINE w == reg.tables[u].queue[k].session
    <3>1. w \in DOMAIN reg.waits /\ reg.waits[w] = u /\ w \notin DOMAIN reg.sessions
      BY <2>1 DEF QueueFits
    <3> HIDE DEF w
    <3>2. w \in DOMAIN reg'.waits /\ reg'.waits[w] = u /\ w \notin DOMAIN reg'.sessions
      BY <1>5, <1>6, <3>1 DEF Requeued
    <3> QED BY <3>2 DEF w
  <2> QED BY <2>1, <2>2 DEF QueueFits
<1>9. ASSUME LeftWaiting(reg', t) PROVE LeftWaiting(reg, t)
  <2>1. /\ tb.cfg.tour = NoTour /\ tb.hand = NoHand
        /\ Seatable(reg'.tables[t], Head(longer).request)
    BY <1>6, <1>9 DEF LeftWaiting, Admissible, Requeued
  <2>2. FreeSeats(reg'.tables[t]) = FreeSeats(tb)
    BY <1>6 DEF FreeSeats, TableSeats, Requeued
  <2>3. Seatable(tb, Head(longer).request)
    BY <2>1, <2>2 DEF Seatable
  <2>4. ~Seatable(tb, request)
    BY <2>1 DEF Wait
  <2>5. queue # <<>>
    <3>1. SUFFICES ASSUME queue = <<>> PROVE FALSE
      OBVIOUS
    <3>2. Head(longer).request = request
      BY <1>4, <3>1
    <3> QED BY <2>3, <2>4, <3>2
  <2>6. Head(longer) = Head(queue)
    BY <1>4, <2>5
  <2> QED BY <2>1, <2>3, <2>5, <2>6 DEF LeftWaiting, Admissible
<1> QED BY <1>1, <1>2, <1>8, <1>9, QueueStep

(* join_or_wait of a session that sits down *)
LEMMA JoinStep ==
  ASSUME Sound(reg), AllImaged(reg), NEW s \in Sessions, NEW t \in Tables,
         NEW request \in SeatRequests, Join(s, t, request)
  PROVE  GoodStep
<1> DEFINE tb == reg.tables[t]
           x == SeatFor(tb, request)
           p == reg.nextPlayer
           sat == JoinedAt(tb, p, x, s)
           joined == Durable(sat)
           starts == ReadyToStart(joined)
           last == IF starts THEN Dealt(joined, reg.nextHand) ELSE joined
           sessions == With(reg.sessions, s, [table |-> t, player |-> p, seat |-> x])
           nextPlayer == p + 1
           nextHand == IF starts THEN reg.nextHand + 1 ELSE reg.nextHand
<1>1. /\ IsRegistry(reg) /\ t \in DOMAIN reg.tables /\ TableFits(tb)
      /\ s \notin DOMAIN reg.sessions /\ s \notin DOMAIN reg.waits
      /\ tb.hand = NoHand /\ Seatable(tb, request) /\ tb.cfg \in TableConfigs
      /\ tb.tour # NoTour => CanRegister(tb.tour, p, x)
  BY TableOf DEF Join, MayEnter, Routed, Waiting, Tables, Sound
<1>2. p \in Nat /\ reg.nextHand \in Nat \ {0}
  BY DEF Sound, Counted
<1>3. x \in FreeSeats(tb)
  BY <1>1, SeatsOfConfig, SeatForIsFree
<1>4. reg' = [reg EXCEPT !.tables[t] = last, !.sessions = sessions,
                         !.nextPlayer = nextPlayer, !.nextHand = nextHand]
  BY <1>1 DEF Join, JoinedAt, IsRegistry
<1>5. /\ TableFits(sat) /\ Enters(tb, sat, x, p, s) /\ sat.hand = NoHand /\ sat.queue = tb.queue
  <2>1. /\ TableFits(tb) /\ tb.hand = NoHand /\ x \in FreeSeats(tb) /\ p \in Nat
        /\ tb.tour # NoTour => CanRegister(tb.tour, p, x)
    BY <1>1, <1>2, <1>3
  <2> HIDE DEF tb, x, p
  <2> QED BY <2>1, JoinedTable
<1> HIDE DEF sat
<1>6. /\ TableFits(joined) /\ Keeps(sat, joined) /\ Imaged(joined)
      /\ joined.hand = NoHand /\ joined.roster = sat.roster
      /\ joined.queue = tb.queue
  BY <1>5, DurableTable
<1> HIDE DEF joined
<1>7. /\ TableFits(last) /\ Keeps(joined, last) /\ last.roster = joined.roster
      /\ last.durable = joined.durable /\ last.queue = tb.queue
      /\ IF starts THEN last.hand = reg.nextHand ELSE last = joined
  <2>1. CASE starts
    <3>1. last = Dealt(joined, reg.nextHand)
      BY <2>1
    <3> QED BY <1>2, <1>6, <2>1, <3>1, DealtTable
  <2>2. CASE ~starts
    <3>1. last = joined
      BY <2>2
    <3>2. Keeps(joined, joined)
      BY DEF Keeps
    <3> QED BY <1>6, <2>2, <3>1, <3>2
  <2> QED BY <2>1, <2>2
<1>8. \/ nextHand = reg.nextHand + 1 /\ last.hand = reg.nextHand
      \/ nextHand = reg.nextHand /\ last.hand = NoHand
  BY <1>6, <1>7
<1> HIDE DEF last, nextHand, starts
<1>9. Enters(tb, last, x, p, s)
  BY <1>5, <1>6, <1>7 DEF Enters, Keeps
<1>10. Imaged(last)
  BY <1>6, <1>7 DEF Imaged
<1>11. sessions = With(reg.sessions, s, [table |-> t, player |-> p, seat |-> x]) /\ nextPlayer = p + 1
  OBVIOUS
<1>12. DOMAIN sessions = DOMAIN reg.sessions \cup {s}
  BY DEF With
<1> HIDE DEF sessions, nextPlayer
<1> DEFINE v == [reg EXCEPT !.tables[t] = last]
<1>13. OneTable(reg, v, t) /\ v.tables[t] = last /\ v.waits = reg.waits
  BY <1>1, TablePut
<1>14. reg' = [v EXCEPT !.sessions = sessions, !.nextPlayer = nextPlayer, !.nextHand = nextHand]
  BY <1>1, <1>4 DEF IsRegistry
<1> HIDE DEF v
<1>15. /\ OneTable(reg, reg', t) /\ reg'.tables[t] = last /\ reg'.waits = reg.waits
       /\ reg'.sessions = sessions /\ reg'.nextPlayer = nextPlayer /\ reg'.nextHand = nextHand
  BY <1>13, <1>14 DEF OneTable, IsRegistry
<1>16. NumbersKept(reg, reg', t)
  BY <1>8, <1>15 DEF NumbersKept
<1>17. Queues(reg')
  <2>1. /\ DOMAIN reg'.tables \subseteq DOMAIN reg.tables
        /\ \A u \in DOMAIN reg'.tables : reg'.tables[u].queue = reg.tables[u].queue
    BY <1>7, <1>15 DEF OneTable
  <2>2. \A u \in DOMAIN reg'.sessions : u \in DOMAIN reg.sessions \/ u \notin DOMAIN reg.waits
    BY <1>1, <1>12, <1>15
  <2> QED BY <1>15, <2>1, <2>2, QueuesKept
<1>18. Sound(reg')
  <2>1. /\ OneTable(reg, reg', t) /\ s \notin DOMAIN reg.sessions
        /\ reg'.sessions = With(reg.sessions, s, [table |-> t, player |-> reg.nextPlayer, seat |-> x])
        /\ NumbersKept(reg, reg', t) /\ reg'.nextPlayer = reg.nextPlayer + 1
        /\ TableFits(reg'.tables[t]) /\ Enters(reg.tables[t], reg'.tables[t], x, reg.nextPlayer, s)
        /\ Queues(reg')
    BY <1>1, <1>7, <1>9, <1>11, <1>15, <1>16, <1>17
  <2> HIDE DEF x
  <2> QED BY <2>1, SeatTaken
<1>19. ASSUME LeftWaiting(reg', t) PROVE LeftWaiting(reg, t)
  <2>1. /\ tb.cfg.tour = NoTour /\ tb.queue # <<>> /\ Seatable(last, Head(tb.queue).request)
    BY <1>7, <1>9, <1>15, <1>19 DEF LeftWaiting, Admissible, Enters
  <2>2. FreeSeats(last) \subseteq FreeSeats(tb)
    BY <1>9 DEF FreeSeats, TableSeats, Enters
  <2>3. Seatable(tb, Head(tb.queue).request)
    BY <2>1, <2>2, SeatableWithFewer
  <2> QED BY <1>1, <2>1, <2>3 DEF LeftWaiting, Admissible
<1> QED BY <1>10, <1>15, <1>18, <1>19, StepAtTable

-----------------------------------------------------------------------------
(* The theorems. *)

(* The registry before anything happened. *)
LEMMA RegistryInitSound ==
  RegistryInit => RegistryInv
<1>1. SUFFICES ASSUME RegistryInit PROVE RegistryInv
  OBVIOUS
<1>2. reg = EmptyRegistry /\ ckpt = NoFile
  BY <1>1 DEF RegistryInit
<1> QED BY <1>2, EmptyIsSound DEF RegistryInv

(* Every step leaves a sound registry and a file that fits, and passes nobody. *)
LEMMA RegistryStep ==
  ASSUME EarlyLeaves = FALSE, RegistryInv, RegistryNext
  PROVE  RegistryInv' /\ NobodyPassed
<1>1. Sound(reg) /\ AllImaged(reg) /\ (ckpt # NoFile => FileFits(ckpt))
  BY DEF RegistryInv
<1>2. ASSUME GoodStep, ckpt' = ckpt \/ ckpt' = CheckpointOf(reg)
      PROVE  RegistryInv' /\ NobodyPassed
  <2>1. ckpt' # NoFile => FileFits(ckpt')
    BY <1>1, <1>2, CheckpointFits
  <2> QED BY <1>2, <2>1 DEF GoodStep, RegistryInv
<1>3. CASE LobbyRequests
  <2>1. ASSUME NEW cfg \in TableConfigs, CreateTable(cfg) PROVE GoodStep /\ ckpt' = ckpt
    BY <1>1, <2>1, CreateTableStep DEF CreateTable
  <2>2. ASSUME NEW s \in Sessions, NEW t \in Tables, NEW request \in SeatRequests, Join(s, t, request)
        PROVE  GoodStep /\ ckpt' = ckpt
    BY <1>1, <2>2, JoinStep DEF Join
  <2>3. ASSUME NEW s \in Sessions, NEW t \in Tables, NEW request \in SeatRequests, Wait(s, t, request)
        PROVE  GoodStep /\ ckpt' = ckpt
    BY <1>1, <2>3, WaitStep DEF Wait
  <2>4. ASSUME NEW s \in Sessions, CancelWait(s) PROVE GoodStep /\ ckpt' = ckpt
    BY <1>1, <2>4, CancelWaitStep DEF CancelWait
  <2>5. ASSUME NEW s \in Sessions, CancelRegistrationOf(s) PROVE GoodStep /\ ckpt' = ckpt
    BY <1>1, <2>5, CancelRegistrationStep DEF CancelRegistrationOf
  <2>6. ASSUME NEW s \in Leavers, RequestLeave(s) PROVE GoodStep /\ ckpt' = ckpt
    BY <1>1, <2>6, RequestLeaveStep DEF RequestLeave
  <2>7. ASSUME NEW t \in Tables, CloseAndRemove(t) PROVE GoodStep /\ ckpt' = ckpt
    BY <1>1, <2>7, CloseAndRemoveStep DEF CloseAndRemove
  <2> QED BY <1>2, <1>3, <2>1, <2>2, <2>3, <2>4, <2>5, <2>6, <2>7 DEF LobbyRequests
<1>4. CASE HandsEnd
  <2>1. ASSUME NEW t \in Tables, NEW final \in ResultsOf(reg.tables[t]), HandOver(t, final)
        PROVE  GoodStep /\ ckpt' = ckpt
    BY <1>1, <2>1, HandOverStep DEF HandOver
  <2> QED BY <1>2, <1>4, <2>1 DEF HandsEnd
<1>5. CASE Maintenance
  <2>1. ASSUME NEW time \in TickTimes, Sweep(time) PROVE GoodStep /\ ckpt' = ckpt
    BY <1>1, <2>1, SweepGood DEF Sweep
  <2>2. ASSUME NEW time \in TickTimes, AdvanceBreaks(time) PROVE GoodStep /\ ckpt' = ckpt
    BY <1>1, <2>2, AdvanceBreaksStep DEF AdvanceBreaks
  <2>3. ASSUME NEW idle, ExpireInactive(idle) PROVE GoodStep /\ ckpt' = ckpt
    BY <1>1, <2>3, ExpireInactiveStep DEF ExpireInactive
  <2>4. ASSUME SaveHistories PROVE GoodStep /\ ckpt' = ckpt
    BY <1>1, <2>4, SameStep DEF SaveHistories
  <2>5. ASSUME SaveCheckpoint PROVE GoodStep /\ ckpt' = CheckpointOf(reg)
    BY <1>1, <2>5, SameStep DEF SaveCheckpoint
  <2> QED BY <1>2, <1>5, <2>1, <2>2, <2>3, <2>4, <2>5 DEF Maintenance
<1>6. CASE Drain
  <2>1. GoodStep /\ ckpt' = CheckpointOf(reg)
    BY <1>1, <1>6, SameStep DEF Drain
  <2> QED BY <1>2, <2>1
<1>7. CASE Exit \/ Crash
  <2>1. GoodStep /\ ckpt' = ckpt
    BY <1>7, GoneStep DEF Exit, Crash
  <2> QED BY <1>2, <2>1
<1>8. CASE Restart
  <2>1. GoodStep /\ ckpt' = ckpt
    BY <1>1, <1>8, RestartStep DEF Restart
  <2> QED BY <1>2, <2>1
<1> QED BY <1>3, <1>4, <1>5, <1>6, <1>7, <1>8 DEF RegistryNext

(* The same with the steps that leave everything as it is. *)
LEMMA RegistryStepOrStutter ==
  ASSUME EarlyLeaves = FALSE, RegistryInv, [RegistryNext]_rvars
  PROVE  RegistryInv'
<1>1. CASE RegistryNext
  BY <1>1, RegistryStep
<1>2. CASE UNCHANGED rvars
  BY <1>2 DEF rvars, RegistryInv, Sound, AllImaged
<1> QED BY <1>1, <1>2

(* As many players as occupied seats. *)
LEMMA PlayersCounted ==
  ASSUME Sound(reg), NEW t \in Tables
  PROVE  Cardinality(PlayersOf(t)) = Cardinality(DOMAIN reg.tables[t].roster)
<1> DEFINE roster == reg.tables[t].roster
           S == DOMAIN roster
           T == PlayersOf(t)
           f == [x \in S |-> roster[x].player]
<1>1. t \in DOMAIN reg.tables /\ RosterFits(reg.tables[t].cfg, roster) /\ reg.tables[t].cfg \in TableConfigs
  BY TableOf DEF Tables, TableFits
<1>2. IsFiniteSet(S)
  <2>1. reg.tables[t].cfg.seats \in Nat
    BY <1>1, SeatsOfConfig
  <2>2. IsFiniteSet(0 .. reg.tables[t].cfg.seats - 1)
    BY <2>1, FS_Interval
  <2>3. S \subseteq 0 .. reg.tables[t].cfg.seats - 1
    BY <1>1 DEF RosterFits
  <2> HIDE DEF S
  <2> QED BY <2>2, <2>3, FS_Subset
<1>3. T = {roster[x].player : x \in S}
  BY DEF PlayersOf
<1>4. \A x, y \in S : roster[x].player = roster[y].player => x = y
  BY <1>1 DEF Sound, Persons
<1> HIDE DEF roster, S, T
<1>5. f \in [S -> T] /\ \A y \in T : \E x \in S : f[x] = y
  BY <1>3
<1>6. \A x, y \in S : f[x] = f[y] => x = y
  BY <1>4
<1>7. f \in Bijection(S, T)
  BY <1>5, <1>6 DEF Bijection, Injection, Surjection, IsInjective
<1> HIDE DEF f
<1>8. ExistsBijection(S, T)
  BY <1>7 DEF ExistsBijection
<1>9. Cardinality(T) = Cardinality(S)
  BY <1>2, <1>8, FS_Bijection
<1> QED BY <1>9 DEF S, T, roster

(* A file that fits gives every seat to one session. *)
LEMMA FileOwned ==
  ASSUME NEW c, FileFits(c)
  PROVE  SeatsOwned(c)
<1>1. ASSUME NEW s \in DOMAIN c.sessions
      PROVE  LET r == c.sessions[s] IN
             /\ r.player < c.nextPlayer
             /\ r.table \in DOMAIN c.tables
             /\ r.seat \in DOMAIN c.tables[r.table].image.roster
             /\ c.tables[r.table].image.roster[r.seat].player = r.player
  <2> DEFINE r == c.sessions[s]
             roster == c.tables[r.table].image.roster
  <2>1. r.table \in DOMAIN c.tables /\ r.seat \in DOMAIN roster /\ roster[r.seat].player = r.player
    BY DEF FileFits
  <2>2. \A t \in DOMAIN c.tables : \A x \in DOMAIN c.tables[t].image.roster :
          c.tables[t].image.roster[x].player < c.nextPlayer
    BY DEF FileFits
  <2>3. roster[r.seat].player < c.nextPlayer
    BY <2>1, <2>2
  <2> QED BY <2>1, <2>3
<1>2. ASSUME NEW t \in DOMAIN c.tables, NEW seat \in DOMAIN c.tables[t].image.roster
      PROVE  \E s \in DOMAIN c.sessions : c.sessions[s].table = t /\ c.sessions[s].seat = seat
  BY DEF FileFits
<1> QED BY <1>1, <1>2 DEF SeatsOwned

(* The inductive invariant says what RoutesMatchSeats says. *)
LEMMA RoutesFollow ==
  RegistryInv => RoutesMatchSeats
<1>1. SUFFICES ASSUME RegistryInv PROVE RoutesMatchSeats
  OBVIOUS
<1>2. Sound(reg) /\ AllImaged(reg) /\ (ckpt # NoFile => FileFits(ckpt))
  BY <1>1 DEF RegistryInv
<1>3. IdentitiesFresh
  <2>1. \A t \in Tables : \A p \in PlayersOf(t) : p < reg.nextPlayer
    BY <1>2 DEF Sound, Persons, PlayersOf, Tables
  <2>2. \A t \in Tables : Cardinality(PlayersOf(t)) = Cardinality(DOMAIN reg.tables[t].roster)
    BY <1>2, PlayersCounted
  <2>3. \A t, u \in Tables : t # u => PlayersOf(t) \cap PlayersOf(u) = {}
    BY <1>2 DEF Sound, Persons, PlayersOf, Tables
  <2>4. /\ \A t, u \in Tables : t # u =>
             (reg.tables[t].hand # NoHand => reg.tables[t].hand # reg.tables[u].hand)
        /\ \A t \in Tables : reg.tables[t].hand < reg.nextHand
    BY <1>2 DEF Sound, HandsNumbered, Tables
  <2> QED BY <2>1, <2>2, <2>3, <2>4 DEF IdentitiesFresh
<1>4. ASSUME NEW s \in Routed
      PROVE  LET r == reg.sessions[s] IN
             /\ r.table \in Tables
             /\ LET tb == reg.tables[r.table] IN
                /\ r.seat \in DOMAIN tb.roster /\ tb.roster[r.seat].player = r.player
                /\ r.seat \in DOMAIN tb.durable.roster
                /\ tb.durable.roster[r.seat].player = r.player
                /\ r.seat \in DOMAIN tb.seatSess /\ tb.seatSess[r.seat] = s
  <2> DEFINE r == reg.sessions[s]
             tb == reg.tables[r.table]
  <2>1. /\ r.table \in DOMAIN reg.tables /\ r.seat \in DOMAIN tb.roster
        /\ tb.roster[r.seat].player = r.player /\ tb.seatSess[r.seat] = s
    BY <1>2 DEF Sound, Routing, RouteFits, Routed
  <2>2. DOMAIN tb.seatSess = DOMAIN tb.roster /\ tb.durable.roster = tb.roster
    BY <1>2, <2>1, TableOf DEF AllImaged, Imaged
  <2> QED BY <2>1, <2>2 DEF Tables
<1>5. ASSUME NEW t \in Tables, NEW seat \in DOMAIN reg.tables[t].roster
      PROVE  seat \in DOMAIN reg.tables[t].seatSess /\ reg.tables[t].seatSess[seat] \in Routed
  <2>1. DOMAIN reg.tables[t].seatSess = DOMAIN reg.tables[t].roster
    BY <1>2, TableOf DEF Tables
  <2>2. SeatFits(reg, t, seat)
    BY <1>2 DEF Sound, Routing, Tables
  <2> QED BY <2>1, <2>2 DEF SeatFits, Routed
<1>6. SeatsOwned(CheckpointOf(reg)) /\ (ckpt # NoFile => SeatsOwned(ckpt))
  BY <1>2, CheckpointFits, FileOwned
<1> QED BY <1>3, <1>4, <1>5, <1>6 DEF RoutesMatchSeats

(* The inductive invariant says what StandingsMatchStacks says. *)
LEMMA StandingsFollow ==
  RegistryInv => StandingsMatchStacks
<1>1. SUFFICES ASSUME RegistryInv PROVE StandingsMatchStacks
  OBVIOUS
<1>2. Sound(reg) /\ AllImaged(reg) /\ (ckpt # NoFile => FileFits(ckpt))
  BY <1>1 DEF RegistryInv
<1>3. ASSUME NEW t \in Tables, reg.tables[t].tour # NoTour
      PROVE  Agree(reg.tables[t].tour, reg.tables[t].durable.roster)
  <2>1. TourFits(reg.tables[t].tour, reg.tables[t].roster)
        /\ reg.tables[t].durable.roster = reg.tables[t].roster
    BY <1>2, TableOf DEF Tables, TableFits, AllImaged, Imaged
  <2> QED BY <1>3, <2>1 DEF TourFits, Agree
<1>4. ASSUME ckpt # NoFile, NEW t \in DOMAIN ckpt.tables, ckpt.tables[t].tour # NoTour
      PROVE  Agree(ckpt.tables[t].tour, ckpt.tables[t].image.roster)
  <2>1. TourFits(ckpt.tables[t].tour, ckpt.tables[t].image.roster)
    BY <1>2, <1>4 DEF FileFits
  <2> QED BY <1>4, <2>1 DEF TourFits, Agree
<1> QED BY <1>3, <1>4 DEF StandingsMatchStacks

(* The registry is sound in every state. *)
LEMMA RegistryAlwaysSound ==
  ASSUME EarlyLeaves = FALSE
  PROVE  RegistrySpec => []RegistryInv
<1>1. RegistryInit => RegistryInv
  BY RegistryInitSound
<1>2. RegistryInv /\ [RegistryNext]_rvars => RegistryInv'
  BY RegistryStepOrStutter
<1> QED BY <1>1, <1>2, PTL DEF RegistrySpec

(* Every routed session is the session of the seat it is routed to, in the
   running table, in the image of it and in the file, and players and hands have
   identities of their own: through joins, waits, withdrawals, departures,
   rollovers, breaks, crashes and restarts. *)
THEOREM RoutesAlwaysMatchSeats ==
  ASSUME EarlyLeaves = FALSE
  PROVE  RegistrySpec => []RoutesMatchSeats
BY RegistryAlwaysSound, RoutesFollow, PTL

(* The players a tournament counts as remaining are those with chips, in the
   running registry and in the file (complete_hand before the departures, the
   checkpoint of a boundary). *)
THEOREM StandingsAlwaysMatchStacks ==
  ASSUME EarlyLeaves = FALSE
  PROVE  RegistrySpec => []StandingsMatchStacks
BY RegistryAlwaysSound, StandingsFollow, PTL

(* No step leaves the head of a ring table's queue beside a free seat that it
   accepts: rollover_completed_hand, which frees seats, admits from the queue, and
   cancel_wait of the head, which does not, is the one exception. *)
THEOREM NobodyIsOvertaken ==
  ASSUME EarlyLeaves = FALSE
  PROVE  RegistrySpec => NoOvertaking
<1> DEFINE A == \A t \in DOMAIN reg'.tables : LeftWaiting(reg', t) =>
                  t \in Tables /\ (LeftWaiting(reg, t) \/ HeadGaveUp(t))
<1>1. RegistryInv /\ [RegistryNext]_rvars => [A]_rvars
  <2>1. ASSUME RegistryInv, RegistryNext PROVE A
    BY <2>1, RegistryStep DEF NobodyPassed
  <2> QED BY <2>1
<1>2. RegistrySpec => [][A]_rvars
  <2> HIDE DEF A
  <2> QED BY <1>1, RegistryAlwaysSound, PTL DEF RegistrySpec
<1> QED BY <1>2 DEF NoOvertaking

-----------------------------------------------------------------------------
(* What is paid. *)

(* A pool and its shares. *)
PayoutFits(cfg) ==
  /\ cfg.pool \in Nat /\ cfg.shares \in Seq(Nat) /\ Len(cfg.shares) \in 1 .. 3
  /\ SumSeq(cfg.shares) = BasisPoints
Shares(cfg) == DOMAIN cfg.shares

(* An exact share is whole chips and a fraction of one. *)
LEMMA ShareIsWholeAndFraction ==
  ASSUME NEW cfg, PayoutFits(cfg), NEW i \in Shares(cfg)
  PROVE  /\ cfg.pool * cfg.shares[i] \in Nat
         /\ WholeShare(cfg, i) \in Nat /\ Fraction(cfg, i) \in Nat /\ Fraction(cfg, i) <= BasisPoints - 1
         /\ cfg.pool * cfg.shares[i] = BasisPoints * WholeShare(cfg, i) + Fraction(cfg, i)
<1> DEFINE exact == cfg.pool * cfg.shares[i]
<1>1. cfg.shares[i] \in Nat /\ cfg.pool \in Nat
  BY DEF PayoutFits, Shares
<1>2. ASSUME NEW x \in Nat, NEW y \in Nat PROVE x * y \in Nat
  OBVIOUS
<1>3. exact \in Nat
  BY <1>1, <1>2
<1>4. WholeShare(cfg, i) = exact \div 10000 /\ Fraction(cfg, i) = exact % 10000
  BY DEF WholeShare, Fraction, BasisPoints
<1> HIDE DEF exact
<1>5. /\ exact \div 10000 \in Nat /\ (exact % 10000) \in Nat /\ (exact % 10000) <= 9999
      /\ exact = 10000 * (exact \div 10000) + (exact % 10000)
  BY <1>3
<1>6. /\ WholeShare(cfg, i) \in Nat /\ Fraction(cfg, i) \in Nat /\ Fraction(cfg, i) <= 9999
      /\ exact = 10000 * WholeShare(cfg, i) + Fraction(cfg, i)
  BY <1>4, <1>5
<1>7. BasisPoints - 1 = 9999 /\ BasisPoints = 10000
  BY DEF BasisPoints
<1> QED BY <1>3, <1>6, <1>7 DEF exact

(* The shares are numbered from the first. *)
LEMMA SharesNumbered ==
  ASSUME NEW cfg, PayoutFits(cfg)
  PROVE  /\ Shares(cfg) = 1 .. Len(cfg.shares) /\ IsFiniteSet(Shares(cfg))
         /\ Cardinality(Shares(cfg)) = Len(cfg.shares)
<1> DEFINE n == Len(cfg.shares)
<1>1. n \in 1 .. 3 /\ cfg.shares \in Seq(Nat)
  BY DEF PayoutFits
<1>2. Shares(cfg) = 1 .. n
  BY <1>1 DEF Shares
<1> HIDE DEF n
<1>3. n \in Int /\ ~ (1 > n) /\ n - 1 + 1 = n
  BY <1>1
<1>4. IsFiniteSet(1 .. n) /\ Cardinality(1 .. n) = n
  BY SMTT(40), <1>3, FS_Interval
<1> QED BY <1>2, <1>4 DEF n

FractionBefore(cfg, i, j) ==
  Fraction(cfg, i) > Fraction(cfg, j) \/ (Fraction(cfg, i) = Fraction(cfg, j) /\ i < j)

(* The places in the order of their fractions. *)
LEMMA FractionsInOrder ==
  ASSUME NEW cfg, PayoutFits(cfg)
  PROVE  /\ FractionOrder(cfg) \in [Shares(cfg) -> Shares(cfg)]
         /\ \A i, j \in Shares(cfg) :
              i < j => FractionBefore(cfg, FractionOrder(cfg)[i], FractionOrder(cfg)[j])
<1> DEFINE S == Shares(cfg)
           n == Len(cfg.shares)
           key == [i \in S |-> i - 4 * Fraction(cfg, i)]
<1>1. S = 1 .. n /\ n \in 1 .. 3 /\ IsFiniteSet(S) /\ Cardinality(S) = n
  BY SharesNumbered DEF PayoutFits
<1>2. ASSUME NEW i \in S PROVE i \in 1 .. 3 /\ Fraction(cfg, i) \in Int
  <2>1. Fraction(cfg, i) \in Nat /\ Fraction(cfg, i) <= BasisPoints - 1
    BY ShareIsWholeAndFraction
  <2> HIDE DEF n
  <2> QED BY <1>1, <2>1
<1> HIDE DEF S
<1>3. \A i \in S : key[i] \in Int /\ key[i] = i - 4 * Fraction(cfg, i)
  BY <1>2
<1>4. \A i, j \in S : key[i] = key[j] => i = j
  BY <1>2, <1>3
<1>5. \A i, j \in S : key[i] < key[j] => FractionBefore(cfg, i, j)
  BY <1>2, <1>3 DEF FractionBefore
<1> HIDE DEF key, n
<1>6. PICK s : Lists(s, S, key)
  BY <1>1, <1>3, <1>4, ListedAlong
<1>7. /\ s \in [1 .. Cardinality(S) -> S]
      /\ \A i, j \in DOMAIN s : i < j => FractionBefore(cfg, s[i], s[j])
  BY <1>5, <1>6 DEF Lists
<1> DEFINE Good(o) == \A i, j \in DOMAIN o : i < j => FractionBefore(cfg, o[i], o[j])
<1>8. FractionOrder(cfg) = CHOOSE o \in [1 .. Cardinality(S) -> S] : Good(o)
  BY DEF FractionOrder, InOrder, S, Shares, FractionBefore
<1>9. FractionOrder(cfg) \in [1 .. Cardinality(S) -> S] /\ Good(FractionOrder(cfg))
  <2>1. Good(s)
    BY <1>7
  <2> HIDE DEF Good
  <2> QED BY <1>7, <1>8, <2>1
<1> QED BY <1>1, <1>9 DEF S

(* The rank of a place by its fraction. *)
Rank(cfg, place) == CHOOSE k \in DOMAIN FractionOrder(cfg) : FractionOrder(cfg)[k] = place

(* Every place has its rank. *)
LEMMA RanksAreOneToOne ==
  ASSUME NEW cfg, PayoutFits(cfg)
  PROVE  /\ \A i \in Shares(cfg) : Rank(cfg, i) \in Shares(cfg) /\ FractionOrder(cfg)[Rank(cfg, i)] = i
         /\ \A k \in Shares(cfg) : Rank(cfg, FractionOrder(cfg)[k]) = k
<1> DEFINE S == Shares(cfg)
           o == FractionOrder(cfg)
<1>1. o \in [S -> S] /\ \A i, j \in S : i < j => FractionBefore(cfg, o[i], o[j])
  BY FractionsInOrder
<1>2. S = 1 .. Len(cfg.shares) /\ IsFiniteSet(S)
  BY SharesNumbered
<1>3. \A i \in S : Fraction(cfg, i) \in Int /\ i \in Int
  <2> SUFFICES ASSUME NEW i \in S PROVE Fraction(cfg, i) \in Int /\ i \in Int
    OBVIOUS
  <2>1. Fraction(cfg, i) \in Nat /\ Fraction(cfg, i) <= BasisPoints - 1
    BY ShareIsWholeAndFraction
  <2> QED BY <1>2, <2>1
<1>4. \A i \in S : ~ FractionBefore(cfg, i, i)
  BY <1>3 DEF FractionBefore
<1> HIDE DEF S, o
<1>5. ASSUME NEW i \in S, NEW j \in S, o[i] = o[j] PROVE i = j
  <2>1. ~ (i < j) /\ ~ (j < i)
    BY <1>1, <1>4, <1>5
  <2> QED BY <1>3, <2>1
<1>6. o \in Injection(S, S)
  BY <1>1, <1>5 DEF Injection, IsInjective
<1>7. o \in Surjection(S, S)
  BY <1>2, <1>6, FS_Injection
<1>8. \A i \in S : \E k \in S : o[k] = i
  BY <1>7 DEF Surjection
<1>9. \A i : Rank(cfg, i) = CHOOSE k \in S : o[k] = i
  BY <1>1 DEF Rank, o
<1>10. \A i \in S : Rank(cfg, i) \in S /\ o[Rank(cfg, i)] = i
  BY <1>8, <1>9
<1>11. \A k \in S : Rank(cfg, o[k]) = k
  <2> SUFFICES ASSUME NEW k \in S PROVE Rank(cfg, o[k]) = k
    OBVIOUS
  <2>1. o[k] \in S
    BY <1>1
  <2> QED BY <1>5, <1>10, <2>1
<1> QED BY <1>10, <1>11 DEF S, o

(* The sums over the shares. *)
ExactShares(cfg) == [i \in Shares(cfg) |-> cfg.pool * cfg.shares[i]]
WholeShares(cfg) == [i \in Shares(cfg) |-> WholeShare(cfg, i)]
Fractions(cfg) == [i \in Shares(cfg) |-> Fraction(cfg, i)]
Undivided(cfg) == cfg.pool - SumFunctionOnSet(WholeShares(cfg), Shares(cfg))

(* The fractions make up the chips that do not divide. *)
LEMMA FractionsMakeUp ==
  ASSUME NEW cfg, PayoutFits(cfg)
  PROVE  /\ SumFunctionOnSet(WholeShares(cfg), Shares(cfg)) \in Int
         /\ Undivided(cfg) \in Nat
         /\ BasisPoints * Undivided(cfg) = SumFunctionOnSet(Fractions(cfg), Shares(cfg))
         /\ Undivided(cfg) <= Len(cfg.shares)
<1> DEFINE S == Shares(cfg)
           E == ExactShares(cfg)
           W == WholeShares(cfg)
           F == Fractions(cfg)
           whole == [i \in S |-> BasisPoints * W[i]]
           most == [i \in S |-> BasisPoints - 1]
<1>1. S = 1 .. Len(cfg.shares) /\ Len(cfg.shares) \in 1 .. 3 /\ IsFiniteSet(S) /\ Cardinality(S) = Len(cfg.shares)
  BY SharesNumbered DEF PayoutFits
<1>2. \A i \in S : /\ W[i] \in Nat /\ F[i] \in Nat /\ F[i] <= BasisPoints - 1 /\ E[i] \in Nat
                   /\ E[i] = cfg.pool * cfg.shares[i] /\ E[i] = BasisPoints * W[i] + F[i]
  BY ShareIsWholeAndFraction DEF ExactShares, WholeShares, Fractions
<1> DEFINE Divided == \A i \in S : W[i] \in Nat /\ F[i] \in Nat /\ F[i] <= 9999 /\ E[i] = 10000 * W[i] + F[i]
<1>0. Divided
  <2> HIDE DEF E, W, F, S
  <2>1. BasisPoints - 1 = 9999 /\ BasisPoints = 10000
    BY DEF BasisPoints
  <2> QED BY <1>2, <2>1
<1> HIDE DEF Divided
<1>3. \A i \in S : cfg.shares[i] \in Int
  BY DEF Shares, PayoutFits
<1>4. cfg.pool \in Nat
  BY DEF PayoutFits
<1>5. SumFunctionOnSet(cfg.shares, S) = BasisPoints
  BY DEF PayoutFits, SumSeq, FoldSeq, FoldFunction, SumFunctionOnSet, FoldFunctionOnSet, Shares
<1>6. \A i \in S : whole[i] = BasisPoints * W[i] /\ most[i] = BasisPoints - 1
  OBVIOUS
<1> HIDE DEF S, E, W, F, whole, most
<1>7. SumFunctionOnSet(E, S) = cfg.pool * BasisPoints
  <2>1. \A i \in S : cfg.shares[i] \in Int /\ E[i] = cfg.pool * cfg.shares[i]
    BY <1>2, <1>3
  <2>2. cfg.pool \in Int
    BY <1>4
  <2>3. SumFunctionOnSet(E, S) = cfg.pool * SumFunctionOnSet(cfg.shares, S)
    BY <1>1, <2>1, <2>2, SumScaled
  <2> QED BY <1>5, <2>3
<1>8. SumFunctionOnSet(whole, S) = BasisPoints * SumFunctionOnSet(W, S)
  <2>1. \A i \in S : W[i] \in Int /\ whole[i] = BasisPoints * W[i]
    BY <1>2, <1>6
  <2>2. BasisPoints \in Int
    BY DEF BasisPoints
  <2> QED BY <1>1, <2>1, <2>2, SumScaled
<1>9. SumFunctionOnSet(E, S) = SumFunctionOnSet(whole, S) + SumFunctionOnSet(F, S)
  <2>1. \A i \in S : whole[i] \in Int /\ F[i] \in Int /\ E[i] = whole[i] + F[i]
    <3> SUFFICES ASSUME NEW i \in S PROVE whole[i] \in Int /\ F[i] \in Int /\ E[i] = whole[i] + F[i]
      OBVIOUS
    <3>1. W[i] \in Nat /\ F[i] \in Nat /\ F[i] <= 9999 /\ E[i] = 10000 * W[i] + F[i]
      BY <1>0 DEF Divided
    <3>2. whole[i] = 10000 * W[i]
      BY <1>6 DEF BasisPoints
    <3> QED BY <3>1, <3>2
  <2> QED BY <1>1, <2>1, SumPlus
<1>10. SumFunctionOnSet(W, S) \in Int /\ SumFunctionOnSet(F, S) \in Nat
  <2>1. \A i \in S : W[i] \in Int /\ F[i] \in Nat
    BY <1>2
  <2> QED BY <1>1, <2>1, SumIsInt, SumIsNat
<1>11. SumFunctionOnSet(F, S) <= SumFunctionOnSet(most, S)
  <2>1. \A i \in S : F[i] \in Int /\ most[i] \in Int /\ F[i] <= most[i]
    <3> SUFFICES ASSUME NEW i \in S PROVE F[i] \in Int /\ most[i] \in Int /\ F[i] <= most[i]
      OBVIOUS
    <3>1. F[i] \in Nat /\ F[i] <= 9999
      BY <1>0 DEF Divided
    <3>2. most[i] = 9999
      BY <1>6 DEF BasisPoints
    <3> QED BY <3>1, <3>2
  <2> QED BY <1>1, <2>1, SumMono
<1>12. SumFunctionOnSet(most, S) = 9999 * Len(cfg.shares)
  BY <1>1, <1>6, SumConst DEF BasisPoints
<1>13. Undivided(cfg) = cfg.pool - SumFunctionOnSet(W, S)
  BY DEF Undivided, W, S
<1> DEFINE w == SumFunctionOnSet(W, S)
           f == SumFunctionOnSet(F, S)
           u == Undivided(cfg)
<1> HIDE DEF w, f, u
<1>14. w \in Int /\ f \in Nat /\ cfg.pool * 10000 = 10000 * w + f /\ u = cfg.pool - w
  BY <1>7, <1>8, <1>9, <1>10, <1>13 DEF w, f, u, BasisPoints
<1>15. f <= 9999 * Len(cfg.shares)
  BY <1>11, <1>12 DEF f
<1>16. u \in Int /\ 10000 * u = f
  BY <1>4, <1>14
<1>17. u \in Nat /\ u <= Len(cfg.shares)
  BY <1>1, <1>14, <1>15, <1>16
<1> QED BY <1>14, <1>16, <1>17 DEF w, f, u, W, F, S, BasisPoints

(* The places that are paid a chip of the undivided ones. *)
Favoured(cfg) == {i \in Shares(cfg) : Rank(cfg, i) <= Undivided(cfg)}

(* What a place is awarded. *)
LEMMA AwardIs ==
  ASSUME NEW cfg, NEW place
  PROVE  Award(cfg, place) = IF place \notin Shares(cfg) THEN 0
                             ELSE WholeShare(cfg, place)
                                  + (IF Rank(cfg, place) <= Undivided(cfg) THEN 1 ELSE 0)
<1>1. Undivided(cfg) = cfg.pool - SumSeq([i \in DOMAIN cfg.shares |-> WholeShare(cfg, i)])
  BY DEF Undivided, WholeShares, SumSeq, FoldSeq, FoldFunction, SumFunctionOnSet,
         FoldFunctionOnSet, Shares
<1> QED BY <1>1 DEF Award, Rank, Shares

(* The ranks up to one are of as many places. *)
LEMMA RanksUpTo ==
  ASSUME NEW cfg, PayoutFits(cfg), NEW r \in Nat, r <= Len(cfg.shares)
  PROVE  Cardinality({i \in Shares(cfg) : Rank(cfg, i) <= r}) = r
<1> DEFINE S == Shares(cfg)
           T == {i \in S : Rank(cfg, i) <= r}
           f == [i \in T |-> Rank(cfg, i) - 1]
           n == Len(cfg.shares)
<1>1. S = 1 .. n /\ n \in 1 .. 3
  BY SharesNumbered DEF PayoutFits
<1>2. \A i \in S : Rank(cfg, i) \in S /\ FractionOrder(cfg)[Rank(cfg, i)] = i
  BY RanksAreOneToOne
<1>3. \A k \in S : Rank(cfg, FractionOrder(cfg)[k]) = k /\ FractionOrder(cfg)[k] \in S
  BY RanksAreOneToOne, FractionsInOrder
<1> HIDE DEF S, n
<1>4. \A i \in T : i \in S /\ Rank(cfg, i) \in S /\ Rank(cfg, i) <= r
  BY <1>2
<1>5. \A i \in T : f[i] = Rank(cfg, i) - 1
  OBVIOUS
<1>6. ASSUME NEW k \in 0 .. r - 1 PROVE \E i \in T : f[i] = k
  <2>1. k + 1 \in S /\ k + 1 <= r /\ (k + 1) - 1 = k
    BY <1>1 DEF n
  <2> DEFINE i == FractionOrder(cfg)[k + 1]
  <2>2. i \in S /\ Rank(cfg, i) = k + 1
    BY <1>3, <2>1
  <2> HIDE DEF i
  <2>3. i \in T
    BY <2>1, <2>2
  <2> QED BY <1>5, <2>1, <2>2, <2>3
<1> HIDE DEF T, f
<1>7. \A i \in T : f[i] \in 0 .. r - 1
  <2> SUFFICES ASSUME NEW i \in T PROVE f[i] \in 0 .. r - 1
    OBVIOUS
  <2> QED BY <1>1, <1>4, <1>5
<1>8. \A i, j \in T : f[i] = f[j] => i = j
  <2> SUFFICES ASSUME NEW i \in T, NEW j \in T, f[i] = f[j] PROVE i = j
    OBVIOUS
  <2>1. Rank(cfg, i) \in Int /\ Rank(cfg, j) \in Int
    BY <1>1, <1>4
  <2>2. Rank(cfg, i) = Rank(cfg, j)
    BY <1>5, <2>1
  <2> QED BY <1>2, <1>4, <2>2
<1>9. Numbered(T, r, f)
  BY <1>6, <1>7, <1>8 DEF Numbered
<1>10. Cardinality(T) = r
  BY <1>9, NumberedOneToOne
<1> QED BY <1>10 DEF T, S

(* No chip goes to a place whose share is whole chips. *)
LEMMA FavouredHaveFractions ==
  ASSUME NEW cfg, PayoutFits(cfg), NEW p \in Favoured(cfg)
  PROVE  Fraction(cfg, p) > 0
<1> DEFINE S == Shares(cfg)
           F == Fractions(cfg)
           r == Rank(cfg, p) - 1
           T == {i \in S : Rank(cfg, i) <= r}
           most == [i \in S |-> IF i \in T THEN 9999 ELSE 0]
           one == [i \in S |-> IF i \in T THEN 1 ELSE 0]
           u == Undivided(cfg)
<1>1. S = 1 .. Len(cfg.shares) /\ Len(cfg.shares) \in 1 .. 3 /\ IsFiniteSet(S)
  BY SharesNumbered DEF PayoutFits
<1>2. \A i \in S : F[i] = Fraction(cfg, i)
  BY DEF Fractions
<1>3. \A i \in S : Fraction(cfg, i) \in Nat /\ Fraction(cfg, i) <= 9999
  <2> SUFFICES ASSUME NEW i \in S PROVE Fraction(cfg, i) \in Nat /\ Fraction(cfg, i) <= 9999
    OBVIOUS
  <2>1. BasisPoints - 1 = 9999
    BY DEF BasisPoints
  <2>2. Fraction(cfg, i) \in Nat /\ Fraction(cfg, i) <= BasisPoints - 1
    BY ShareIsWholeAndFraction
  <2> QED BY <2>1, <2>2
<1>4. p \in S /\ Rank(cfg, p) <= u /\ u \in Nat /\ 10000 * u = SumFunctionOnSet(F, S)
  BY FractionsMakeUp DEF Favoured, BasisPoints
<1>5. Rank(cfg, p) \in S
  BY <1>4, RanksAreOneToOne
<1>6. r \in Nat /\ r <= Len(cfg.shares) /\ r < u
  BY <1>1, <1>4, <1>5
<1>7. Cardinality(T) = r
  BY <1>6, RanksUpTo
<1>8. ASSUME Fraction(cfg, p) = 0, NEW i \in S \ T PROVE Fraction(cfg, i) = 0
  <2>1. Rank(cfg, i) \in S /\ FractionOrder(cfg)[Rank(cfg, i)] = i /\ FractionOrder(cfg)[Rank(cfg, p)] = p
    BY <1>4, RanksAreOneToOne
  <2>2. ~ (Rank(cfg, i) <= Rank(cfg, p) - 1)
    OBVIOUS
  <2> HIDE DEF S, T, r, u, F, most, one
  <2>3. Rank(cfg, i) \in Int /\ Rank(cfg, p) \in Int
    BY <1>1, <1>5, <2>1
  <2>4. CASE Rank(cfg, i) = Rank(cfg, p)
    BY <1>8, <2>1, <2>4
  <2>5. CASE Rank(cfg, p) < Rank(cfg, i)
    <3>1. FractionBefore(cfg, p, i)
      BY <1>5, <2>1, <2>5, FractionsInOrder DEF S
    <3>2. Fraction(cfg, i) \in Nat /\ Fraction(cfg, i) <= 9999
      BY <1>3
    <3> QED BY <1>8, <3>1, <3>2 DEF FractionBefore
  <2> QED BY <2>2, <2>3, <2>4, <2>5
<1>9. T \in SUBSET S /\ \A i \in S : one[i] = IF i \in T THEN 1 ELSE 0
  OBVIOUS
<1>10. \A i \in S : most[i] = 9999 * one[i] /\ most[i] \in Int /\ one[i] \in Int
  OBVIOUS
<1>11. \A i \in S : most[i] = IF i \in T THEN 9999 ELSE 0
  OBVIOUS
<1> HIDE DEF S, F, T, most, one, r, u
<1>12. SumFunctionOnSet(one, S) = r
  BY <1>1, <1>7, <1>9, SumMarked
<1>13. SumFunctionOnSet(most, S) = 9999 * r
  <2> DEFINE m == 9999
  <2>1. m \in Int /\ \A i \in S : one[i] \in Int /\ most[i] = m * one[i]
    BY <1>10
  <2> HIDE DEF m
  <2>2. SumFunctionOnSet(most, S) = m * SumFunctionOnSet(one, S)
    BY <1>1, <2>1, SumScaled
  <2> QED BY <1>12, <2>2 DEF m
<1>14. ASSUME Fraction(cfg, p) = 0 PROVE FALSE
  <2>1. \A i \in S : F[i] \in Int /\ most[i] \in Int /\ F[i] <= most[i]
    <3> SUFFICES ASSUME NEW i \in S PROVE F[i] \in Int /\ most[i] \in Int /\ F[i] <= most[i]
      OBVIOUS
    <3>1. F[i] \in Nat /\ F[i] <= 9999 /\ (i \notin T => F[i] = 0)
      BY <1>2, <1>3, <1>8, <1>14
    <3>2. most[i] = IF i \in T THEN 9999 ELSE 0
      BY <1>11
    <3> QED BY <3>1, <3>2
  <2>2. SumFunctionOnSet(F, S) <= SumFunctionOnSet(most, S)
    BY <1>1, <2>1, SumMono
  <2>3. 10000 * u <= 9999 * r
    BY <1>4, <1>13, <2>2 DEF u, S, F
  <2>4. u \in Nat
    BY <1>4 DEF u
  <2> QED BY <1>6, <2>3, <2>4
<1>15. Fraction(cfg, p) \in Nat /\ Fraction(cfg, p) <= 9999
  BY <1>3, <1>4
<1> QED BY <1>14, <1>15

(* Every place is paid its exact share, but for less than a chip. *)
LEMMA AwardIsNear ==
  ASSUME NEW cfg, PayoutFits(cfg), NEW place
  PROVE  LET exact == IF place \in Shares(cfg) THEN cfg.pool * cfg.shares[place] ELSE 0 IN
         /\ Award(cfg, place) \in Nat
         /\ Award(cfg, place) * BasisPoints < exact + BasisPoints
         /\ Award(cfg, place) * BasisPoints > exact - BasisPoints
<1>1. CASE place \notin Shares(cfg)
  BY <1>1, AwardIs DEF BasisPoints
<1>2. CASE place \in Shares(cfg)
  <2> DEFINE exact == cfg.pool * cfg.shares[place]
             w == WholeShare(cfg, place)
             f == Fraction(cfg, place)
             a == Award(cfg, place)
  <2>1. exact \in Nat /\ w \in Nat /\ f \in Nat /\ f <= 9999 /\ exact = 10000 * w + f
    BY <1>2, ShareIsWholeAndFraction DEF BasisPoints
  <2>2. a = w \/ (a = w + 1 /\ f > 0)
    <3>1. Rank(cfg, place) <= Undivided(cfg) => f > 0
      BY <1>2, FavouredHaveFractions DEF Favoured
    <3> HIDE DEF w, f
    <3>2. a = w + (IF Rank(cfg, place) <= Undivided(cfg) THEN 1 ELSE 0)
      BY <1>2, AwardIs DEF w
    <3> HIDE DEF a
    <3> QED BY <2>1, <3>1, <3>2
  <2> HIDE DEF exact, w, f, a
  <2>3. a \in Nat /\ a * 10000 < exact + 10000 /\ a * 10000 > exact - 10000
    BY <2>1, <2>2
  <2> QED BY <1>2, <2>3 DEF exact, a, BasisPoints
<1> QED BY <1>1, <1>2

(* The awards of the places with a share add up to the pool. *)
LEMMA AwardsAddUp ==
  ASSUME NEW cfg, PayoutFits(cfg), NEW awards, \A i \in Shares(cfg) : awards[i] = Award(cfg, i)
  PROVE  SumFunctionOnSet(awards, Shares(cfg)) = cfg.pool
<1> DEFINE S == Shares(cfg)
           W == WholeShares(cfg)
           T == Favoured(cfg)
           one == [i \in S |-> IF i \in T THEN 1 ELSE 0]
           u == Undivided(cfg)
<1>1. IsFiniteSet(S)
  BY SharesNumbered
<1>2. u \in Nat /\ u <= Len(cfg.shares)
  BY FractionsMakeUp
<1>3. Cardinality(T) = u
  BY <1>2, RanksUpTo DEF Favoured
<1>4. SumFunctionOnSet(one, S) = u
  <2>1. T \in SUBSET S /\ \A i \in S : one[i] = IF i \in T THEN 1 ELSE 0
    BY DEF Favoured
  <2> HIDE DEF S, T, one, u
  <2> QED BY <1>1, <1>3, <2>1, SumMarked
<1>5. \A i \in S : W[i] \in Int /\ one[i] \in Int /\ awards[i] = W[i] + one[i]
  <2> SUFFICES ASSUME NEW i \in S PROVE W[i] \in Int /\ one[i] \in Int /\ awards[i] = W[i] + one[i]
    OBVIOUS
  <2>1. W[i] = WholeShare(cfg, i) /\ WholeShare(cfg, i) \in Nat
    BY ShareIsWholeAndFraction DEF WholeShares
  <2>2. awards[i] = WholeShare(cfg, i) + (IF i \in T THEN 1 ELSE 0)
    BY AwardIs DEF Favoured
  <2> QED BY <2>1, <2>2
<1> HIDE DEF one
<1>6. SumFunctionOnSet(awards, S) = SumFunctionOnSet(W, S) + SumFunctionOnSet(one, S)
  BY <1>1, <1>5, SumPlus
<1>7. SumFunctionOnSet(W, S) \in Int /\ u = cfg.pool - SumFunctionOnSet(W, S) /\ cfg.pool \in Nat
  BY FractionsMakeUp DEF Undivided, PayoutFits
<1> DEFINE w == SumFunctionOnSet(W, S)
<1> HIDE DEF w, u
<1> QED BY <1>4, <1>6, <1>7 DEF w

-----------------------------------------------------------------------------
(* The clock does not depend on how time is cut into pieces. *)

(* A controller that is played, its level running or its break. *)
LevelsFit(cfg) ==
  /\ cfg.levels \in Seq([duration : Nat, rest : Nat, blind : Nat])
  /\ \A i \in 1 .. Len(cfg.levels) : cfg.levels[i].duration > 0
ClockFits(c) ==
  /\ c.level \in 1 .. Len(c.cfg.levels)
  /\ c.elapsed \in Nat /\ c.elapsed < c.cfg.levels[c.level].duration
  /\ c.rest \in Nat /\ (c.status = "Break" => c.rest > 0)
Going(c) ==
  /\ IsController(c) /\ c.status \in {"Running", "Break"}
  /\ LevelsFit(c.cfg) /\ ClockFits(c)

(* The controller with another status, level and times. *)
Clocked(c, status, level, elapsed, rest) ==
  [cfg |-> c.cfg, status |-> status, entrants |-> c.entrants, remaining |-> c.remaining,
   level |-> level, elapsed |-> elapsed, rest |-> rest, standings |-> c.standings]

(* d differs from c by the clock only. *)
ClockOnly(c, d) ==
  d.cfg = c.cfg /\ d.entrants = c.entrants /\ d.remaining = c.remaining /\ d.standings = c.standings

(* A pass during a break. *)
LEMMA PassOfBreak ==
  ASSUME NEW c, Going(c), c.status = "Break", NEW left \in Nat
  PROVE  LET used == Lesser(left, c.rest) IN
         TickPass(c, left) = << Clocked(c, IF c.rest = used THEN "Running" ELSE "Break",
                                        c.level, c.elapsed, c.rest - used), left - used >>
<1> DEFINE used == Lesser(left, c.rest)
           status == IF c.rest = used THEN "Running" ELSE "Break"
           rest == c.rest - used
<1>1. TickPass(c, left) = << [c EXCEPT !.rest = rest, !.status = status], left - used >>
  BY DEF TickPass, Going, IsController
<1>0. IsController(c)
  BY DEF Going
<1> HIDE DEF used, status, rest
<1>2. [c EXCEPT !.rest = rest, !.status = status] = Clocked(c, status, c.level, c.elapsed, rest)
  <2> DEFINE d == [c EXCEPT !.rest = rest, !.status = status]
  <2>0. d = [c EXCEPT !.rest = rest, !.status = status]
    OBVIOUS
  <2> HIDE DEF d
  <2>1. d = [cfg |-> d.cfg, status |-> d.status, entrants |-> d.entrants, remaining |-> d.remaining,
             level |-> d.level, elapsed |-> d.elapsed, rest |-> d.rest, standings |-> d.standings]
    BY <1>0, <2>0 DEF IsController
  <2>2. /\ d.cfg = c.cfg /\ d.status = status /\ d.entrants = c.entrants /\ d.remaining = c.remaining
        /\ d.level = c.level /\ d.elapsed = c.elapsed /\ d.rest = rest /\ d.standings = c.standings
    BY <1>0, <2>0 DEF IsController
  <2>3. d = Clocked(c, status, c.level, c.elapsed, rest)
    BY <2>1, <2>2 DEF Clocked
  <2> QED BY <2>0, <2>3
<1>3. TickPass(c, left) = << Clocked(c, status, c.level, c.elapsed, rest), left - used >>
  BY <1>1, <1>2
<1> QED BY <1>3 DEF used, status, rest

(* A pass during a level. *)
LEMMA PassOfLevel ==
  ASSUME NEW c, Going(c), c.status = "Running", NEW left \in Nat
  PROVE  LET done == c.cfg.levels[c.level]
             used == Lesser(left, done.duration - c.elapsed)
             over == c.elapsed + used >= done.duration
         IN  TickPass(c, left) =
               << IF over
                  THEN Clocked(c, IF done.rest > 0 THEN "Break" ELSE "Running", NextLevel(c), 0,
                               IF done.rest > 0 THEN done.rest ELSE c.rest)
                  ELSE Clocked(c, "Running", c.level, c.elapsed + used, c.rest),
                  left - used >>
<1> DEFINE done == c.cfg.levels[c.level]
           used == Lesser(left, done.duration - c.elapsed)
           over == c.elapsed + used >= done.duration
           status == IF done.rest > 0 THEN "Break" ELSE "Running"
           rest == IF done.rest > 0 THEN done.rest ELSE c.rest
           next == NextLevel(c)
           later == c.elapsed + used
<1>1. TickPass(c, left) = << IF over
                             THEN [c EXCEPT !.elapsed = 0, !.level = next, !.status = status, !.rest = rest]
                             ELSE [c EXCEPT !.elapsed = later],
                             left - used >>
  BY DEF TickPass, Going, IsController
<1> HIDE DEF used, over, status, rest, next, later
<1>0. IsController(c)
  BY DEF Going
<1>2. [c EXCEPT !.elapsed = 0, !.level = next, !.status = status, !.rest = rest]
      = Clocked(c, status, next, 0, rest)
  <2> DEFINE d == [c EXCEPT !.elapsed = 0, !.level = next, !.status = status, !.rest = rest]
  <2>0. d = [c EXCEPT !.elapsed = 0, !.level = next, !.status = status, !.rest = rest]
    OBVIOUS
  <2> HIDE DEF d
  <2>1. d = [cfg |-> d.cfg, status |-> d.status, entrants |-> d.entrants, remaining |-> d.remaining,
             level |-> d.level, elapsed |-> d.elapsed, rest |-> d.rest, standings |-> d.standings]
    BY <1>0, <2>0 DEF IsController
  <2>2. /\ d.cfg = c.cfg /\ d.status = status /\ d.entrants = c.entrants /\ d.remaining = c.remaining
        /\ d.level = next /\ d.elapsed = 0 /\ d.rest = rest /\ d.standings = c.standings
    BY <1>0, <2>0 DEF IsController
  <2>3. d = Clocked(c, status, next, 0, rest)
    BY <2>1, <2>2 DEF Clocked
  <2> QED BY <2>0, <2>3
<1>3. [c EXCEPT !.elapsed = later] = Clocked(c, "Running", c.level, later, c.rest)
  BY DEF Going, IsController, Clocked
<1>4. TickPass(c, left) = << IF over THEN Clocked(c, status, next, 0, rest)
                             ELSE Clocked(c, "Running", c.level, later, c.rest), left - used >>
  BY <1>1, <1>2, <1>3
<1> QED BY <1>4 DEF used, over, status, rest, next, later

(* What Clocked leaves. *)
LEMMA ClockedIs ==
  ASSUME NEW c, NEW st, NEW lv, NEW el, NEW re
  PROVE  LET d == Clocked(c, st, lv, el, re) IN
         /\ IsController(d) /\ ClockOnly(c, d)
         /\ d.status = st /\ d.level = lv /\ d.elapsed = el /\ d.rest = re
         /\ \A s, l, e, r : Clocked(d, s, l, e, r) = Clocked(c, s, l, e, r)
BY DEF Clocked, IsController, ClockOnly

(* The next level is one of the levels. *)
LEMMA NextLevelIs ==
  ASSUME NEW c, Going(c)
  PROVE  NextLevel(c) \in 1 .. Len(c.cfg.levels)
<1>1. c.level \in 1 .. Len(c.cfg.levels) /\ Len(c.cfg.levels) \in Nat
  BY DEF Going, ClockFits, LevelsFit
<1> QED BY <1>1 DEF NextLevel, Lesser

(* What is known of a level. *)
LEMMA LevelIs ==
  ASSUME NEW cfg, LevelsFit(cfg), NEW i \in 1 .. Len(cfg.levels)
  PROVE  cfg.levels[i].duration \in Nat /\ cfg.levels[i].duration > 0 /\ cfg.levels[i].rest \in Nat
<1> DEFINE R == [duration : Nat, rest : Nat, blind : Nat]
           s == cfg.levels
<1>1. s \in Seq(R) /\ i \in 1 .. Len(s) /\ s[i].duration > 0
  BY DEF LevelsFit
<1> HIDE DEF R, s
<1>2. s[i] \in R
  BY <1>1
<1> QED BY <1>1, <1>2 DEF R, s

(* A pass uses time, and the controller is still played. *)
LEMMA PassGoesOn ==
  ASSUME NEW c, Going(c), NEW left \in Nat \ {0}
  PROVE  /\ TickPass(c, left) = <<TickPass(c, left)[1], TickPass(c, left)[2]>>
         /\ Going(TickPass(c, left)[1]) /\ ClockOnly(c, TickPass(c, left)[1])
         /\ TickPass(c, left)[2] \in Nat /\ TickPass(c, left)[2] < left
<1>1. CASE c.status = "Break"
  <2> DEFINE used == Lesser(left, c.rest)
             status == IF c.rest = used THEN "Running" ELSE "Break"
             rest == c.rest - used
             d == Clocked(c, status, c.level, c.elapsed, rest)
  <2>1. TickPass(c, left) = <<d, left - used>>
    BY <1>1, PassOfBreak
  <2>2. c.rest \in Nat /\ c.rest > 0
    BY <1>1 DEF Going, ClockFits
  <2>3. used \in Nat /\ used > 0 /\ used <= left /\ used <= c.rest
    BY <2>2 DEF Lesser
  <2>4. rest \in Nat /\ (status = "Break" => rest > 0) /\ status \in {"Running", "Break"}
    BY <2>2, <2>3
  <2>5. /\ IsController(d) /\ ClockOnly(c, d)
        /\ d.status = status /\ d.level = c.level /\ d.elapsed = c.elapsed /\ d.rest = rest
    BY ClockedIs
  <2> HIDE DEF used, status, rest, d
  <2>6. Going(d)
    BY <2>4, <2>5 DEF Going, ClockFits, ClockOnly
  <2> QED BY <2>1, <2>3, <2>5, <2>6
<1>2. CASE c.status = "Running"
  <2> DEFINE done == c.cfg.levels[c.level]
             used == Lesser(left, done.duration - c.elapsed)
             over == c.elapsed + used >= done.duration
             status == IF done.rest > 0 THEN "Break" ELSE "Running"
             rest == IF done.rest > 0 THEN done.rest ELSE c.rest
             next == NextLevel(c)
             later == c.elapsed + used
             a == Clocked(c, status, next, 0, rest)
             b == Clocked(c, "Running", c.level, later, c.rest)
             d == IF over THEN a ELSE b
  <2>1. TickPass(c, left) = <<d, left - used>>
    BY <1>2, PassOfLevel
  <2>2. c.level \in 1 .. Len(c.cfg.levels) /\ LevelsFit(c.cfg)
    BY DEF Going, ClockFits
  <2>3. done.duration \in Nat /\ done.rest \in Nat
    BY <2>2, LevelIs
  <2>4. c.elapsed \in Nat /\ c.elapsed < done.duration /\ c.rest \in Nat
    BY DEF Going, ClockFits
  <2> HIDE DEF done
  <2>5. used \in Nat /\ used > 0 /\ used <= left
    BY <2>3, <2>4 DEF Lesser
  <2>6. rest \in Nat /\ status \in {"Running", "Break"} /\ (status = "Break" => rest > 0)
    BY <2>3, <2>4
  <2>7. later \in Nat /\ (~over => later < done.duration)
    BY <2>3, <2>4, <2>5
  <2>8. next \in 1 .. Len(c.cfg.levels)
    BY NextLevelIs
  <2>9. /\ IsController(a) /\ ClockOnly(c, a)
        /\ a.status = status /\ a.level = next /\ a.elapsed = 0 /\ a.rest = rest
    BY ClockedIs
  <2>10. /\ IsController(b) /\ ClockOnly(c, b)
         /\ b.status = "Running" /\ b.level = c.level /\ b.elapsed = later /\ b.rest = c.rest
    BY ClockedIs
  <2> HIDE DEF used, over, status, rest, next, later, a, b
  <2>11. Going(a)
    <3>1. c.cfg.levels[next].duration > 0
      BY <2>2, <2>8, LevelIs
    <3> QED BY <2>2, <2>6, <2>8, <2>9, <3>1 DEF Going, ClockFits, ClockOnly
  <2>12. ~over => Going(b)
    BY <2>2, <2>4, <2>7, <2>10 DEF Going, ClockFits, ClockOnly, done
  <2>13. Going(d) /\ ClockOnly(c, d)
    BY <2>9, <2>10, <2>11, <2>12
  <2> HIDE DEF d
  <2> QED BY <2>1, <2>5, <2>13
<1> QED BY <1>1, <1>2 DEF Going

(* One pass, if there is time left. *)
Pass(x) == IF x[2] = 0 THEN x ELSE TickPass(x[1], x[2])

(* The clock, by its passes. *)
LEMMA TickByPasses ==
  ASSUME NEW c, Going(c), NEW time \in Nat
  PROVE  \E f : /\ f[0] = <<c, time>>
                /\ \A k \in 1 .. time : f[k] = Pass(f[k - 1])
                /\ Tick(c, time) = f[time][1]
<1>1. PICK f : TickLoop(c, time, time, f)
  BY TickLoopExists
<1> DEFINE loop == CHOOSE g : TickLoop(c, time, time, g)
<1>2. TickLoop(c, time, time, loop)
  BY <1>1
<1>3. Tick(c, time) = loop[time][1]
  BY DEF Tick, TickLoop, Going
<1> HIDE DEF loop
<1>4. \A k \in 0 .. time : loop[k] = IF k = 0 THEN <<c, time>> ELSE Pass(loop[k - 1])
  BY <1>2 DEF TickLoop, Pass
<1> HIDE DEF Pass
<1>5. loop[0] = <<c, time>> /\ \A k \in 1 .. time : loop[k] = Pass(loop[k - 1])
  BY <1>4
<1> QED BY <1>3, <1>5

(* Each pass uses time, until none is left. *)
LEMMA PassesUseTime ==
  ASSUME NEW c, Going(c), NEW time \in Nat, NEW f, f[0] = <<c, time>>,
         \A k \in 1 .. time : f[k] = Pass(f[k - 1])
  PROVE  \A k \in 0 .. time :
           /\ f[k] = <<f[k][1], f[k][2]>> /\ Going(f[k][1]) /\ ClockOnly(c, f[k][1])
           /\ f[k][2] \in Nat /\ f[k][2] <= time - k
<1> DEFINE Good(k) == /\ f[k] = <<f[k][1], f[k][2]>> /\ Going(f[k][1]) /\ ClockOnly(c, f[k][1])
                      /\ f[k][2] \in Nat /\ f[k][2] <= time - k
           Bad == {k \in 0 .. time : ~Good(k)}
<1>1. ASSUME Bad # {} PROVE FALSE
  <2>1. Bad \subseteq Nat
    OBVIOUS
  <2>2. PICK m \in Bad : \A k \in Bad : m <= k
    <3> HIDE DEF Bad
    <3> QED BY <1>1, <2>1, LeastOf
  <2>3. m \in 0 .. time /\ ~Good(m)
    BY <2>2
  <2>4. Good(0)
    BY DEF ClockOnly
  <2> HIDE DEF Good
  <2>5. m \in 1 .. time /\ m - 1 \in 0 .. time /\ m - 1 \notin Bad
    BY <2>2, <2>3, <2>4
  <2>6. Good(m - 1) /\ f[m] = Pass(f[m - 1])
    BY <2>5
  <2> DEFINE d == f[m - 1][1]
             left == f[m - 1][2]
  <2>7. Going(d) /\ ClockOnly(c, d) /\ left \in Nat /\ left <= time - (m - 1) /\ f[m - 1] = <<d, left>>
    BY <2>6 DEF Good
  <2> HIDE DEF d, left
  <2>8. CASE left = 0
    <3>1. f[m] = <<d, left>>
      BY <2>6, <2>7, <2>8 DEF Pass
    <3> QED BY <2>3, <2>7, <2>8, <3>1 DEF Good
  <2>9. CASE left # 0
    <3> DEFINE p == TickPass(d, left)
    <3>1. f[m] = p
      BY <2>6, <2>7, <2>9 DEF Pass
    <3>2. p = <<p[1], p[2]>> /\ Going(p[1]) /\ ClockOnly(d, p[1]) /\ p[2] \in Nat /\ p[2] < left
      BY <2>7, <2>9, PassGoesOn
    <3> HIDE DEF p
    <3>3. ClockOnly(c, p[1])
      BY <2>7, <3>2 DEF ClockOnly
    <3> QED BY <2>3, <2>7, <3>1, <3>2, <3>3 DEF Good
  <2> QED BY <2>7, <2>8, <2>9
<1> QED BY <1>1

(* Without time, nothing happens. *)
LEMMA NoTimeNoTick ==
  ASSUME NEW c, Going(c)
  PROVE  Tick(c, 0) = c
<1> DEFINE none == 0
<1>1. none \in Nat
  OBVIOUS
<1> HIDE DEF none
<1>2. PICK f : f[0] = <<c, none>> /\ Tick(c, none) = f[none][1]
  BY <1>1, TickByPasses
<1> QED BY <1>2 DEF none

(* The clock changes only itself, and the controller is still played. *)
LEMMA TickGoesOn ==
  ASSUME NEW c, Going(c), NEW time \in Nat
  PROVE  Going(Tick(c, time)) /\ ClockOnly(c, Tick(c, time))
<1>1. PICK f : /\ f[0] = <<c, time>>
               /\ \A k \in 1 .. time : f[k] = Pass(f[k - 1])
               /\ Tick(c, time) = f[time][1]
  BY TickByPasses
<1>2. time \in 0 .. time
  OBVIOUS
<1>3. Going(f[time][1]) /\ ClockOnly(c, f[time][1])
  BY <1>1, <1>2, PassesUseTime
<1> QED BY <1>1, <1>3

(* A tick is one pass and a tick of the time that is left. *)
LEMMA TickUnfolds ==
  ASSUME NEW c, Going(c), NEW time \in Nat \ {0}
  PROVE  Tick(c, time) = Tick(TickPass(c, time)[1], TickPass(c, time)[2])
<1> DEFINE d == TickPass(c, time)[1]
           rest == TickPass(c, time)[2]
<1>1. TickPass(c, time) = <<d, rest>> /\ Going(d) /\ rest \in Nat /\ rest < time
  BY PassGoesOn
<1>2. PICK f : /\ f[0] = <<c, time>>
               /\ \A k \in 1 .. time : f[k] = Pass(f[k - 1])
               /\ Tick(c, time) = f[time][1]
  BY TickByPasses
<1> HIDE DEF d, rest
<1>3. PICK g : /\ g[0] = <<d, rest>>
               /\ \A k \in 1 .. rest : g[k] = Pass(g[k - 1])
               /\ Tick(d, rest) = g[rest][1]
  BY <1>1, TickByPasses
<1>4. f[1] = <<d, rest>>
  <2>1. f[1] = Pass(f[0])
    BY <1>2
  <2>2. Pass(<<c, time>>) = TickPass(c, time)
    BY DEF Pass
  <2> QED BY <1>1, <1>2, <2>1, <2>2
<1>5. \A k \in 0 .. rest : f[k + 1] = g[k]
  <2> DEFINE Bad == {k \in 0 .. rest : f[k + 1] # g[k]}
  <2>1. ASSUME Bad # {} PROVE FALSE
    <3>1. Bad \subseteq Nat
      BY <1>1
    <3>2. PICK m \in Bad : \A k \in Bad : m <= k
      <4> HIDE DEF Bad
      <4> QED BY <2>1, <3>1, LeastOf
    <3>3. m \in 0 .. rest /\ f[m + 1] # g[m]
      BY <3>2
    <3>4. m # 0
      BY <1>3, <1>4, <3>3
    <3>5. m \in 1 .. rest /\ m + 1 \in 1 .. time /\ m - 1 \in 0 .. rest /\ m - 1 \notin Bad
      BY <1>1, <3>2, <3>3, <3>4
    <3>6. f[m] = g[m - 1]
      <4>1. f[(m - 1) + 1] = g[m - 1] /\ (m - 1) + 1 = m
        BY <3>5
      <4> QED BY <4>1
    <3>7. g[m] = Pass(g[m - 1])
      BY <1>3, <3>5
    <3>8. f[m + 1] = Pass(f[m])
      <4>1. f[m + 1] = Pass(f[(m + 1) - 1]) /\ (m + 1) - 1 = m
        BY <1>2, <3>5
      <4> QED BY <4>1
    <3> QED BY <3>3, <3>6, <3>7, <3>8
  <2> QED BY <2>1
<1>6. f[rest + 1] = g[rest] /\ g[rest][2] = 0
  <2>1. rest \in 0 .. rest
    BY <1>1
  <2>2. g[rest][2] \in Nat /\ g[rest][2] <= rest - rest
    BY <1>1, <1>3, <2>1, PassesUseTime
  <2>3. g[rest][2] = 0
    BY <1>1, <2>2
  <2> QED BY <1>5, <2>1, <2>3
<1>7. \A k \in rest + 1 .. time : f[k] = g[rest]
  <2> DEFINE Bad == {k \in rest + 1 .. time : f[k] # g[rest]}
  <2>1. ASSUME Bad # {} PROVE FALSE
    <3>1. Bad \subseteq Nat
      BY <1>1
    <3>2. PICK m \in Bad : \A k \in Bad : m <= k
      <4> HIDE DEF Bad
      <4> QED BY <2>1, <3>1, LeastOf
    <3>3. m \in rest + 1 .. time /\ f[m] # g[rest] /\ m # rest + 1
      BY <1>6, <3>2
    <3>4. m \in 1 .. time /\ m - 1 \in rest + 1 .. time /\ m - 1 \notin Bad
      BY <1>1, <3>2, <3>3
    <3>5. f[m - 1] = g[rest] /\ f[m] = Pass(f[m - 1])
      BY <1>2, <3>4
    <3>6. f[m] = g[rest]
      BY <1>6, <3>5 DEF Pass
    <3> QED BY <3>3, <3>6
  <2> QED BY <2>1
<1>8. f[time] = g[rest]
  BY <1>1, <1>7
<1> QED BY <1>2, <1>3, <1>8 DEF d, rest

(* A part of the time that ends no level and no break is the beginning of the
   whole. *)
LEMMA PassCut ==
  ASSUME NEW c, Going(c), NEW a \in Nat \ {0}, NEW b \in Nat \ {0}
  PROVE  LET p == TickPass(c, a) IN
         \/ TickPass(p[1], b) = TickPass(c, a + b) /\ p[2] = 0
         \/ TickPass(c, a + b) = <<p[1], p[2] + b>>
<1> DEFINE p == TickPass(c, a)
           q == TickPass(c, a + b)
<1>0. a + b \in Nat /\ a \in Nat /\ b \in Nat
  OBVIOUS
<1>1. CASE c.status = "Break"
  <2> DEFINE d == Clocked(c, "Break", c.level, c.elapsed, c.rest - a)
             e == Clocked(c, "Running", c.level, c.elapsed, 0)
  <2>1. c.rest \in Nat /\ c.rest > 0
    BY <1>1 DEF Going, ClockFits
  <2>2. CASE c.rest <= a
    <3>1. Lesser(a, c.rest) = c.rest /\ Lesser(a + b, c.rest) = c.rest /\ c.rest - c.rest = 0
      BY <2>1, <2>2 DEF Lesser
    <3>2. p = <<e, a - c.rest>> /\ q = <<e, (a + b) - c.rest>>
      BY <1>0, <1>1, <3>1, PassOfBreak
    <3>3. (a - c.rest) + b = (a + b) - c.rest
      BY <2>1
    <3> HIDE DEF e, p, q
    <3>4. q = <<p[1], p[2] + b>>
      BY <3>2, <3>3
    <3> QED BY <3>4 DEF p, q
  <2>3. CASE a < c.rest
    <3>1. Lesser(a, c.rest) = a /\ c.rest # a /\ a - a = 0
      BY <2>1, <2>3 DEF Lesser
    <3>2. p = <<d, 0>>
      BY <1>0, <1>1, <3>1, PassOfBreak
    <3>3. Going(d) /\ d.status = "Break" /\ d.rest = c.rest - a /\ d.level = c.level /\ d.elapsed = c.elapsed
      <4>1. Going(p[1])
        BY PassGoesOn
      <4> HIDE DEF d, p
      <4>2. Going(d)
        BY <3>2, <4>1
      <4> QED BY <4>2, ClockedIs DEF d
    <3> DEFINE used == Lesser(b, c.rest - a)
               status == IF c.rest - a = used THEN "Running" ELSE "Break"
    <3>4. TickPass(d, b) = << Clocked(d, status, c.level, c.elapsed, (c.rest - a) - used), b - used >>
      <4> HIDE DEF d
      <4> QED BY <1>0, <3>3, PassOfBreak
    <3>5. \A s, l, x, y : Clocked(d, s, l, x, y) = Clocked(c, s, l, x, y)
      BY ClockedIs
    <3>6. /\ Lesser(a + b, c.rest) = a + used
          /\ (c.rest - a) - used = c.rest - (a + used) /\ b - used = (a + b) - (a + used)
          /\ status = IF c.rest = a + used THEN "Running" ELSE "Break"
      BY <2>1, <2>3 DEF Lesser
    <3>7. q = << Clocked(c, IF c.rest = a + used THEN "Running" ELSE "Break",
                         c.level, c.elapsed, c.rest - (a + used)), (a + b) - (a + used) >>
      <4> HIDE DEF used, status
      <4> QED BY <1>0, <1>1, <3>6, PassOfBreak
    <3> HIDE DEF used, status, d, p, q
    <3>8. TickPass(d, b) = q
      BY <3>4, <3>5, <3>6, <3>7
    <3>9. TickPass(p[1], b) = q /\ p[2] = 0
      BY <3>2, <3>8
    <3> QED BY <3>9 DEF p, q
  <2> QED BY <2>1, <2>2, <2>3
<1>2. CASE c.status = "Running"
  <2> DEFINE done == c.cfg.levels[c.level]
             left == done.duration - c.elapsed
             e == Clocked(c, IF done.rest > 0 THEN "Break" ELSE "Running", NextLevel(c), 0,
                          IF done.rest > 0 THEN done.rest ELSE c.rest)
             d == Clocked(c, "Running", c.level, c.elapsed + a, c.rest)
  <2>1. c.level \in 1 .. Len(c.cfg.levels) /\ LevelsFit(c.cfg)
    BY DEF Going, ClockFits
  <2>2. done.duration \in Nat /\ done.rest \in Nat
    BY <2>1, LevelIs
  <2>3. c.elapsed \in Nat /\ c.elapsed < done.duration
    BY DEF Going, ClockFits
  <2>4. left \in Nat /\ left > 0 /\ c.elapsed + left = done.duration
    <3> HIDE DEF done
    <3> QED BY <2>2, <2>3
  <2>5. CASE left <= a
    <3>1. Lesser(a, left) = left /\ Lesser(a + b, left) = left /\ c.elapsed + left >= done.duration
      <4> HIDE DEF left, done
      <4> QED BY <2>2, <2>4, <2>5 DEF Lesser
    <3>2. p = <<e, a - left>> /\ q = <<e, (a + b) - left>>
      <4> HIDE DEF left
      <4> QED BY <1>0, <1>2, <3>1, PassOfLevel DEF left
    <3>3. (a - left) + b = (a + b) - left
      <4> HIDE DEF left
      <4> QED BY <2>4
    <3> HIDE DEF e, p, q, left
    <3>4. q = <<p[1], p[2] + b>>
      BY <3>2, <3>3
    <3> QED BY <3>4 DEF p, q
  <2>6. CASE a < left
    <3>1. Lesser(a, left) = a /\ ~ (c.elapsed + a >= done.duration) /\ a - a = 0
      <4> HIDE DEF left, done
      <4> QED BY <2>2, <2>3, <2>4, <2>6 DEF Lesser
    <3>2. p = <<d, 0>>
      BY <1>0, <1>2, <3>1, PassOfLevel
    <3>3. /\ Going(d) /\ d.status = "Running" /\ d.rest = c.rest /\ d.level = c.level
          /\ d.elapsed = c.elapsed + a /\ d.cfg = c.cfg
      <4>1. Going(p[1])
        BY PassGoesOn
      <4> HIDE DEF d, p
      <4>2. Going(d)
        BY <3>2, <4>1
      <4> QED BY <4>2, ClockedIs DEF d, ClockOnly
    <3> DEFINE used == Lesser(b, done.duration - (c.elapsed + a))
               over == (c.elapsed + a) + used >= done.duration
               later == (c.elapsed + a) + used
    <3>4. \A s, l, x, y : Clocked(d, s, l, x, y) = Clocked(c, s, l, x, y)
      BY ClockedIs
    <3>5. NextLevel(d) = NextLevel(c)
      <4> HIDE DEF d
      <4> QED BY <3>3 DEF NextLevel
    <3>6. TickPass(d, b) = << IF over THEN e ELSE Clocked(c, "Running", c.level, later, c.rest), b - used >>
      <4> DEFINE over1 == d.elapsed + Lesser(b, d.cfg.levels[d.level].duration - d.elapsed)
                          >= d.cfg.levels[d.level].duration
      <4>1. TickPass(d, b) = << IF over1
                  THEN Clocked(d, IF d.cfg.levels[d.level].rest > 0 THEN "Break" ELSE "Running", NextLevel(d), 0,
                               IF d.cfg.levels[d.level].rest > 0 THEN d.cfg.levels[d.level].rest ELSE d.rest)
                  ELSE Clocked(d, "Running", d.level,
                               d.elapsed + Lesser(b, d.cfg.levels[d.level].duration - d.elapsed), d.rest),
                  b - Lesser(b, d.cfg.levels[d.level].duration - d.elapsed) >>
        <5> HIDE DEF d
        <5> QED BY <1>0, <3>3, PassOfLevel
      <4> HIDE DEF d
      <4> QED BY <3>3, <3>4, <3>5, <4>1
    <3>7. /\ Lesser(a + b, left) = a + used
          /\ c.elapsed + (a + used) = later /\ b - used = (a + b) - (a + used)
      <4> HIDE DEF done
      <4> QED BY <2>2, <2>3, <2>6 DEF Lesser
    <3>8. q = << IF c.elapsed + (a + used) >= done.duration THEN e
                 ELSE Clocked(c, "Running", c.level, c.elapsed + (a + used), c.rest), (a + b) - (a + used) >>
      <4> DEFINE u == Lesser(a + b, left)
      <4>1. q = << IF c.elapsed + u >= done.duration THEN e
                   ELSE Clocked(c, "Running", c.level, c.elapsed + u, c.rest), (a + b) - u >>
        BY <1>0, <1>2, PassOfLevel
      <4>2. u = a + used
        BY <3>7
      <4> HIDE DEF u, used, e, q, left, done
      <4> QED BY <4>1, <4>2
    <3> HIDE DEF used, d, p, q, e, done, left
    <3>9. TickPass(d, b) = q
      BY <3>6, <3>7, <3>8
    <3>10. TickPass(p[1], b) = q /\ p[2] = 0
      BY <3>2, <3>9
    <3> QED BY <3>10 DEF p, q
  <2>7. left <= a \/ a < left
    <3> HIDE DEF left
    <3> QED BY <2>4
  <2> QED BY <2>5, <2>6, <2>7
<1> QED BY <1>1, <1>2 DEF Going

(* Time charged in two parts is the time charged at once. *)
LEMMA TimeAddsUp ==
  ASSUME NEW c, Going(c), NEW a \in Nat, NEW b \in Nat
  PROVE  Tick(Tick(c, a), b) = Tick(c, a + b)
<1> DEFINE Bad == {n \in Nat : \E d : Going(d) /\ Tick(Tick(d, n), b) # Tick(d, n + b)}
<1>1. ASSUME Bad # {} PROVE FALSE
  <2>1. PICK m \in Bad : \A k \in Bad : m <= k
    <3>1. Bad \subseteq Nat
      OBVIOUS
    <3> HIDE DEF Bad
    <3> QED BY <1>1, <3>1, LeastOf
  <2>2. m \in Nat
    BY <2>1
  <2>3. PICK d : Going(d) /\ Tick(Tick(d, m), b) # Tick(d, m + b)
    BY <2>1
  <2>4. m # 0
    <3>1. Tick(d, 0) = d /\ 0 + b = b
      BY <2>3, NoTimeNoTick
    <3> QED BY <2>3, <3>1
  <2>5. b # 0
    <3>1. Going(Tick(d, m)) /\ m + 0 = m
      BY <2>2, <2>3, TickGoesOn
    <3>2. Tick(Tick(d, m), 0) = Tick(d, m)
      BY <3>1, NoTimeNoTick
    <3> QED BY <2>3, <3>1, <3>2
  <2> DEFINE p == TickPass(d, m)
  <2>6. Going(p[1]) /\ p[2] \in Nat /\ p[2] < m /\ Tick(d, m) = Tick(p[1], p[2])
    BY <2>2, <2>3, <2>4, PassGoesOn, TickUnfolds
  <2>7. Tick(d, m + b) = Tick(TickPass(d, m + b)[1], TickPass(d, m + b)[2])
    <3>1. m + b \in Nat \ {0}
      BY <2>2, <2>4
    <3> QED BY <2>3, <3>1, TickUnfolds
  <2>8. \/ TickPass(p[1], b) = TickPass(d, m + b) /\ p[2] = 0
        \/ TickPass(d, m + b) = <<p[1], p[2] + b>>
    BY <2>2, <2>3, <2>4, <2>5, PassCut
  <2> HIDE DEF p
  <2>9. CASE TickPass(p[1], b) = TickPass(d, m + b) /\ p[2] = 0
    <3>1. Tick(d, m) = p[1]
      BY <2>6, <2>9, NoTimeNoTick
    <3>2. Tick(p[1], b) = Tick(TickPass(p[1], b)[1], TickPass(p[1], b)[2])
      BY <2>5, <2>6, TickUnfolds
    <3> QED BY <2>3, <2>7, <2>9, <3>1, <3>2
  <2>10. CASE TickPass(d, m + b) = <<p[1], p[2] + b>>
    <3>1. p[2] \notin Bad
      BY <2>1, <2>2, <2>6
    <3>2. Tick(Tick(p[1], p[2]), b) = Tick(p[1], p[2] + b)
      BY <2>6, <3>1
    <3>3. Tick(d, m + b) = Tick(p[1], p[2] + b)
      BY <2>7, <2>10
    <3> QED BY <2>3, <2>6, <3>2, <3>3
  <2> QED BY <2>8, <2>9, <2>10
<1> QED BY <1>1

-----------------------------------------------------------------------------
(* The standings. *)

(* The last n places are given out, the last one first. *)
StandingRows(c) == [player : DOMAIN c.entrants, seat : Nat, place : Nat, payout : Nat]
Listed(c, n) ==
  /\ c.standings \in Seq(StandingRows(c)) /\ Len(c.standings) = n
  /\ \A i \in 1 .. n : c.standings[i].place = c.cfg.entrants - i + 1

EntrantsFit(c) ==
  /\ IsFiniteSet(DOMAIN c.entrants)
  /\ \A p, q \in DOMAIN c.entrants : c.entrants[p] = c.entrants[q] => p = q
  /\ \A p \in DOMAIN c.entrants : c.entrants[p] \in Nat

(* A controller that gave out as many places as players are out. *)
Played(c) ==
  /\ Cardinality(DOMAIN c.entrants) = c.cfg.entrants /\ c.remaining \subseteq DOMAIN c.entrants
  /\ Listed(c, c.cfg.entrants - Cardinality(c.remaining))
Concluded(c) ==
  /\ Listed(c, c.cfg.entrants)
  /\ \A i \in 1 .. c.cfg.entrants : c.standings[i].payout = Award(c.cfg, c.standings[i].place)
ConfigFits(cfg) ==
  /\ PayoutFits(cfg) /\ LevelsFit(cfg)
  /\ cfg.entrants \in 2 .. 9 /\ Len(cfg.shares) <= cfg.entrants
Statuses == {"Registering", "Running", "Break", "Complete", "Cancelled"}

ControllerFits(c) ==
  /\ IsController(c) /\ ConfigFits(c.cfg) /\ EntrantsFit(c) /\ ClockFits(c)
  /\ c.status \in Statuses
  /\ c.status = "Registering" => c.remaining = DOMAIN c.entrants /\ c.standings = <<>>
  /\ c.status \in {"Running", "Break"} => Played(c)
  /\ c.status = "Complete" => Concluded(c)

StacksFit(f) == DOMAIN f \subseteq 0 .. 8 /\ \A s \in DOMAIN f : f[s] \in Nat

(* Those who bust can be put in order, and are. *)
LEMMA BustsInOrder ==
  ASSUME NEW before, StacksFit(before), NEW after
  PROVE  /\ IsFiniteSet(Busted(before, after)) /\ Busted(before, after) \subseteq 0 .. 8
         /\ BustOrder(before, after) \in [1 .. Cardinality(Busted(before, after)) -> Busted(before, after)]
<1> DEFINE S == Busted(before, after)
           key == [s \in S |-> before[s] * 9 + s]
           Sorted(o) == \A i, j \in DOMAIN o : i < j =>
                          before[o[i]] < before[o[j]] \/ (before[o[i]] = before[o[j]] /\ o[i] < o[j])
<1>1. S \subseteq DOMAIN before /\ S \subseteq 0 .. 8
  BY DEF Busted, StacksFit
<1>2. IsFiniteSet(S)
  <2> DEFINE top == 8
             bottom == 0
  <2>1. top \in Int /\ bottom \in Int /\ S \subseteq bottom .. top
    BY <1>1
  <2> HIDE DEF S, top, bottom
  <2>2. IsFiniteSet(bottom .. top)
    BY <2>1, FS_Interval
  <2> QED BY <2>1, <2>2, FS_Subset
<1>3. \A s \in S : s \in 0 .. 8 /\ before[s] \in Nat
  BY <1>1 DEF StacksFit
<1>4. \A s \in S : key[s] = before[s] * 9 + s
  OBVIOUS
<1> HIDE DEF S, key
<1>5. \A s \in S : key[s] \in Int
  BY <1>3, <1>4
<1>6. \A s, t \in S : key[s] = key[t] => s = t
  BY <1>3, <1>4
<1>7. \A s, t \in S : key[s] < key[t] => before[s] < before[t] \/ (before[s] = before[t] /\ s < t)
  BY <1>3, <1>4
<1>8. PICK o : Lists(o, S, key)
  BY <1>2, <1>5, <1>6, ListedAlong
<1>9. o \in [1 .. Cardinality(S) -> S] /\ Sorted(o)
  BY <1>7, <1>8 DEF Lists
<1>10. BustOrder(before, after) = CHOOSE q \in [1 .. Cardinality(S) -> S] : Sorted(q)
  BY DEF BustOrder, InOrder, S
<1> HIDE DEF Sorted
<1>11. BustOrder(before, after) \in [1 .. Cardinality(S) -> S]
  BY <1>9, <1>10
<1> QED BY <1>1, <1>2, <1>11 DEF S

(* As many players are out as seats bust. *)
LEMMA OutCounted ==
  ASSUME NEW c, EntrantsFit(c), c.remaining \subseteq DOMAIN c.entrants,
         NEW before, StacksFit(before), NEW after, ResultAccepted(c, before, after)
  PROVE  /\ Out(c, before, after) \subseteq c.remaining
         /\ Cardinality(Out(c, before, after)) = Cardinality(Busted(before, after))
         /\ \A s \in Busted(before, after) : EntrantAt(c, s) \in c.remaining
<1> DEFINE S == Busted(before, after)
           T == Out(c, before, after)
           e == [s \in S |-> EntrantAt(c, s)]
<1>1. ASSUME NEW s \in S PROVE EntrantAt(c, s) \in c.remaining /\ c.entrants[EntrantAt(c, s)] = s
  <2>1. SeatKnown(c, s) /\ EntrantAt(c, s) \in c.remaining
    BY DEF ResultAccepted
  <2>2. PICK p \in DOMAIN c.entrants : c.entrants[p] = s
    BY <2>1 DEF SeatKnown
  <2>3. c.entrants[EntrantAt(c, s)] = s
    BY <2>2 DEF EntrantAt
  <2> QED BY <2>1, <2>3
<1>2. T = {e[s] : s \in S}
  BY DEF Out
<1>3. IsFiniteSet(S)
  BY BustsInOrder
<1>4. \A s \in S : e[s] = EntrantAt(c, s)
  OBVIOUS
<1> HIDE DEF S, T
<1>5. e \in Bijection(S, T)
  <2>1. e \in [S -> T]
    BY <1>2
  <2>2. \A s, t \in S : e[s] = e[t] => s = t
    BY <1>1, <1>4
  <2>3. \A y \in T : \E s \in S : e[s] = y
    BY <1>2
  <2> HIDE DEF e
  <2> QED BY <2>1, <2>2, <2>3 DEF Bijection, Injection, IsInjective, Surjection
<1>6. Cardinality(T) = Cardinality(S)
  <2>1. ExistsBijection(S, T)
    BY <1>5 DEF ExistsBijection
  <2> QED BY <1>3, <2>1, FS_Bijection
<1>7. T \subseteq c.remaining
  BY <1>1, <1>2, <1>4
<1> QED BY <1>1, <1>6, <1>7 DEF S, T

(* Each elimination takes the worst place left. *)
LEMMA HandRanks ==
  ASSUME NEW c, ControllerFits(c), c.status \in {"Running", "Break"},
         NEW before, StacksFit(before), NEW after, ResultAccepted(c, before, after)
  PROVE  LET left == Left(c, before, after)
             rows == Ranked(c, before, after)
             n == c.cfg.entrants - Cardinality(left)
         IN  /\ left \subseteq c.remaining /\ IsFiniteSet(left) /\ Cardinality(left) \in Nat
             /\ Cardinality(left) <= c.cfg.entrants
             /\ rows \in Seq(StandingRows(c)) /\ Len(rows) = n
             /\ \A i \in 1 .. n : rows[i].place = c.cfg.entrants - i + 1
<1> DEFINE left == Left(c, before, after)
           S == Busted(before, after)
           order == BustOrder(before, after)
           new == Rows(c, before, after)
           k == Cardinality(S)
           m == Cardinality(c.remaining)
           all == c.cfg.entrants
           R == StandingRows(c)
           old == c.standings
           rows == Ranked(c, before, after)
<1>1. /\ c.remaining \subseteq DOMAIN c.entrants /\ IsFiniteSet(DOMAIN c.entrants) /\ all \in 2 .. 9
      /\ Cardinality(DOMAIN c.entrants) = all /\ Listed(c, all - m)
  BY DEF ControllerFits, Played, EntrantsFit, ConfigFits
<1>2. IsFiniteSet(c.remaining) /\ m \in Nat /\ m <= all
  BY <1>1, FS_Subset, FS_CardinalityType
<1>3. /\ Out(c, before, after) \subseteq c.remaining /\ Cardinality(Out(c, before, after)) = k
      /\ \A s \in S : EntrantAt(c, s) \in c.remaining
  BY <1>1, OutCounted DEF ControllerFits
<1>4. IsFiniteSet(S) /\ k \in Nat /\ S \subseteq 0 .. 8 /\ order \in [1 .. k -> S]
  BY BustsInOrder, FS_CardinalityType
<1>5. left \subseteq c.remaining /\ IsFiniteSet(left) /\ Cardinality(left) = m - k /\ k <= m
  <2> DEFINE T == Out(c, before, after)
  <2>1. left = c.remaining \ T
    BY DEF Left
  <2>2. T \subseteq c.remaining /\ Cardinality(T) = k
    BY <1>3
  <2> HIDE DEF left, T, m, k
  <2>3. c.remaining \cap T = T
    BY <2>2
  <2>4. IsFiniteSet(left) /\ Cardinality(left) = m - k
    BY <1>2, <2>1, <2>2, <2>3, FS_Difference DEF m
  <2>5. k <= m
    BY <1>2, <2>2, FS_Subset DEF m
  <2> QED BY <2>1, <2>4, <2>5
<1>6. DOMAIN new = 1 .. k /\ \A i \in 1 .. k : new[i] = Standing(c, order[i], Place(c, i))
  BY <1>4 DEF Rows
<1>7. ASSUME NEW i \in 1 .. k PROVE new[i] \in R /\ new[i].place = m - i + 1
  <2> HIDE DEF k, m, S, order, new, R, all
  <2>1. order[i] \in S
    BY <1>4
  <2>2. order[i] \in Nat
    <3>1. S \subseteq Nat
      BY <1>4
    <3> QED BY <2>1, <3>1
  <2>3. EntrantAt(c, order[i]) \in DOMAIN c.entrants
    BY <1>1, <1>3, <2>1
  <2>4. m - i + 1 \in Nat
    BY <1>2, <1>4, <1>5
  <2>5. new[i] = [player |-> EntrantAt(c, order[i]), seat |-> order[i], place |-> m - i + 1, payout |-> 0]
    BY <1>6 DEF Standing, Place, m
  <2> QED BY <2>2, <2>3, <2>4, <2>5 DEF R, StandingRows
<1>8. new \in Seq(R) /\ Len(new) = k
  <2>1. new = [i \in 1 .. k |-> new[i]]
    BY <1>6 DEF Rows
  <2> HIDE DEF k, m, new, R
  <2>2. new \in [1 .. k -> R]
    BY <1>7, <2>1
  <2> QED BY <1>4, <2>2
<1>9. old \in Seq(R) /\ Len(old) = all - m /\ \A i \in 1 .. all - m : old[i].place = all - i + 1
  BY <1>1 DEF Listed
<1>10. rows = old \o new
  BY DEF Ranked
<1>11. Cardinality(left) \in Nat /\ Cardinality(left) <= all
  <2> HIDE DEF left, m, k, all
  <2> QED BY <1>1, <1>2, <1>4, <1>5
<1> HIDE DEF left, S, order, new, k, m, all, R, old, rows
<1>14. old \in Seq(R) /\ new \in Seq(R) /\ rows = old \o new
  BY <1>8, <1>9, <1>10
<1>12. rows \in Seq(R) /\ Len(rows) = all - Cardinality(left)
  <2>1. rows \in Seq(R) /\ Len(rows) = Len(old) + Len(new)
    BY <1>14
  <2> QED BY <1>1, <1>2, <1>4, <1>5, <1>8, <1>9, <2>1
<1>13. ASSUME NEW i \in 1 .. all - Cardinality(left) PROVE rows[i].place = all - i + 1
  <2>1. CASE i <= all - m
    <3>1. i \in 1 .. Len(old)
      BY <1>1, <1>2, <1>9, <2>1
    <3>2. rows[i] = old[i]
      BY <1>14, <3>1
    <3> QED BY <1>9, <3>1, <3>2
  <2>2. CASE i > all - m
    <3> DEFINE j == i - (all - m)
    <3>1. j \in 1 .. k /\ i \in Len(old) + 1 .. Len(old) + Len(new) /\ j = i - Len(old)
      BY <1>1, <1>2, <1>4, <1>5, <1>8, <1>9, <2>2
    <3>2. rows[i] = new[j]
      BY <1>14, <3>1
    <3>3. new[j].place = m - j + 1
      BY <1>7, <3>1
    <3>4. m - j + 1 = all - i + 1
      BY <1>1, <1>2
    <3> QED BY <3>2, <3>3, <3>4
  <2> QED BY <1>1, <1>2, <2>1, <2>2
<1> QED BY <1>5, <1>11, <1>12, <1>13 DEF left, all, R, rows

(* What Decided leaves. *)
LEMMA DecidedIs ==
  ASSUME NEW c, NEW left, NEW standings, NEW status
  PROVE  LET d == Decided(c, left, standings, status) IN
         /\ IsController(d) /\ d.cfg = c.cfg /\ d.status = status /\ d.entrants = c.entrants
         /\ d.remaining = left /\ d.level = c.level /\ d.elapsed = c.elapsed /\ d.rest = c.rest
         /\ d.standings = standings
BY DEF Decided, IsController

(* complete_hand leaves a controller that fits. *)
LEMMA HandFitsController ==
  ASSUME NEW c, ControllerFits(c), c.status \in {"Running", "Break"},
         NEW before, StacksFit(before), NEW after, ResultAccepted(c, before, after)
  PROVE  ControllerFits(CompleteTournamentHand(c, before, after))
<1> DEFINE left == Left(c, before, after)
           rows == Ranked(c, before, after)
           all == c.cfg.entrants
           n == all - Cardinality(left)
           R == StandingRows(c)
           row == WinnerRow(c, left)
           crowned == Append(rows, row)
           paid == Paid(c.cfg, crowned)
           d == CompleteTournamentHand(c, before, after)
<1>1. /\ left \subseteq c.remaining /\ IsFiniteSet(left) /\ Cardinality(left) \in Nat
      /\ Cardinality(left) <= all
      /\ rows \in Seq(R) /\ Len(rows) = n
      /\ \A i \in 1 .. n : rows[i].place = all - i + 1
  BY HandRanks
<1>2. /\ IsController(c) /\ ConfigFits(c.cfg) /\ EntrantsFit(c) /\ ClockFits(c)
      /\ c.remaining \subseteq DOMAIN c.entrants /\ Cardinality(DOMAIN c.entrants) = all
      /\ all \in 2 .. 9
  BY DEF ControllerFits, Played, ConfigFits
<1>3. d = IF Cardinality(left) = 1 THEN Decided(c, left, paid, "Complete") ELSE Decided(c, left, rows, c.status)
  BY <1>2, HandDecides
<1> HIDE DEF d, left, rows
<1>4. CASE Cardinality(left) # 1
  <2>1. d = Decided(c, left, rows, c.status)
    BY <1>3, <1>4
  <2>2. /\ IsController(d) /\ d.cfg = c.cfg /\ d.status = c.status /\ d.entrants = c.entrants
        /\ d.remaining = left /\ d.level = c.level /\ d.elapsed = c.elapsed /\ d.rest = c.rest
        /\ d.standings = rows
    BY <2>1, DecidedIs
  <2>3. EntrantsFit(d) /\ ClockFits(d)
    BY <1>2, <2>2 DEF EntrantsFit, ClockFits
  <2>4. Played(d)
    BY <1>1, <1>2, <2>2 DEF Played, Listed, StandingRows
  <2>5. ControllerFits(d)
    BY <1>2, <2>2, <2>3, <2>4 DEF ControllerFits, Statuses
  <2> QED BY <2>5 DEF d
<1>5. CASE Cardinality(left) = 1
  <2>1. d = Decided(c, left, paid, "Complete")
    BY <1>3, <1>5
  <2>2. n = all - 1
    BY <1>5
  <2>3. row \in R /\ row.place = 1
    <3> DEFINE winner == CHOOSE p \in left : TRUE
    <3>1. left # {}
      BY <1>1, <1>5, FS_EmptySet
    <3>2. winner \in left
      BY <3>1
    <3>3. winner \in DOMAIN c.entrants /\ c.entrants[winner] \in Nat
      BY <1>1, <1>2, <3>2 DEF EntrantsFit
    <3>4. row = [player |-> winner, seat |-> c.entrants[winner], place |-> 1, payout |-> 0]
      BY DEF WinnerRow
    <3> HIDE DEF winner, row
    <3> QED BY <3>3, <3>4 DEF StandingRows
  <2> HIDE DEF n, R, row
  <2>4. rows \in Seq(R) /\ Len(rows) = all - 1
    BY <1>1, <2>2
  <2>5. crowned \in Seq(R) /\ Len(crowned) = all /\ crowned[all] = row
    BY <1>2, <2>3, <2>4
  <2>6. \A i \in 1 .. all - 1 : crowned[i] = rows[i]
    BY <1>2, <2>3, <2>4
  <2> HIDE DEF crowned
  <2>7. ASSUME NEW i \in 1 .. all PROVE crowned[i].place = all - i + 1
    <3>1. CASE i = all
      <4>1. crowned[i].place = 1
        BY <2>3, <2>5, <3>1
      <4>2. all - i + 1 = 1
        BY <1>2, <3>1
      <4> QED BY <4>1, <4>2
    <3>2. CASE i # all
      <4>1. i \in 1 .. all - 1 /\ i \in 1 .. n
        BY <1>2, <2>2, <3>2
      <4>2. crowned[i] = rows[i]
        BY <2>6, <4>1
      <4> QED BY <1>1, <4>1, <4>2
    <3> QED BY <3>1, <3>2
  <2>8. ASSUME NEW i \in 1 .. all
        PROVE  /\ crowned[i] \in R /\ crowned[i].place = all - i + 1
               /\ paid[i] = [crowned[i] EXCEPT !.payout = Award(c.cfg, crowned[i].place)]
    <3>1. crowned[i] \in R
      BY <2>5
    <3>2. DOMAIN crowned = 1 .. all
      BY <2>5
    <3> QED BY <2>7, <3>1, <3>2 DEF Paid
  <2>9. ASSUME NEW i \in 1 .. all
        PROVE  /\ paid[i] \in R /\ paid[i].place = all - i + 1
               /\ paid[i].payout = Award(c.cfg, paid[i].place)
    <3> DEFINE x == crowned[i]
               y == paid[i]
               a == Award(c.cfg, crowned[i].place)
    <3>1. x \in R /\ x.place = all - i + 1 /\ y = [x EXCEPT !.payout = a]
      BY <2>8
    <3>2. a \in Nat
      BY <1>2, AwardIsNear DEF ConfigFits
    <3>3. a = Award(c.cfg, x.place)
      OBVIOUS
    <3> HIDE DEF x, y, a
    <3>4. y \in R /\ y.place = x.place /\ y.payout = a
      BY <3>1, <3>2 DEF R, StandingRows
    <3> QED BY <3>1, <3>3, <3>4 DEF y
  <2>10. paid \in Seq(R) /\ Len(paid) = all
    <3>1. paid = [i \in 1 .. all |-> paid[i]]
      <4>1. DOMAIN crowned = 1 .. all
        BY <2>5
      <4> QED BY <4>1 DEF Paid
    <3> HIDE DEF paid
    <3>2. paid \in [1 .. all -> R]
      BY <2>9, <3>1
    <3> QED BY <1>2, <3>2
  <2> HIDE DEF paid
  <2>11. /\ IsController(d) /\ d.cfg = c.cfg /\ d.status = "Complete" /\ d.entrants = c.entrants
         /\ d.level = c.level /\ d.elapsed = c.elapsed /\ d.rest = c.rest /\ d.standings = paid
    BY <2>1, DecidedIs
  <2>12. EntrantsFit(d) /\ ClockFits(d)
    BY <1>2, <2>11 DEF EntrantsFit, ClockFits
  <2>13. Concluded(d)
    BY <2>9, <2>10, <2>11 DEF Concluded, Listed, R, StandingRows
  <2>14. ControllerFits(d)
    BY <1>2, <2>11, <2>12, <2>13 DEF ControllerFits, Statuses
  <2> QED BY <2>14 DEF d
<1> QED BY <1>4, <1>5

(* The clock leaves a controller that fits. *)
LEMMA TickFitsController ==
  ASSUME NEW c, ControllerFits(c), c.status \in {"Running", "Break"}, NEW time \in Nat
  PROVE  ControllerFits(Tick(c, time)) /\ Tick(c, time).status \in {"Running", "Break"}
<1> DEFINE d == Tick(c, time)
<1>1. Going(c)
  BY DEF Going, ControllerFits, ConfigFits
<1>2. Going(d) /\ ClockOnly(c, d)
  BY <1>1, TickGoesOn
<1> HIDE DEF d
<1>3. IsController(d) /\ ClockFits(d) /\ d.status \in {"Running", "Break"}
  BY <1>2 DEF Going
<1>4. d.cfg = c.cfg /\ d.entrants = c.entrants /\ d.remaining = c.remaining /\ d.standings = c.standings
  BY <1>2 DEF ClockOnly
<1>5. ConfigFits(d.cfg) /\ EntrantsFit(d)
  BY <1>4 DEF ControllerFits, EntrantsFit
<1>6. Played(d)
  <2>1. Played(c)
    BY DEF ControllerFits
  <2> QED BY <1>4, <2>1 DEF Played, Listed, StandingRows
<1>7. d.status \in Statuses /\ d.status # "Registering" /\ d.status # "Complete"
  BY <1>3 DEF Statuses
<1> QED BY <1>3, <1>5, <1>6, <1>7 DEF d, ControllerFits

-----------------------------------------------------------------------------
(* Every step. *)

CupInv == ControllerFits(ctl) /\ StacksFit(stacks)

(* The configurations of the tournaments. *)
LEMMA ConfigsFit ==
  ASSUME NEW cfg \in TournamentConfigs, ValidTournament(cfg)
  PROVE  ConfigFits(cfg)
<1>1. cfg.levels \in Seq([duration : Nat, rest : Nat, blind : Nat]) /\ cfg.pool \in Nat /\ cfg.shares \in Seq(Nat)
  BY TournamentAssumption
<1>2. PayoutFits(cfg)
  BY <1>1 DEF PayoutFits, ValidTournament
<1>3. \A i \in 1 .. Len(cfg.levels) : cfg.levels[i].duration > 0
  <2>1. DOMAIN cfg.levels = 1 .. Len(cfg.levels)
    BY <1>1
  <2> QED BY <2>1 DEF ValidTournament
<1>4. LevelsFit(cfg)
  BY <1>1, <1>3 DEF LevelsFit
<1> QED BY <1>2, <1>4 DEF ConfigFits, ValidTournament

(* A new tournament fits. *)
LEMMA CupInitFits ==
  TournamentInit => CupInv
<1> SUFFICES ASSUME TournamentInit PROVE CupInv
  OBVIOUS
<1>1. PICK cfg \in TournamentConfigs : ValidTournament(cfg) /\ ctl = NewController(cfg)
  BY DEF TournamentInit
<1>2. ConfigFits(cfg)
  BY <1>1, ConfigsFit
<1>3. /\ ctl.cfg = cfg /\ ctl.status = "Registering" /\ ctl.entrants = <<>> /\ ctl.remaining = {}
      /\ ctl.level = 1 /\ ctl.elapsed = 0 /\ ctl.rest = 0 /\ ctl.standings = <<>> /\ IsController(ctl)
  BY <1>1 DEF NewController, IsController
<1>4. DOMAIN ctl.entrants = {} /\ DOMAIN stacks = {}
  BY <1>3 DEF TournamentInit
<1>5. EntrantsFit(ctl) /\ StacksFit(stacks)
  BY <1>4, FS_EmptySet DEF EntrantsFit, StacksFit
<1>6. ClockFits(ctl)
  <2>1. 1 \in 1 .. Len(cfg.levels) /\ Len(cfg.levels) \in Nat
    BY <1>1, <1>2 DEF ConfigFits, LevelsFit, ValidTournament
  <2>2. cfg.levels[1].duration \in Nat /\ cfg.levels[1].duration > 0
    BY <1>2, <2>1, LevelIs DEF ConfigFits
  <2> QED BY <1>3, <2>1, <2>2 DEF ClockFits
<1> QED BY <1>2, <1>3, <1>4, <1>5, <1>6 DEF CupInv, ControllerFits, Statuses

(* register: a seat of the tournament, and the start when it is the last. *)
LEMMA RegisterFits ==
  ASSUME CupInv, NEW p, NEW seat \in TourneySeats, RegisterPlayer(p, seat)
  PROVE  CupInv'
<1> DEFINE c == RegisterEntrant(ctl, p, seat)
           e == With(ctl.entrants, p, seat)
           r == ctl.remaining \cup {p}
           all == ctl.cfg.entrants
           begun == StartTournament(c)
<1>1. /\ IsController(ctl) /\ ConfigFits(ctl.cfg) /\ EntrantsFit(ctl) /\ ClockFits(ctl)
      /\ ctl.status = "Registering" /\ ctl.remaining = DOMAIN ctl.entrants /\ ctl.standings = <<>>
      /\ p \notin DOMAIN ctl.entrants /\ \A q \in DOMAIN ctl.entrants : ctl.entrants[q] # seat
  BY DEF CupInv, ControllerFits, RegisterPlayer, CanRegister
<1>2. seat \in 0 .. 8 /\ all \in 2 .. 9
  BY <1>1 DEF TourneySeats, ConfigFits
<1>3. /\ DOMAIN e = DOMAIN ctl.entrants \cup {p} /\ e[p] = seat
      /\ \A q \in DOMAIN ctl.entrants : e[q] = ctl.entrants[q]
  BY <1>1 DEF With
<1>4. c = [ctl EXCEPT !.entrants = e, !.remaining = r]
  BY <1>1 DEF RegisterEntrant, IsController
<1> HIDE DEF e, c
<1>5. /\ IsController(c) /\ c.cfg = ctl.cfg /\ c.status = "Registering" /\ c.entrants = e /\ c.remaining = r
      /\ c.level = ctl.level /\ c.elapsed = ctl.elapsed /\ c.rest = ctl.rest /\ c.standings = <<>>
  BY <1>1, <1>4 DEF IsController
<1>6. EntrantsFit(c)
  <2>1. IsFiniteSet(DOMAIN e)
    BY <1>1, <1>3, FS_AddElement DEF EntrantsFit
  <2>2. \A q, s \in DOMAIN e : e[q] = e[s] => q = s
    BY <1>1, <1>3 DEF EntrantsFit
  <2>3. \A q \in DOMAIN e : e[q] \in Nat
    BY <1>1, <1>2, <1>3 DEF EntrantsFit
  <2> QED BY <1>5, <2>1, <2>2, <2>3 DEF EntrantsFit
<1>7. ClockFits(c)
  BY <1>1, <1>5 DEF ClockFits
<1>8. c.remaining = DOMAIN c.entrants
  BY <1>1, <1>3, <1>5
<1>9. ControllerFits(c)
  BY <1>1, <1>5, <1>6, <1>7, <1>8 DEF ControllerFits, Statuses
<1>10. CanStart(c) => ControllerFits(begun)
  <2> SUFFICES ASSUME CanStart(c) PROVE ControllerFits(begun)
    OBVIOUS
  <2>1. begun = [c EXCEPT !.status = "Running"]
    BY DEF StartTournament
  <2> HIDE DEF begun
  <2>2. /\ IsController(begun) /\ begun.cfg = ctl.cfg /\ begun.status = "Running" /\ begun.entrants = e
        /\ begun.remaining = r /\ begun.level = ctl.level /\ begun.elapsed = ctl.elapsed
        /\ begun.rest = ctl.rest /\ begun.standings = <<>>
    BY <1>5, <2>1 DEF IsController
  <2>3. EntrantsFit(begun) /\ ClockFits(begun)
    BY <1>5, <1>6, <1>7, <2>2 DEF EntrantsFit, ClockFits
  <2>4. Cardinality(DOMAIN e) = all /\ r = DOMAIN e
    BY <1>5, <1>8 DEF CanStart
  <2>5. Listed(begun, 0)
    BY <2>2 DEF Listed
  <2>6. Played(begun)
    <3>1. all - Cardinality(r) = 0
      BY <1>2, <2>4
    <3> QED BY <2>2, <2>4, <2>5, <3>1 DEF Played
  <2> QED BY <1>1, <2>2, <2>3, <2>6 DEF ControllerFits, Statuses
<1>11. ctl' = IF CanStart(c) THEN begun ELSE c
  BY DEF RegisterPlayer, c
<1> HIDE DEF begun
<1>12. ControllerFits(ctl')
  BY <1>9, <1>10, <1>11
<1>13. StacksFit(stacks')
  <2>1. stacks' = With(stacks, seat, StartingStack) /\ StacksFit(stacks) /\ StartingStack \in Nat
    BY TournamentAssumption DEF RegisterPlayer, CupInv
  <2> QED BY <1>2, <2>1 DEF StacksFit, With
<1>14. (ControllerFits(ctl))' /\ (StacksFit(stacks))'
  BY <1>12, <1>13
<1> QED BY <1>14 DEF CupInv

(* unregister: the entry and its stack are gone. *)
LEMMA UnregisterFits ==
  ASSUME CupInv, NEW p, UnregisterPlayer(p)
  PROVE  CupInv'
<1> DEFINE c == UnregisterEntrant(ctl, p)
           e == Without(ctl.entrants, p)
           r == ctl.remaining \ {p}
<1>1. /\ IsController(ctl) /\ ConfigFits(ctl.cfg) /\ EntrantsFit(ctl) /\ ClockFits(ctl)
      /\ ctl.status = "Registering" /\ ctl.remaining = DOMAIN ctl.entrants /\ ctl.standings = <<>>
  BY DEF CupInv, ControllerFits, UnregisterPlayer
<1>3. DOMAIN e = DOMAIN ctl.entrants \ {p} /\ \A q \in DOMAIN e : e[q] = ctl.entrants[q]
  BY DEF Without
<1>4. c = [ctl EXCEPT !.entrants = e, !.remaining = r]
  BY <1>1 DEF UnregisterEntrant, IsController
<1> HIDE DEF e, c
<1>5. /\ IsController(c) /\ c.cfg = ctl.cfg /\ c.status = "Registering" /\ c.entrants = e /\ c.remaining = r
      /\ c.level = ctl.level /\ c.elapsed = ctl.elapsed /\ c.rest = ctl.rest /\ c.standings = <<>>
  BY <1>1, <1>4 DEF IsController
<1>6. EntrantsFit(c)
  <2>1. IsFiniteSet(DOMAIN e)
    BY <1>1, <1>3, FS_Subset DEF EntrantsFit
  <2> QED BY <1>1, <1>3, <1>5, <2>1 DEF EntrantsFit
<1>7. ClockFits(c)
  BY <1>1, <1>5 DEF ClockFits
<1>8. c.remaining = DOMAIN c.entrants
  BY <1>1, <1>3, <1>5
<1>9. ControllerFits(c)
  BY <1>1, <1>5, <1>6, <1>7, <1>8 DEF ControllerFits, Statuses
<1>10. ctl' = c
  BY DEF UnregisterPlayer, c
<1>11. StacksFit(stacks')
  <2>1. stacks' = Without(stacks, ctl.entrants[p]) /\ StacksFit(stacks)
    BY DEF UnregisterPlayer, CupInv
  <2> QED BY <2>1 DEF StacksFit, Without
<1>12. (ControllerFits(ctl))' /\ (StacksFit(stacks))'
  BY <1>9, <1>10, <1>11
<1> QED BY <1>12 DEF CupInv

(* cancel: nothing but the status changes. *)
LEMMA CancelFits ==
  ASSUME CupInv, CancelRegistration
  PROVE  CupInv'
<1>1. /\ IsController(ctl) /\ ConfigFits(ctl.cfg) /\ EntrantsFit(ctl) /\ ClockFits(ctl) /\ StacksFit(stacks)
  BY DEF CupInv, ControllerFits
<1>2. ctl' = [ctl EXCEPT !.status = "Cancelled"] /\ stacks' = stacks
  BY DEF CancelRegistration, CancelTournament
<1> DEFINE c == ctl'
<1>3. /\ IsController(c) /\ c.cfg = ctl.cfg /\ c.status = "Cancelled" /\ c.entrants = ctl.entrants
      /\ c.level = ctl.level /\ c.elapsed = ctl.elapsed /\ c.rest = ctl.rest
  BY <1>1, <1>2 DEF IsController
<1> HIDE DEF c
<1>4. ControllerFits(c)
  BY <1>1, <1>3 DEF ControllerFits, EntrantsFit, ClockFits, Statuses
<1>5. (ControllerFits(ctl))' /\ (StacksFit(stacks))'
  BY <1>1, <1>2, <1>4 DEF c
<1> QED BY <1>5 DEF CupInv

(* rollover_completed_hand: the clock, then the eliminations. *)
LEMMA HandResultFits ==
  ASSUME CupInv, NEW after \in Divisions, NEW time \in Elapsed, HandResult(time, after)
  PROVE  CupInv'
<1> DEFINE ticked == Tick(ctl, time)
<1>1. ControllerFits(ctl) /\ StacksFit(stacks) /\ ctl.status \in {"Running", "Break"} /\ time \in Nat
  BY TournamentAssumption DEF CupInv, HandResult
<1>2. ControllerFits(ticked) /\ ticked.status \in {"Running", "Break"}
  BY <1>1, TickFitsController
<1>3. /\ ResultAccepted(ticked, stacks, after) /\ ctl' = CompleteTournamentHand(ticked, stacks, after)
      /\ stacks' = after
  BY DEF HandResult
<1> HIDE DEF ticked
<1>4. ControllerFits(ctl')
  BY <1>1, <1>2, <1>3, HandFitsController
<1>5. StacksFit(after)
  <2> DEFINE total == TotalChips(stacks)
  <2>1. after \in [DOMAIN stacks -> 0 .. total]
    BY DEF Divisions
  <2> HIDE DEF total
  <2>2. \A s \in DOMAIN stacks : after[s] \in Nat
    BY <2>1
  <2>3. DOMAIN after = DOMAIN stacks
    BY <2>1
  <2> QED BY <1>1, <2>2, <2>3 DEF StacksFit
<1>6. (ControllerFits(ctl))' /\ (StacksFit(stacks))'
  BY <1>3, <1>4, <1>5
<1> QED BY <1>6 DEF CupInv

(* advance_tournament_breaks: the clock only. *)
LEMMA WaitFits ==
  ASSUME CupInv, NEW time \in Elapsed, WaitOutBreak(time)
  PROVE  CupInv'
<1>1. ControllerFits(ctl) /\ StacksFit(stacks) /\ ctl.status \in {"Running", "Break"} /\ time \in Nat
  BY TournamentAssumption DEF CupInv, WaitOutBreak
<1>2. ctl' = Tick(ctl, time) /\ stacks' = stacks
  BY DEF WaitOutBreak
<1>3. ControllerFits(Tick(ctl, time))
  BY <1>1, TickFitsController
<1>4. (ControllerFits(ctl))' /\ (StacksFit(stacks))'
  BY <1>1, <1>2, <1>3
<1> QED BY <1>4 DEF CupInv

(* Every step of the tournament. *)
LEMMA CupStep ==
  ASSUME CupInv, [TournamentNext]_tvars
  PROVE  CupInv'
<1>1. ASSUME NEW p \in Entrants, NEW seat \in TourneySeats, RegisterPlayer(p, seat) PROVE CupInv'
  BY <1>1, RegisterFits
<1>2. ASSUME NEW p \in Entrants, UnregisterPlayer(p) PROVE CupInv'
  BY <1>2, UnregisterFits
<1>3. CASE CancelRegistration
  BY <1>3, CancelFits
<1>4. ASSUME NEW after \in Divisions, NEW time \in Elapsed, HandResult(time, after) PROVE CupInv'
  BY <1>4, HandResultFits
<1>5. ASSUME NEW time \in Elapsed, WaitOutBreak(time) PROVE CupInv'
  BY <1>5, WaitFits
<1>6. CASE UNCHANGED tvars
  <2>1. ctl' = ctl /\ stacks' = stacks
    BY <1>6 DEF tvars
  <2>2. (ControllerFits(ctl))' /\ (StacksFit(stacks))'
    BY <2>1 DEF CupInv
  <2> QED BY <2>2 DEF CupInv
<1> QED BY <1>1, <1>2, <1>3, <1>4, <1>5, <1>6 DEF TournamentNext

(* A full list of places holds each once. *)
LEMMA PlacesListed ==
  ASSUME NEW c, NEW left \in Nat, c.cfg.entrants \in Nat, left <= c.cfg.entrants,
         Listed(c, c.cfg.entrants - left)
  PROVE  PlacesOf(c.standings) = left + 1 .. c.cfg.entrants /\ Len(c.standings) = c.cfg.entrants - left
<1> DEFINE all == c.cfg.entrants
           s == c.standings
<1>1. /\ DOMAIN s = 1 .. all - left /\ Len(s) = all - left
      /\ \A i \in 1 .. all - left : s[i].place = all - i + 1
  BY DEF Listed
<1> HIDE DEF s
<1>2. ASSUME NEW x \in PlacesOf(s) PROVE x \in left + 1 .. all
  <2>1. PICK i \in 1 .. all - left : x = s[i].place
    BY <1>1 DEF PlacesOf
  <2>2. x = all - i + 1
    BY <1>1, <2>1
  <2> QED BY <2>2
<1>3. ASSUME NEW x \in left + 1 .. all PROVE x \in PlacesOf(s)
  <2> DEFINE i == all - x + 1
  <2>1. i \in 1 .. all - left /\ all - i + 1 = x
    OBVIOUS
  <2> HIDE DEF i
  <2>2. s[i].place = x /\ i \in DOMAIN s
    BY <1>1, <2>1
  <2> QED BY <2>2 DEF PlacesOf
<1> QED BY <1>1, <1>2, <1>3 DEF s

(* The payouts of a concluded tournament add up to the pool. *)
LEMMA PoolPaidOut ==
  ASSUME NEW c, Concluded(c), ConfigFits(c.cfg)
  PROVE  SumSeq([i \in DOMAIN c.standings |-> c.standings[i].payout]) = c.cfg.pool
<1> DEFINE cfg == c.cfg
           all == cfg.entrants
           P == 1 .. all
           S == Shares(cfg)
           b == [i \in P |-> all - i + 1]
           awards == [i \in P |-> Award(cfg, i)]
           paid == [i \in P |-> c.standings[i].payout]
<1>1. PayoutFits(cfg) /\ all \in 2 .. 9 /\ Len(cfg.shares) <= all
  BY DEF ConfigFits
<1>2. DOMAIN c.standings = P /\ \A i \in P : c.standings[i].place = all - i + 1
                          /\ c.standings[i].payout = Award(cfg, c.standings[i].place)
  BY DEF Concluded, Listed
<1>3. S = 1 .. Len(cfg.shares) /\ Len(cfg.shares) \in Nat /\ IsFiniteSet(S)
  BY <1>1, SharesNumbered DEF Shares, PayoutFits
<1>0. all \in Nat
  BY <1>1
<1>4. IsFiniteSet(P)
  <2> DEFINE bottom == 1
  <2>1. bottom \in Int /\ all \in Int /\ P = bottom .. all
    BY <1>0
  <2> HIDE DEF bottom, all, P
  <2> QED BY <2>1, FS_Interval
<1> HIDE DEF P
<1>5. \A i \in P : paid[i] = Award(cfg, all - i + 1)
  BY <1>2
<1>6. \A i \in P : i \in Int /\ all - i + 1 \in P /\ all - (all - i + 1) + 1 = i
  <2> HIDE DEF all
  <2> QED BY <1>0 DEF P
<1>7. \A i \in P : awards[i] = Award(cfg, i) /\ awards[i] \in Nat
  BY <1>1, AwardIsNear
<1>8. \A i \in P : b[i] = all - i + 1 /\ b[i] \in P
  BY <1>6
<1>9. {b[i] : i \in P} = P
  <2>1. ASSUME NEW x \in P PROVE \E i \in P : b[i] = x
    <3>1. all - x + 1 \in P /\ b[all - x + 1] = all - (all - x + 1) + 1
      BY <1>6, <1>8
    <3>2. all - (all - x + 1) + 1 = x
      BY <1>6
    <3> QED BY <3>1, <3>2
  <2> HIDE DEF b
  <2> QED BY <1>8, <2>1
<1>10. SumSeq([i \in DOMAIN c.standings |-> c.standings[i].payout]) = SumFunctionOnSet(paid, P)
  <2>1. [i \in DOMAIN c.standings |-> c.standings[i].payout] = paid
    BY <1>2
  <2>2. DOMAIN paid = P
    OBVIOUS
  <2> HIDE DEF paid
  <2>3. SumSeq(paid) = SumFunctionOnSet(paid, DOMAIN paid)
    BY DEF SumSeq, FoldSeq, FoldFunction, SumFunctionOnSet, FoldFunctionOnSet
  <2> QED BY <2>1, <2>2, <2>3
<1> HIDE DEF b, awards, paid, S, all, cfg
<1>11. SumFunctionOnSet(awards, P) = SumFunctionOnSet(paid, P)
  <2>1. \A x, y \in P : b[x] = b[y] => x = y
    BY <1>1, <1>6, <1>8
  <2>2. \A x \in P : paid[x] \in Int /\ awards[b[x]] = paid[x]
    BY <1>5, <1>7, <1>8
  <2>3. SumFunctionOnSet(awards, {b[x] : x \in P}) = SumFunctionOnSet(paid, P)
    BY <1>4, <2>1, <2>2, SumReindex
  <2> QED BY <1>9, <2>3
<1>12. S \subseteq P
  BY <1>1, <1>3 DEF P
<1>13. SumFunctionOnSet(awards, P) = SumFunctionOnSet(awards, S) + SumFunctionOnSet(awards, P \ S)
  BY <1>4, <1>7, <1>12, SumSplit
<1>14. SumFunctionOnSet(awards, P \ S) = 0
  <2>1. IsFiniteSet(P \ S)
    BY <1>4, FS_Subset
  <2>2. \A i \in P \ S : awards[i] = 0
    BY <1>7 DEF Award, S, Shares
  <2> QED BY <2>1, <2>2, SumZero
<1>15. SumFunctionOnSet(awards, S) = cfg.pool
  BY <1>1, <1>7, <1>12, AwardsAddUp DEF S
<1>16. cfg.pool \in Nat
  BY <1>1 DEF PayoutFits
<1> QED BY <1>10, <1>11, <1>13, <1>14, <1>15, <1>16 DEF cfg

(* What the inductive invariant says of standings, payouts and clock. *)
LEMMA CupInvIsExact ==
  CupInv => StandingsExact
<1> SUFFICES ASSUME CupInv PROVE StandingsExact
  OBVIOUS
<1> DEFINE left == IF ctl.status = "Complete" THEN 0 ELSE Cardinality(ctl.remaining)
           all == ctl.cfg.entrants
           exact(i) == IF ctl.standings[i].place \in DOMAIN ctl.cfg.shares
                       THEN ctl.cfg.pool * ctl.cfg.shares[ctl.standings[i].place] ELSE 0
<1>1. ControllerFits(ctl) /\ ConfigFits(ctl.cfg) /\ all \in 2 .. 9
  BY DEF CupInv, ControllerFits, ConfigFits
<1>2. ASSUME ctl.status \in {"Running", "Break", "Complete"}
      PROVE  PlacesOf(ctl.standings) = left + 1 .. all /\ Len(ctl.standings) = all - left
  <2>1. left \in Nat /\ left <= all /\ Listed(ctl, all - left)
    <3>1. CASE ctl.status = "Complete"
      <4>1. left = 0 /\ all - 0 = all
        BY <1>1, <3>1
      <4>2. Listed(ctl, all)
        BY <1>1, <3>1 DEF ControllerFits, Concluded
      <4> QED BY <1>1, <4>1, <4>2
    <3>2. CASE ctl.status # "Complete"
      <4>1. Played(ctl) /\ IsFiniteSet(DOMAIN ctl.entrants)
        BY <1>1, <1>2, <3>2 DEF ControllerFits, EntrantsFit
      <4>2. left = Cardinality(ctl.remaining)
        BY <3>2
      <4>3. left \in Nat /\ left <= all
        BY <4>1, <4>2, FS_Subset, FS_CardinalityType DEF Played
      <4> QED BY <4>1, <4>2, <4>3 DEF Played
    <3> QED BY <3>1, <3>2
  <2> HIDE DEF left
  <2> QED BY <1>1, <2>1, PlacesListed
<1>3. ASSUME ctl.status = "Complete"
      PROVE  /\ SumSeq([i \in DOMAIN ctl.standings |-> ctl.standings[i].payout]) = ctl.cfg.pool
             /\ \A i \in DOMAIN ctl.standings :
                  /\ ctl.standings[i].payout * BasisPoints < exact(i) + BasisPoints
                  /\ ctl.standings[i].payout * BasisPoints > exact(i) - BasisPoints
  <2>1. Concluded(ctl)
    BY <1>1, <1>3 DEF ControllerFits
  <2>2. ASSUME NEW i \in DOMAIN ctl.standings
        PROVE  /\ ctl.standings[i].payout * BasisPoints < exact(i) + BasisPoints
               /\ ctl.standings[i].payout * BasisPoints > exact(i) - BasisPoints
    <3>1. ctl.standings[i].payout = Award(ctl.cfg, ctl.standings[i].place)
      <4>1. Len(ctl.standings) = all /\ DOMAIN ctl.standings = 1 .. Len(ctl.standings)
        BY <2>1 DEF Concluded, Listed
      <4>2. i \in 1 .. all
        BY <4>1
      <4> QED BY <2>1, <4>2 DEF Concluded
    <3>2. PayoutFits(ctl.cfg)
      BY <1>1 DEF ConfigFits
    <3> QED BY <3>1, <3>2, AwardIsNear DEF Shares
  <2>3. SumSeq([i \in DOMAIN ctl.standings |-> ctl.standings[i].payout]) = ctl.cfg.pool
    BY <1>1, <2>1, PoolPaidOut
  <2> QED BY <2>2, <2>3
<1>4. ASSUME NEW a \in Elapsed, NEW b \in Elapsed PROVE Tick(Tick(ctl, a), b) = Tick(ctl, a + b)
  <2>1. a \in Nat /\ b \in Nat
    BY TournamentAssumption
  <2>2. CASE ctl.status \in {"Running", "Break"}
    <3>1. Going(ctl)
      BY <1>1, <2>2 DEF Going, ControllerFits, ConfigFits
    <3> QED BY <2>1, <3>1, TimeAddsUp
  <2>3. CASE ctl.status \notin {"Running", "Break"}
    <3>1. \A t : Tick(ctl, t) = ctl
      BY <2>3 DEF Tick
    <3> QED BY <3>1
  <2> QED BY <2>2, <2>3
<1> HIDE DEF left
<1>5. /\ ctl.status \in {"Running", "Break", "Complete"} =>
           PlacesOf(ctl.standings) = left + 1 .. all /\ Len(ctl.standings) = all - left
      /\ ctl.status = "Complete" =>
           /\ SumSeq([i \in DOMAIN ctl.standings |-> ctl.standings[i].payout]) = ctl.cfg.pool
           /\ \A i \in DOMAIN ctl.standings :
                /\ ctl.standings[i].payout * BasisPoints < exact(i) + BasisPoints
                /\ ctl.standings[i].payout * BasisPoints > exact(i) - BasisPoints
      /\ \A a, b \in Elapsed : Tick(Tick(ctl, a), b) = Tick(ctl, a + b)
  BY <1>2, <1>3, <1>4
<1> QED BY <1>5 DEF StandingsExact, left

(* The standings, payouts and clock of every tournament are exact. *)
THEOREM StandingsAreExact == TournamentSpec => []StandingsExact
<1>1. TournamentInit => CupInv
  BY CupInitFits
<1>2. CupInv /\ [TournamentNext]_tvars => CupInv'
  BY CupStep
<1>3. CupInv => StandingsExact
  BY CupInvIsExact
<1> QED BY <1>1, <1>2, <1>3, PTL DEF TournamentSpec

=============================================================================
