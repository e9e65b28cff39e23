-------------------------- MODULE ConnectionsProofs --------------------------
(***************************************************************************)
(* Proofs about Connections: what the reconnect credentials open, and what *)
(* the cleanup of a connection leaves behind, for any number of workers,   *)
(* clients, guests, hands and restarts; and, at the end, about FixedTable: *)
(* every seat of the single-table server is served by one connection.      *)
(***************************************************************************)
EXTENDS Connections, FixedTable, FiniteSetTheorems, TLAPS

Stages == {"idle", "admit", "route", "rotate", "bind", "grant", "welcome", "bound",
           "lobby", "drop", "leave"}
Places == {"none", "waiting", "registered", "seated"}
Conns  == [at : Stages, peer : Clients \cup {"none"}, guest : Guests \cup {0}, token : Nat,
           grant : Nat, hand : Nat, bound : Nat, lobby : BOOLEAN]
TableStates == [tour : BOOLEAN, open : BOOLEAN, hand : Nat,
                phase : {"none", "live", "terminal", "break"}, connected : SUBSET Guests]
Entries == [token : Nat, guest : Guests]

(* A worker that is busy has a guest; one in the lobby is marked. *)
ConnsOK ==
  /\ conns \in [Workers -> Conns]
  /\ \A w \in Workers : /\ conns[w].at # "idle" => conns[w].guest \in Guests
                        /\ conns[w].at = "lobby" => conns[w].lobby = TRUE

(* TypeOK: the server's fields have their types. *)
TypeOK ==
  /\ table \in TableStates
  /\ place \in [Guests -> Places]
  /\ vault \subseteq Entries
  /\ drawn \in [guests : Nat, tokens : Nat]
  /\ active \subseteq Guests
  /\ ConnsOK
  /\ held \in [Clients -> Nat]
  /\ restored \subseteq Guests
  /\ opened \in Seq(Nat)
  /\ file # NoFile => /\ file.table \in TableStates /\ file.place \in [Guests -> Places]
                      /\ file.vault \subseteq Entries

-----------------------------------------------------------------------------
(* Credentials. *)

(* A vault of credentials that were drawn, one for a guest, one of a kind. *)
VaultOK(v) ==
  /\ \A e \in v : e.token <= drawn.tokens
  /\ \A e, f \in v : e.token = f.token \/ e.guest = f.guest => e = f

-----------------------------------------------------------------------------
(* Cleanup. *)

(* The stages in which a worker owns its guest: after the admission, up to the
   last thing it does. *)
Owning == Stages \ {"idle", "admit"}
Bound  == {"grant", "welcome", "bound"}
OwnersActive   == \A w \in Workers : conns[w].at \in Owning => conns[w].guest \in active
OwnersDistinct == \A w, x \in Workers :
  conns[w].at \in Owning /\ conns[x].at \in Owning /\ conns[w].guest = conns[x].guest
    => w = x

(* No worker holds a handle of a hand that was not dealt yet, and the runtime
   counts the guests of the bound workers as connected. *)
HandsPast == \A w \in Workers : conns[w].hand <= table.hand /\ conns[w].bound <= table.hand
BoundConnected == \A w \in Workers :
  conns[w].at \in Bound /\ Answers(conns[w].bound) => conns[w].guest \in table.connected

(* Registrations are those of a tournament that has not started, and a checkpoint
   holds no queue. *)
RegistrationsOpen(t, p) == \A g \in Guests : p[g] = "registered" => t.tour /\ t.open
FileClean == file # NoFile =>
  /\ RegistrationsOpen(file.table, file.place) /\ file.table.phase = "none"
  /\ \A g \in Guests : file.place[g] # "waiting"

(* The hands of a tournament begin with the end of its registration. *)
OpenIdle == table.phase # "none" => table.open = FALSE

(* A worker came through the lobby for the guest and has yet to clean up. *)
Attends(w, g) ==
  conns[w].guest = g /\ conns[w].lobby /\ conns[w].at \in Owning \ {"leave"}
Attended(g) == \E w \in Workers : Attends(w, g)
PlacesAttended == \A g \in Guests :
  /\ place[g] = "waiting" => Attended(g)
  /\ place[g] = "registered" => Attended(g) \/ g \in restored

Kept ==
  /\ OwnersActive /\ OwnersDistinct
  /\ HandsPast /\ BoundConnected
  /\ RegistrationsOpen(table, place) /\ OpenIdle /\ FileClean
  /\ PlacesAttended
CleanupInv == TypeOK /\ Kept

-----------------------------------------------------------------------------
(* Types. *)

(* StartedFacts: dealing a hand seats everybody who is registered; without one
   nothing changes. *)
LEMMA StartedFacts ==
  ASSUME NEW t \in TableStates, NEW p \in [Guests -> Places]
  PROVE  LET s == Started(t, p) IN
         /\ s.table \in TableStates /\ s.place \in [Guests -> Places]
         /\ \/ s.table = t /\ s.place = p
            \/ /\ s.table.hand = t.hand + 1 /\ s.table.open = FALSE
               /\ \A g \in Guests : /\ s.place[g] # "registered"
                                    /\ s.place[g] = "waiting" => p[g] = "waiting"
<1> DEFINE S == {g \in Guests : p[g] \in {"registered", "seated"}}
           new == [t EXCEPT !.hand = @ + 1, !.phase = "live", !.connected = S, !.open = FALSE]
           seats == [g \in Guests |-> IF g \in S THEN "seated" ELSE p[g]]
<1>1. \/ Started(t, p) = [table |-> new, place |-> seats]
      \/ Started(t, p) = [table |-> t, place |-> p]
  BY DEF Started
<1>2. new \in TableStates /\ new.hand = t.hand + 1 /\ new.open = FALSE
  <2>1. S \in SUBSET Guests /\ t.hand + 1 \in Nat
    BY DEF TableStates
  <2> HIDE DEF S
  <2> QED BY <2>1 DEF TableStates
<1>3. seats \in [Guests -> Places]
  BY DEF Places
<1>4. \A g \in Guests : /\ seats[g] # "registered"
                        /\ seats[g] = "waiting" => p[g] = "waiting"
  BY DEF Places
<1> HIDE DEF new, seats
<1> QED BY <1>1, <1>2, <1>3, <1>4

(* OwnerOfType: the owner of a credential in the vault is a guest. *)
LEMMA OwnerOfType ==
  ASSUME TypeOK, NEW t \in TokensOf(vault)
  PROVE  /\ OwnerOf(t) \in Guests
         /\ \E e \in vault : e.token = t /\ e.guest = OwnerOf(t)
<1>1. \E e \in vault : e.token = t
  BY DEF TokensOf
<1>2. (CHOOSE e \in vault : e.token = t) \in vault
      /\ (CHOOSE e \in vault : e.token = t).token = t
  BY <1>1
<1> QED BY <1>2 DEF OwnerOf, TypeOK, Entries

(* IssuedType: an issued credential is one more entry of the vault. *)
LEMMA IssuedType ==
  ASSUME TypeOK, NEW v \in SUBSET vault, NEW g \in Guests
  PROVE  Issued(v, g) \subseteq Entries
BY DEF TypeOK, Issued, Entries

(* JoinedType, CancelledType: what a request makes of the places. *)
LEMMA JoinedType ==
  ASSUME TypeOK, NEW g \in Guests
  PROVE  /\ Joined(g) \in [Guests -> Places] /\ Cancelled(g) \in [Guests -> Places]
         /\ \A h \in Guests : h # g => Joined(g)[h] = place[h] /\ Cancelled(g)[h] = place[h]
         /\ Joined(g)[g] = "registered" /\ place[g] # "registered" => table.tour /\ table.open
         /\ Cancelled(g)[g] # "waiting"
         /\ Cancelled(g)[g] = "registered" => place[g] = "registered" /\ ~table.open
BY DEF TypeOK, Joined, Cancelled, Places

(* CheckpointType: what a checkpoint holds. *)
LEMMA CheckpointType ==
  ASSUME NEW t \in TableStates, NEW p \in [Guests -> Places], vault \subseteq Entries
  PROVE  LET f == Checkpoint(t, p) IN
         /\ f.table \in TableStates /\ f.place \in [Guests -> Places]
         /\ f.vault = vault
         /\ f.table.tour = t.tour /\ f.table.open = t.open
         /\ \A g \in Guests : /\ f.place[g] # "waiting"
                              /\ f.place[g] = "registered" => p[g] = "registered"
BY DEF Checkpoint, TableStates, Places

vars == <<table, place, vault, drawn, active, conns, held, restored, file, opened>>

(* ConnsMove: what a worker may become. *)
LEMMA ConnsMove ==
  ASSUME ConnsOK, NEW w \in Workers, NEW c \in Conns,
         c.at # "idle" => c.guest \in Guests, c.at = "lobby" => c.lobby = TRUE,
         conns' = [conns EXCEPT ![w] = c]
  PROVE  /\ ConnsOK' /\ conns'[w] = c
         /\ \A x \in Workers : x # w => conns'[x] = conns[x]
BY DEF ConnsOK

(* What a worker that owns its guest may become: it keeps the guest, goes on
   owning it, holds no handle of a later hand, and still came through the lobby
   if it did. *)
Busy == Owning \ {"leave"}
Proceeds(w) ==
  /\ ConnsOK'
  /\ \A x \in Workers : x # w => conns'[x] = conns[x]
  /\ conns[w].at \in Owning /\ conns'[w].at \in Busy
  /\ conns'[w].guest = conns[w].guest
  /\ conns'[w].hand <= table'.hand /\ conns'[w].bound <= table'.hand
  /\ conns'[w].lobby \in {TRUE, conns[w].lobby}

(* ProceedsAs: the same of a worker that becomes c. *)
LEMMA ProceedsAs ==
  ASSUME ConnsOK, NEW w \in Workers, conns[w].at \in Owning,
         NEW c \in Conns, c.at \in Busy, c.guest = conns[w].guest,
         c.hand <= table'.hand, c.bound <= table'.hand, c.lobby \in {TRUE, conns[w].lobby},
         c.at = "lobby" => c.lobby = TRUE,
         conns' = [conns EXCEPT ![w] = c]
  PROVE  Proceeds(w) /\ conns'[w] = c
<1>1. conns[w].guest \in Guests
  BY DEF ConnsOK, Owning
<1>2. /\ ConnsOK' /\ conns'[w] = c
      /\ \A x \in Workers : x # w => conns'[x] = conns[x]
  BY <1>1, ConnsMove
<1> QED BY <1>2 DEF Proceeds

(* UnwindProceeds: so does one that starts its cleanup. *)
LEMMA UnwindProceeds ==
  ASSUME ConnsOK, HandsPast, NEW w \in Workers, conns[w].at \in Owning, Unwind(w),
         table.hand \in Nat, table'.hand = table.hand
  PROVE  Proceeds(w) /\ conns'[w].at = "drop"
<1> DEFINE c == [Idle EXCEPT !.at = "drop", !.guest = conns[w].guest,
                            !.bound = conns[w].bound, !.lobby = conns[w].lobby]
<1>1. conns[w] \in Conns
  BY DEF ConnsOK
<1>2. c \in Conns
  BY <1>1 DEF Idle, Conns, Stages
<1>3. /\ c.at = "drop" /\ c.guest = conns[w].guest /\ c.bound = conns[w].bound
      /\ c.lobby = conns[w].lobby /\ c.hand = 0
  BY <1>1 DEF Idle, Conns
<1>4. conns' = [conns EXCEPT ![w] = c]
  BY DEF Unwind
<1>5. c.at \in Busy /\ c.at # "lobby"
  BY <1>3 DEF Owning, Stages, Busy
<1>6. c.hand <= table'.hand /\ c.bound <= table'.hand
  BY <1>3 DEF HandsPast
<1> HIDE DEF c
<1> QED BY <1>2, <1>3, <1>4, <1>5, <1>6, ProceedsAs

(* Stage: the stages of a worker, told apart. *)
LEMMA StageSets ==
  /\ Busy = {"route", "rotate", "bind", "grant", "welcome", "bound", "lobby", "drop"}
  /\ Owning = Busy \cup {"leave"} /\ Bound \subseteq Busy /\ Busy \subseteq Stages
BY DEF Busy, Owning, Stages, Bound

(* A worker that is bound now was bound to the same hand before, or its guest
   was just connected. *)
BindsRightly(w) == conns'[w].at \in Bound =>
  \/ conns[w].at \in Bound /\ conns'[w].bound = conns[w].bound
  \/ conns[w].guest \in table'.connected

(* MoveRoute: the route loop goes on, to the lobby or to a route, or gives up. *)
LEMMA MoveRoute ==
  ASSUME TypeOK, HandsPast, NEW w \in Workers, FindRoute(w)
  PROVE  Proceeds(w) /\ BindsRightly(w)
<1> DEFINE c == conns[w]
           rotate == [c EXCEPT !.at = "rotate", !.hand = table.hand]
           lobby == [c EXCEPT !.at = "lobby", !.lobby = TRUE]
<1>1. /\ c \in Conns /\ ConnsOK /\ c.at = "route" /\ table.hand \in Nat
      /\ table'.hand = table.hand /\ c.hand <= table'.hand /\ c.bound <= table'.hand
  BY DEF FindRoute, TypeOK, ConnsOK, Rest, TableStates, HandsPast, Unwind
<1>2. conns[w].at \in Owning
  BY <1>1, StageSets
<1>3. CASE conns' = [conns EXCEPT ![w].at = "rotate", ![w].hand = table.hand]
  <2>1. conns' = [conns EXCEPT ![w] = rotate]
    BY <1>1, <1>3 DEF ConnsOK
  <2>2. /\ rotate \in Conns /\ rotate.at = "rotate" /\ rotate.guest = c.guest
        /\ rotate.hand = table.hand /\ rotate.bound = c.bound /\ rotate.lobby = c.lobby
    BY <1>1 DEF Conns, Stages
  <2> HIDE DEF rotate
  <2>3. /\ rotate.at \in Busy
        /\ rotate.hand <= table'.hand /\ rotate.bound <= table'.hand
        /\ rotate.lobby \in {TRUE, conns[w].lobby}
        /\ rotate.at = "lobby" => rotate.lobby = TRUE
    BY <1>1, <2>2, StageSets
  <2>4. Proceeds(w) /\ conns'[w] = rotate
    BY <1>1, <1>2, <2>1, <2>2, <2>3, ProceedsAs
  <2> QED BY <1>1, <2>2, <2>4 DEF BindsRightly, Bound
<1>4. CASE conns' = [conns EXCEPT ![w].at = "lobby", ![w].lobby = TRUE]
  <2>1. conns' = [conns EXCEPT ![w] = lobby]
    BY <1>1, <1>4 DEF ConnsOK
  <2>2. /\ lobby \in Conns /\ lobby.at = "lobby" /\ lobby.guest = c.guest
        /\ lobby.hand = c.hand /\ lobby.bound = c.bound /\ lobby.lobby = TRUE
    BY <1>1 DEF Conns, Stages
  <2> HIDE DEF lobby
  <2>3. /\ lobby.at \in Busy
        /\ lobby.hand <= table'.hand /\ lobby.bound <= table'.hand
        /\ lobby.lobby \in {TRUE, conns[w].lobby}
        /\ lobby.at = "lobby" => lobby.lobby = TRUE
    BY <1>1, <2>2, StageSets DEF ConnsOK
  <2>4. Proceeds(w) /\ conns'[w] = lobby
    BY <1>1, <1>2, <2>1, <2>2, <2>3, ProceedsAs
  <2> QED BY <1>1, <2>2, <2>4 DEF BindsRightly, Bound
<1>5. CASE Unwind(w)
  BY <1>1, <1>2, <1>5, UnwindProceeds DEF BindsRightly, Bound
<1> QED BY <1>3, <1>4, <1>5 DEF FindRoute

(* MoveRotate: so does a worker that rotates the credential it was shown. *)
LEMMA MoveRotate ==
  ASSUME TypeOK, HandsPast, NEW w \in Workers, Rotate(w)
  PROVE  Proceeds(w) /\ BindsRightly(w)
<1> DEFINE c == conns[w]
           next == [c EXCEPT !.at = "bind", !.token = 0, !.grant = drawn.tokens + 1]
<1>1. /\ c \in Conns /\ ConnsOK /\ c.at = "rotate" /\ drawn.tokens + 1 \in Nat /\ table.hand \in Nat
      /\ table'.hand = table.hand /\ c.hand <= table'.hand /\ c.bound <= table'.hand
  BY DEF Rotate, TypeOK, ConnsOK, Rest, TableStates, HandsPast, Unwind
<1>2. conns[w].at \in Owning
  BY <1>1, StageSets
<1>3. CASE conns' = [conns EXCEPT ![w].at = "bind", ![w].token = 0, ![w].grant = drawn.tokens + 1]
  <2>1. conns' = [conns EXCEPT ![w] = next]
    BY <1>1, <1>3 DEF ConnsOK
  <2>2. /\ next \in Conns /\ next.at = "bind" /\ next.guest = c.guest
        /\ next.hand = c.hand /\ next.bound = c.bound /\ next.lobby = c.lobby
    BY <1>1 DEF Conns, Stages
  <2> HIDE DEF next
  <2>3. /\ next.at \in Busy
        /\ next.hand <= table'.hand /\ next.bound <= table'.hand
        /\ next.lobby \in {TRUE, conns[w].lobby}
        /\ next.at = "lobby" => next.lobby = TRUE
    BY <1>1, <2>2, StageSets
  <2>4. Proceeds(w) /\ conns'[w] = next
    BY <1>1, <1>2, <2>1, <2>2, <2>3, ProceedsAs
  <2> QED BY <1>1, <2>2, <2>4 DEF BindsRightly, Bound
<1>4. CASE Unwind(w)
  BY <1>1, <1>2, <1>4, UnwindProceeds DEF BindsRightly, Bound
<1> QED BY <1>3, <1>4 DEF Rotate

(* MoveBind: a worker that is bound has its guest connected. *)
LEMMA MoveBind ==
  ASSUME TypeOK, HandsPast, NEW w \in Workers, BindGuest(w)
  PROVE  Proceeds(w) /\ BindsRightly(w)
<1> DEFINE c == conns[w]
           stage == IF c.grant = 0 THEN "grant" ELSE "welcome"
           next == [c EXCEPT !.at = stage, !.hand = 0, !.bound = c.hand]
<1>1. /\ c \in Conns /\ ConnsOK /\ c.at = "bind" /\ table.hand \in Nat
      /\ table'.hand = table.hand /\ c.hand <= table'.hand /\ c.bound <= table'.hand
  BY DEF BindGuest, TypeOK, ConnsOK, Rest, TableStates, HandsPast, Unwind
<1>2. conns[w].at \in Owning
  BY <1>1, StageSets
<1>3. CASE table' = [table EXCEPT !.connected = @ \cup {conns[w].guest}]
            /\ conns' = [conns EXCEPT ![w].at = IF conns[w].grant = 0 THEN "grant" ELSE "welcome",
                                 ![w].hand = 0, ![w].bound = conns[w].hand]
  <2>0. stage \in {"grant", "welcome"}
    OBVIOUS
  <2>1. conns' = [conns EXCEPT ![w] = next]
    BY <1>1, <1>3 DEF ConnsOK
  <2> HIDE DEF stage
  <2>2. /\ next \in Conns /\ next.at = stage /\ next.guest = c.guest
        /\ next.hand = 0 /\ next.bound = c.hand /\ next.lobby = c.lobby
    BY <1>1, <2>0 DEF Conns, Stages
  <2> HIDE DEF next
  <2>3. /\ next.at \in Busy
        /\ next.hand <= table'.hand /\ next.bound <= table'.hand
        /\ next.lobby \in {TRUE, conns[w].lobby}
        /\ next.at = "lobby" => next.lobby = TRUE
    BY <1>1, <2>2, <2>0, StageSets
  <2>4. Proceeds(w) /\ conns'[w] = next
    BY <1>1, <1>2, <2>1, <2>2, <2>3, ProceedsAs
  <2>5. c.guest \in table'.connected
    BY <1>1, <1>3 DEF TypeOK, TableStates
  <2> QED BY <1>1, <2>2, <2>4, <2>5 DEF BindsRightly, Bound
<1>4. CASE Unwind(w)
  BY <1>1, <1>2, <1>4, UnwindProceeds DEF BindsRightly, Bound
<1> QED BY <1>3, <1>4 DEF BindGuest

(* MoveGrant: a guest without a credential gets one, or the connection ends. *)
LEMMA MoveGrant ==
  ASSUME TypeOK, HandsPast, NEW w \in Workers, Grant(w)
  PROVE  Proceeds(w) /\ BindsRightly(w)
<1> DEFINE c == conns[w]
           next == [c EXCEPT !.at = "welcome", !.grant = drawn.tokens + 1]
<1>1. /\ c \in Conns /\ ConnsOK /\ c.at = "grant" /\ drawn.tokens + 1 \in Nat /\ table.hand \in Nat
      /\ table'.hand = table.hand /\ c.hand <= table'.hand /\ c.bound <= table'.hand
  BY DEF Grant, TypeOK, ConnsOK, Rest, TableStates, HandsPast, Unwind
<1>2. conns[w].at \in Owning
  BY <1>1, StageSets
<1>3. CASE conns' = [conns EXCEPT ![w].at = "welcome", ![w].grant = drawn.tokens + 1]
  <2>1. conns' = [conns EXCEPT ![w] = next]
    BY <1>1, <1>3 DEF ConnsOK
  <2>2. /\ next \in Conns /\ next.at = "welcome" /\ next.guest = c.guest
        /\ next.hand = c.hand /\ next.bound = c.bound /\ next.lobby = c.lobby
    BY <1>1 DEF Conns, Stages
  <2> HIDE DEF next
  <2>3. /\ next.at \in Busy
        /\ next.hand <= table'.hand /\ next.bound <= table'.hand
        /\ next.lobby \in {TRUE, conns[w].lobby}
        /\ next.at = "lobby" => next.lobby = TRUE
    BY <1>1, <2>2, StageSets
  <2>4. Proceeds(w) /\ conns'[w] = next
    BY <1>1, <1>2, <2>1, <2>2, <2>3, ProceedsAs
  <2> QED BY <1>1, <2>2, <2>4 DEF BindsRightly, Bound
<1>4. CASE Unwind(w)
  BY <1>1, <1>2, <1>4, UnwindProceeds DEF BindsRightly, Bound
<1> QED BY <1>3, <1>4 DEF Grant

(* MoveWelcome: the welcome is sent, or the connection ends. *)
LEMMA MoveWelcome ==
  ASSUME TypeOK, HandsPast, NEW w \in Workers, WelcomeClient(w)
  PROVE  Proceeds(w) /\ BindsRightly(w)
<1> DEFINE c == conns[w]
           next == [c EXCEPT !.at = "bound", !.grant = 0]
<1>1. /\ c \in Conns /\ ConnsOK /\ c.at = "welcome" /\ table.hand \in Nat
      /\ table'.hand = table.hand /\ c.hand <= table'.hand /\ c.bound <= table'.hand
  BY DEF WelcomeClient, TypeOK, ConnsOK, Rest, TableStates, HandsPast, Unwind
<1>2. conns[w].at \in Owning
  BY <1>1, StageSets
<1>3. CASE conns' = [conns EXCEPT ![w].at = "bound", ![w].grant = 0]
  <2>1. conns' = [conns EXCEPT ![w] = next]
    BY <1>1, <1>3 DEF ConnsOK
  <2>2. /\ next \in Conns /\ next.at = "bound" /\ next.guest = c.guest
        /\ next.hand = c.hand /\ next.bound = c.bound /\ next.lobby = c.lobby
    BY <1>1 DEF Conns, Stages
  <2> HIDE DEF next
  <2>3. /\ next.at \in Busy
        /\ next.hand <= table'.hand /\ next.bound <= table'.hand
        /\ next.lobby \in {TRUE, conns[w].lobby}
        /\ next.at = "lobby" => next.lobby = TRUE
    BY <1>1, <2>2, StageSets
  <2>4. Proceeds(w) /\ conns'[w] = next
    BY <1>1, <1>2, <2>1, <2>2, <2>3, ProceedsAs
  <2> QED BY <1>1, <2>2, <2>4 DEF BindsRightly, Bound
<1>4. CASE Unwind(w)
  BY <1>1, <1>2, <1>4, UnwindProceeds DEF BindsRightly, Bound
<1> QED BY <1>3, <1>4 DEF WelcomeClient

(* MoveClosed: a connection whose peer has gone is cleaned up. *)
LEMMA MoveClosed ==
  ASSUME TypeOK, HandsPast, NEW w \in Workers, PeerClosed(w)
  PROVE  Proceeds(w) /\ BindsRightly(w)
<1> DEFINE c == conns[w]
<1>1. /\ c \in Conns /\ ConnsOK /\ c.at \in {"lobby", "bound"} /\ table.hand \in Nat
      /\ table'.hand = table.hand /\ c.hand <= table'.hand /\ c.bound <= table'.hand
  BY DEF PeerClosed, TypeOK, ConnsOK, Rest, TableStates, HandsPast, Unwind
<1>2. conns[w].at \in Owning
  BY <1>1, StageSets
<1>3. CASE Unwind(w)
  BY <1>1, <1>2, <1>3, UnwindProceeds DEF BindsRightly, Bound
<1> QED BY <1>3 DEF PeerClosed

(* MoveStatus: a seated guest goes from the lobby to its table. *)
LEMMA MoveStatus ==
  ASSUME TypeOK, HandsPast, NEW w \in Workers, RequestStatus(w)
  PROVE  Proceeds(w) /\ BindsRightly(w)
<1> DEFINE c == conns[w]
           next == [c EXCEPT !.at = "bind", !.hand = table.hand]
<1>1. /\ c \in Conns /\ ConnsOK /\ c.at = "lobby" /\ table.hand \in Nat
      /\ table'.hand = table.hand /\ c.hand <= table'.hand /\ c.bound <= table'.hand
  BY DEF RequestStatus, TypeOK, ConnsOK, Rest, TableStates, HandsPast, Unwind, InLobby
<1>2. conns[w].at \in Owning
  BY <1>1, StageSets
<1>3. CASE conns' = [conns EXCEPT ![w].at = "bind", ![w].hand = table.hand]
  <2>1. conns' = [conns EXCEPT ![w] = next]
    BY <1>1, <1>3 DEF ConnsOK
  <2>2. /\ next \in Conns /\ next.at = "bind" /\ next.guest = c.guest
        /\ next.hand = table.hand /\ next.bound = c.bound /\ next.lobby = c.lobby
    BY <1>1 DEF Conns, Stages
  <2> HIDE DEF next
  <2>3. /\ next.at \in Busy
        /\ next.hand <= table'.hand /\ next.bound <= table'.hand
        /\ next.lobby \in {TRUE, conns[w].lobby}
        /\ next.at = "lobby" => next.lobby = TRUE
    BY <1>1, <2>2, StageSets
  <2>4. Proceeds(w) /\ conns'[w] = next
    BY <1>1, <1>2, <2>1, <2>2, <2>3, ProceedsAs
  <2> QED BY <1>1, <2>2, <2>4 DEF BindsRightly, Bound
<1> QED BY <1>3 DEF RequestStatus

(* MoveCancel: a guest that cancels stays in the lobby until it closes. *)
LEMMA MoveCancel ==
  ASSUME TypeOK, HandsPast, NEW w \in Workers, RequestCancel(w)
  PROVE  Proceeds(w) /\ BindsRightly(w)
<1> DEFINE c == conns[w]
           next == [c EXCEPT !.peer = "none"]
<1>1. /\ c \in Conns /\ ConnsOK /\ c.at = "lobby" /\ table.hand \in Nat
      /\ table'.hand = table.hand /\ c.hand <= table'.hand /\ c.bound <= table'.hand
  BY DEF RequestCancel, TypeOK, ConnsOK, Rest, TableStates, HandsPast, Unwind, InLobby
<1>2. conns[w].at \in Owning
  BY <1>1, StageSets
<1>3. CASE conns' = [conns EXCEPT ![w].peer = "none"]
  <2>1. conns' = [conns EXCEPT ![w] = next]
    BY <1>1, <1>3 DEF ConnsOK
  <2>2. /\ next \in Conns /\ next.at = "lobby" /\ next.guest = c.guest
        /\ next.hand = c.hand /\ next.bound = c.bound /\ next.lobby = c.lobby
    BY <1>1 DEF Conns, Stages
  <2> HIDE DEF next
  <2>3. /\ next.at \in Busy
        /\ next.hand <= table'.hand /\ next.bound <= table'.hand
        /\ next.lobby \in {TRUE, conns[w].lobby}
        /\ next.at = "lobby" => next.lobby = TRUE
    BY <1>1, <2>2, StageSets DEF ConnsOK
  <2>4. Proceeds(w) /\ conns'[w] = next
    BY <1>1, <1>2, <2>1, <2>2, <2>3, ProceedsAs
  <2> QED BY <1>1, <2>2, <2>4 DEF BindsRightly, Bound
<1>4. CASE conns' = conns
  <2>1. ConnsOK' /\ c.at \in Busy
    BY <1>1, <1>4, StageSets DEF ConnsOK
  <2> QED BY <1>1, <1>2, <1>4, <2>1 DEF Proceeds, BindsRightly, Bound
<1> QED BY <1>3, <1>4 DEF RequestCancel

(* MoveLimited: a guest that asks too often is cleaned up. *)
LEMMA MoveLimited ==
  ASSUME TypeOK, HandsPast, NEW w \in Workers, RateLimited(w)
  PROVE  Proceeds(w) /\ BindsRightly(w)
<1> DEFINE c == conns[w]
<1>1. /\ c \in Conns /\ ConnsOK /\ c.at = "lobby" /\ table.hand \in Nat
      /\ table'.hand = table.hand /\ c.hand <= table'.hand /\ c.bound <= table'.hand
  BY DEF RateLimited, TypeOK, ConnsOK, Rest, TableStates, HandsPast, Unwind, InLobby
<1>2. conns[w].at \in Owning
  BY <1>1, StageSets
<1>3. CASE Unwind(w)
  BY <1>1, <1>2, <1>3, UnwindProceeds DEF BindsRightly, Bound
<1> QED BY <1>3 DEF RateLimited

(* MoveJoin: a guest that joins waits in the lobby or goes to its table. *)
LEMMA MoveJoin ==
  ASSUME TypeOK, HandsPast, NEW w \in Workers, RequestJoin(w)
  PROVE  Proceeds(w) /\ BindsRightly(w)
<1> DEFINE c == conns[w]
           next == [c EXCEPT !.at = "bind", !.hand = table'.hand]
<1>1. /\ c \in Conns /\ ConnsOK /\ c.at = "lobby" /\ table'.hand \in Nat
      /\ c.hand <= table'.hand /\ c.bound <= table'.hand
  <2>1. /\ c \in Conns /\ ConnsOK /\ c.at = "lobby" /\ c.guest \in Guests
        /\ c.hand <= table.hand /\ c.bound <= table.hand
        /\ table \in TableStates /\ table' = Started(table, Joined(c.guest)).table
    BY DEF RequestJoin, InLobby, TypeOK, ConnsOK, HandsPast
  <2>2. /\ table'.hand \in {table.hand, table.hand + 1}
        /\ table.hand \in Nat /\ c.hand \in Nat /\ c.bound \in Nat
    <3> DEFINE p == Joined(c.guest)
    <3>1. p \in [Guests -> Places]
      BY <2>1, JoinedType
    <3> HIDE DEF p
    <3>2. \/ Started(table, p).table = table
          \/ Started(table, p).table.hand = table.hand + 1
      BY <2>1, <3>1, StartedFacts
    <3> QED BY <2>1, <3>2 DEF p, TableStates, Conns
  <2> QED BY <2>1, <2>2
<1>2. conns[w].at \in Owning
  BY <1>1, StageSets
<1>3. CASE conns' = [conns EXCEPT ![w].at = "bind", ![w].hand = table'.hand]
  <2>1. conns' = [conns EXCEPT ![w] = next]
    BY <1>1, <1>3 DEF ConnsOK
  <2>2. /\ next \in Conns /\ next.at = "bind" /\ next.guest = c.guest
        /\ next.hand = table'.hand /\ next.bound = c.bound /\ next.lobby = c.lobby
    BY <1>1 DEF Conns, Stages
  <2> HIDE DEF next
  <2>3. /\ next.at \in Busy
        /\ next.hand <= table'.hand /\ next.bound <= table'.hand
        /\ next.lobby \in {TRUE, conns[w].lobby}
        /\ next.at = "lobby" => next.lobby = TRUE
    BY <1>1, <2>2, StageSets
  <2>4. Proceeds(w) /\ conns'[w] = next
    BY <1>1, <1>2, <2>1, <2>2, <2>3, ProceedsAs
  <2> QED BY <1>1, <2>2, <2>4 DEF BindsRightly, Bound
<1>4. CASE conns' = conns
  <2>1. ConnsOK' /\ c.at \in Busy
    BY <1>1, <1>4, StageSets DEF ConnsOK
  <2> QED BY <1>1, <1>2, <1>4, <2>1 DEF Proceeds, BindsRightly, Bound
<1> QED BY <1>3, <1>4 DEF RequestJoin

-----------------------------------------------------------------------------
(* The actions of the workers keep what the cleanup relies on. *)

(* The worker changed, the connected guests may be more, and the places are those
   of before. *)
Still == /\ table'.hand = table.hand /\ table'.phase = table.phase
         /\ table'.tour = table.tour /\ table'.open = table.open
         /\ table.connected \subseteq table'.connected
         /\ UNCHANGED <<place, active, restored, file>>

(* ProceedsKeeps: a worker that proceeds owns its guest as before and attends to
   what it attended to. *)
LEMMA ProceedsKeeps ==
  ASSUME TypeOK, Kept, NEW w \in Workers, Proceeds(w), UNCHANGED active,
         table.hand <= table'.hand, table'.hand \in Nat
  PROVE  /\ OwnersActive' /\ OwnersDistinct' /\ HandsPast'
         /\ \A g \in Guests : Attended(g) => Attended(g)'
<1>1. \A x \in Workers : conns[x] \in Conns /\ conns'[x] \in Conns
  BY DEF TypeOK, ConnsOK, Proceeds
<1>2. \A x \in Workers : /\ conns'[x].at \in Owning <=> conns[x].at \in Owning
                         /\ conns'[x].guest = conns[x].guest
  BY StageSets DEF Proceeds
<1>3. OwnersActive' /\ OwnersDistinct'
  BY <1>2 DEF Kept, OwnersActive, OwnersDistinct
<1>4. HandsPast'
  <2>1. \A x \in Workers : conns[x].hand <= table.hand /\ conns[x].bound <= table.hand
    BY DEF Kept, HandsPast
  <2>2. table.hand \in Nat /\ \A x \in Workers : conns[x].hand \in Nat /\ conns[x].bound \in Nat
    BY <1>1 DEF TypeOK, TableStates, Conns
  <2>3. ASSUME NEW x \in Workers
        PROVE  conns'[x].hand <= table'.hand /\ conns'[x].bound <= table'.hand
    <3>1. CASE x = w
      BY <3>1 DEF Proceeds
    <3>2. CASE x # w
      BY <2>1, <2>2, <3>2 DEF Proceeds
    <3> QED BY <3>1, <3>2
  <2> QED BY <2>3 DEF HandsPast
<1>5. ASSUME NEW g \in Guests, NEW x \in Workers, Attends(x, g)
      PROVE  Attends(x, g)'
  <2>1. CASE x = w
    BY <1>1, <1>5, <2>1, StageSets DEF Attends, Proceeds, Conns
  <2>2. CASE x # w
    BY <1>5, <2>2 DEF Attends, Proceeds
  <2> QED BY <2>1, <2>2
<1> QED BY <1>3, <1>4, <1>5 DEF Attended

(* WorkerKeeps: a step of one worker that leaves the table and the places alone. *)
LEMMA WorkerKeeps ==
  ASSUME TypeOK, Kept, NEW w \in Workers, Proceeds(w), BindsRightly(w), Still
  PROVE  Kept'
<1>1. table.hand \in Nat /\ table.hand <= table'.hand /\ table'.hand \in Nat
  BY DEF TypeOK, TableStates, Still
<1>2. /\ OwnersActive' /\ OwnersDistinct' /\ HandsPast'
      /\ \A g \in Guests : Attended(g) => Attended(g)'
  BY <1>1, ProceedsKeeps DEF Still
<1>3. BoundConnected'
  <2>1. SUFFICES ASSUME NEW x \in Workers, conns'[x].at \in Bound, Answers(conns[x].bound)'
                 PROVE  conns'[x].guest \in table'.connected
    BY DEF BoundConnected
  <2>2. \A h : Answers(h)' <=> Answers(h)
    BY DEF Answers, Still
  <2>3. CASE x = w
    BY <2>1, <2>2, <2>3 DEF Proceeds, BindsRightly, Kept, BoundConnected, Answers, Still
  <2>4. CASE x # w
    BY <2>1, <2>2, <2>4 DEF Proceeds, Kept, BoundConnected, Answers, Still
  <2> QED BY <2>3, <2>4
<1>4. RegistrationsOpen(table, place)' /\ OpenIdle' /\ FileClean'
  BY DEF Kept, RegistrationsOpen, OpenIdle, FileClean, Still
<1>5. PlacesAttended'
  BY <1>2 DEF Kept, PlacesAttended, Still
<1> QED BY <1>2, <1>3, <1>4, <1>5 DEF Kept

(* JoinKeeps: a join request takes a place only for the guest of the worker that
   is in the lobby for it; a hand that is dealt binds nobody yet. *)
LEMMA JoinKeeps ==
  ASSUME TypeOK, Kept, NEW w \in Workers, RequestJoin(w)
  PROVE  Kept'
<1> PICK g \in Guests : g = conns[w].guest
  BY DEF RequestJoin, InLobby, TypeOK, ConnsOK
<1> DEFINE p == Joined(g)
           s == Started(table, p)
<1>1. /\ g = conns[w].guest /\ conns[w].at = "lobby" /\ conns[w].lobby = TRUE /\ conns[w] \in Conns
      /\ table' = s.table /\ place' = s.place /\ UNCHANGED <<active, restored, file>>
      /\ table \in TableStates /\ table.hand \in Nat
  BY DEF RequestJoin, InLobby, TypeOK, ConnsOK, TableStates
<1>2. p \in [Guests -> Places]
  BY JoinedType
<1> HIDE DEF p
<1>3. /\ table' \in TableStates /\ place' \in [Guests -> Places]
      /\ \/ table' = table /\ place' = p
         \/ /\ table'.hand = table.hand + 1 /\ table'.open = FALSE
            /\ \A h \in Guests : /\ place'[h] # "registered"
                                 /\ place'[h] = "waiting" => p[h] = "waiting"
  <2>1. /\ s.table \in TableStates /\ s.place \in [Guests -> Places]
        /\ \/ s.table = table /\ s.place = p
           \/ /\ s.table.hand = table.hand + 1 /\ s.table.open = FALSE
              /\ \A h \in Guests : /\ s.place[h] # "registered"
                                   /\ s.place[h] = "waiting" => p[h] = "waiting"
    BY <1>1, <1>2, StartedFacts
  <2> HIDE DEF s
  <2> QED BY <1>1, <2>1
<1>4. Proceeds(w) /\ BindsRightly(w)
  BY MoveJoin DEF Kept
<1>5. table.hand <= table'.hand /\ table'.hand \in Nat
  BY <1>1, <1>3
<1>6. /\ OwnersActive' /\ OwnersDistinct' /\ HandsPast'
      /\ \A h \in Guests : Attended(h) => Attended(h)'
  BY <1>1, <1>4, <1>5, ProceedsKeeps
<1>7. Attended(g)'
  <2>1. Attends(w, g)
    BY <1>1, StageSets DEF Attends
  <2> QED BY <1>1, <1>6, <2>1 DEF Attended
<1>8. PlacesAttended'
  <2>1. SUFFICES ASSUME NEW h \in Guests
                 PROVE  /\ place'[h] = "waiting" => Attended(h)'
                        /\ place'[h] = "registered" => Attended(h)' \/ h \in restored'
    BY DEF PlacesAttended
  <2>2. CASE h = g
    BY <1>7, <2>2
  <2>3. CASE h # g
    <3>1. p[h] = place[h]
      BY <2>3, JoinedType DEF p
    <3> QED BY <1>1, <1>3, <1>6, <3>1 DEF Kept, PlacesAttended
  <2> QED BY <2>2, <2>3
<1>9. RegistrationsOpen(table, place)' /\ OpenIdle' /\ FileClean'
  <2>1. RegistrationsOpen(table, p)
    BY JoinedType DEF p, Kept, RegistrationsOpen
  <2> QED BY <1>1, <1>3, <2>1 DEF Kept, RegistrationsOpen, OpenIdle, FileClean
<1>10. BoundConnected'
  <2>1. SUFFICES ASSUME NEW x \in Workers, conns'[x].at \in Bound, Answers(conns[x].bound)'
                 PROVE  conns'[x].guest \in table'.connected
    BY DEF BoundConnected
  <2>2. \/ conns'[x].guest \in table'.connected
        \/ conns[x].at \in Bound /\ conns'[x] = conns[x]
    <3>1. CASE x = w
      BY <1>1, <1>4, <2>1, <3>1 DEF Proceeds, BindsRightly, Bound
    <3>2. CASE x # w
      BY <1>4, <2>1, <3>2 DEF Proceeds
    <3> QED BY <3>1, <3>2
  <2>3. conns[x].bound <= table.hand /\ conns[x].bound \in Nat
    BY DEF Kept, HandsPast, TypeOK, ConnsOK, Conns
  <2> QED BY <1>1, <1>3, <2>1, <2>2, <2>3 DEF Kept, BoundConnected, Answers
<1> QED BY <1>6, <1>8, <1>9, <1>10 DEF Kept

(* RouteStep, RotateStep, ...: the steps of a worker that is neither in the lobby
   nor cleaning up. *)
LEMMA RouteStep ==
  ASSUME TypeOK, Kept, NEW w \in Workers,
         FindRoute(w) \/ PeerClosed(w) \/ RequestStatus(w) \/ RateLimited(w)
  PROVE  TypeOK' /\ Kept'
<1>1. Proceeds(w) /\ BindsRightly(w)
  BY MoveRoute, MoveClosed, MoveStatus, MoveLimited DEF Kept
<1>2. Still /\ UNCHANGED <<table, place, vault, drawn, active, held, restored, file, opened>>
  BY DEF Still, FindRoute, PeerClosed, RequestStatus, RateLimited, Rest
<1>3. Kept'
  BY <1>1, <1>2, WorkerKeeps
<1>4. TypeOK'
  BY <1>1, <1>2 DEF TypeOK, Proceeds
<1> QED BY <1>3, <1>4

(* RotateStep: a rotation spends one credential and draws another. *)
LEMMA RotateStep ==
  ASSUME TypeOK, Kept, NEW w \in Workers, Rotate(w)
  PROVE  TypeOK' /\ Kept'
<1> DEFINE t == conns[w].token
<1>1. Proceeds(w) /\ BindsRightly(w)
  BY MoveRotate DEF Kept
<1>2. UNCHANGED <<table, place, active, held, restored, file>>
  BY DEF Rotate, Rest
<1>3. Kept'
  <2>1. Still
    BY <1>2 DEF Still
  <2> QED BY <1>1, <2>1, WorkerKeeps
<1>4. /\ vault' \subseteq Entries /\ drawn' \in [guests : Nat, tokens : Nat]
      /\ opened' \in Seq(Nat)
  <2>1. CASE UNCHANGED <<vault, drawn, opened>>
    BY <2>1 DEF TypeOK
  <2>2. CASE /\ t \in TokensOf(vault) /\ vault' = Issued(Spent(t), OwnerOf(t))
             /\ Draw /\ opened' = Append(opened, t)
    <3>1. OwnerOf(t) \in Guests /\ Spent(t) \in SUBSET vault
      BY <2>2, OwnerOfType DEF Spent
    <3>2. vault' \subseteq Entries
      BY <2>2, <3>1, IssuedType
    <3>3. drawn' \in [guests : Nat, tokens : Nat]
      BY <2>2 DEF Draw, TypeOK
    <3>4. t \in Nat
      BY DEF TypeOK, ConnsOK, Conns
    <3> HIDE DEF t
    <3>5. opened' \in Seq(Nat)
      BY <2>2, <3>4 DEF TypeOK
    <3> QED BY <3>2, <3>3, <3>5
  <2> QED BY <2>1, <2>2 DEF Rotate, Rest
<1>5. TypeOK'
  BY <1>1, <1>2, <1>4 DEF TypeOK, Proceeds
<1> QED BY <1>3, <1>5

(* BindStep: a guest that is bound is connected. *)
LEMMA BindStep ==
  ASSUME TypeOK, Kept, NEW w \in Workers, BindGuest(w)
  PROVE  TypeOK' /\ Kept'
<1>1. Proceeds(w) /\ BindsRightly(w)
  BY MoveBind DEF Kept
<1>2. UNCHANGED <<place, vault, drawn, active, held, restored, file, opened>>
  BY DEF BindGuest, Rest
<1>3. \/ table' = [table EXCEPT !.connected = @ \cup {conns[w].guest}]
      \/ table' = table
  BY DEF BindGuest, Rest
<1>4. conns[w].guest \in Guests
  BY DEF BindGuest, TypeOK, ConnsOK
<1>5. table' \in TableStates
  <2>1. table \in TableStates /\ table.connected \cup {conns[w].guest} \in SUBSET Guests
    BY <1>4 DEF TypeOK, TableStates
  <2> QED BY <1>3, <2>1 DEF TableStates
<1>6. Still
  BY <1>2, <1>3 DEF Still, TypeOK, TableStates
<1>7. TypeOK'
  BY <1>1, <1>2, <1>5 DEF TypeOK, Proceeds
<1> QED BY <1>1, <1>6, <1>7, WorkerKeeps

(* GrantStep: a guest without a credential is given one. *)
LEMMA GrantStep ==
  ASSUME TypeOK, Kept, NEW w \in Workers, Grant(w)
  PROVE  TypeOK' /\ Kept'
<1> DEFINE g == conns[w].guest
<1>1. Proceeds(w) /\ BindsRightly(w)
  BY MoveGrant DEF Kept
<1>2. UNCHANGED <<table, place, active, held, restored, file, opened>>
  BY DEF Grant
<1>3. Still
  BY <1>2 DEF Still
<1>4. vault' \subseteq Entries /\ drawn' \in [guests : Nat, tokens : Nat]
  <2>1. g \in Guests /\ Revoked(vault, g) \in SUBSET vault
    BY DEF Grant, TypeOK, ConnsOK, Revoked
  <2>2. Issued(Revoked(vault, g), g) \subseteq Entries
    BY <2>1, IssuedType
  <2>3. drawn' = drawn \/ drawn' = [drawn EXCEPT !.tokens = @ + 1]
    BY DEF Grant, Draw
  <2> QED BY <2>1, <2>2, <2>3 DEF Grant, TypeOK
<1>5. TypeOK'
  BY <1>1, <1>2, <1>4 DEF TypeOK, Proceeds
<1> QED BY <1>1, <1>3, <1>5, WorkerKeeps

(* WelcomeStep: the client holds what it was granted. *)
LEMMA WelcomeStep ==
  ASSUME TypeOK, Kept, NEW w \in Workers, WelcomeClient(w)
  PROVE  TypeOK' /\ Kept'
<1>1. Proceeds(w) /\ BindsRightly(w)
  BY MoveWelcome DEF Kept
<1>2. UNCHANGED <<table, place, vault, drawn, active, restored, file, opened>>
  BY DEF WelcomeClient
<1>3. Still
  BY <1>2 DEF Still
<1>4. held' \in [Clients -> Nat]
  <2>1. conns[w].grant \in Nat
    BY DEF TypeOK, ConnsOK, Conns
  <2> QED BY <2>1 DEF WelcomeClient, TypeOK
<1>5. TypeOK'
  BY <1>1, <1>2, <1>4 DEF TypeOK, Proceeds
<1> QED BY <1>1, <1>3, <1>5, WorkerKeeps

(* JoinStep: the same of a join request. *)
LEMMA JoinStep ==
  ASSUME TypeOK, Kept, NEW w \in Workers, RequestJoin(w)
  PROVE  TypeOK' /\ Kept'
<1>1. Proceeds(w)
  BY MoveJoin DEF Kept
<1>2. table' \in TableStates /\ place' \in [Guests -> Places]
  <2>1. conns[w].guest \in Guests /\ table \in TableStates
    BY DEF RequestJoin, InLobby, TypeOK, ConnsOK
  <2>2. Joined(conns[w].guest) \in [Guests -> Places]
    BY <2>1, JoinedType
  <2>3. LET s == Started(table, Joined(conns[w].guest)) IN
        s.table \in TableStates /\ s.place \in [Guests -> Places]
    BY <2>1, <2>2, StartedFacts
  <2> QED BY <2>3 DEF RequestJoin
<1>3. UNCHANGED <<vault, drawn, active, held, restored, file, opened>>
  BY DEF RequestJoin
<1>4. TypeOK'
  BY <1>1, <1>2, <1>3 DEF TypeOK, Proceeds
<1> QED BY <1>4, JoinKeeps

(* CancelStep: a place that is given up was that of the worker's guest. *)
LEMMA CancelStep ==
  ASSUME TypeOK, Kept, NEW w \in Workers, RequestCancel(w)
  PROVE  TypeOK' /\ Kept'
<1> PICK g \in Guests : g = conns[w].guest
  BY DEF RequestCancel, InLobby, TypeOK, ConnsOK
<1>1. Proceeds(w) /\ BindsRightly(w)
  BY MoveCancel DEF Kept
<1>2. /\ place' = Cancelled(g)
      /\ UNCHANGED <<table, vault, drawn, active, held, restored, file, opened>>
  BY DEF RequestCancel
<1>3. /\ place' \in [Guests -> Places]
      /\ \A h \in Guests : h # g => place'[h] = place[h]
      /\ place'[g] # "waiting"
      /\ place'[g] = "registered" => place[g] = "registered"
  BY <1>2, JoinedType
<1>4. TypeOK'
  BY <1>1, <1>2, <1>3 DEF TypeOK, Proceeds
<1>5. /\ OwnersActive' /\ OwnersDistinct' /\ HandsPast'
      /\ \A h \in Guests : Attended(h) => Attended(h)'
  BY <1>1, <1>2, ProceedsKeeps DEF TypeOK, TableStates
<1>6. PlacesAttended'
  <2>1. \A h \in Guests : /\ place'[h] = "waiting" => place[h] = "waiting"
                          /\ place'[h] = "registered" => place[h] = "registered"
    BY <1>3
  <2> QED BY <1>2, <1>5, <2>1 DEF Kept, PlacesAttended
<1>7. RegistrationsOpen(table, place)' /\ OpenIdle' /\ FileClean'
  BY <1>2, <1>3 DEF Kept, RegistrationsOpen, OpenIdle, FileClean
<1>8. BoundConnected'
  <2>1. \A x \in Workers : conns'[x].at \in Bound =>
          \/ /\ conns[x].at \in Bound /\ conns'[x].bound = conns[x].bound
             /\ conns'[x].guest = conns[x].guest
          \/ conns'[x].guest \in table'.connected
    BY <1>1 DEF Proceeds, BindsRightly
  <2> QED BY <1>2, <2>1 DEF Kept, BoundConnected, Answers
<1> QED BY <1>4, <1>5, <1>6, <1>7, <1>8 DEF Kept

(* OutsideStep: a worker that owns nobody, before and after. *)
LEMMA OutsideStep ==
  ASSUME TypeOK, Kept, NEW w \in Workers, NEW c \in Conns,
         conns[w].at \in {"idle", "admit"}, c.at \in {"idle", "admit"},
         c.at # "idle" => c.guest \in Guests,
         c.hand = 0, c.bound = 0, conns' = [conns EXCEPT ![w] = c],
         drawn' \in [guests : Nat, tokens : Nat], held' \in [Clients -> Nat],
         UNCHANGED <<table, place, vault, active, restored, file, opened>>
  PROVE  TypeOK' /\ Kept'
<1>1. /\ ConnsOK' /\ conns'[w] = c
      /\ \A x \in Workers : x # w => conns'[x] = conns[x]
  BY ConnsMove DEF TypeOK
<1>2. conns[w].at \notin Owning /\ conns'[w].at \notin Owning
  BY <1>1 DEF Owning
<1>3. TypeOK'
  BY <1>1 DEF TypeOK
<1>4. OwnersActive' /\ OwnersDistinct'
  BY <1>1, <1>2 DEF Kept, OwnersActive, OwnersDistinct
<1>5. HandsPast'
  <2>1. 0 <= table.hand
    BY DEF TypeOK, TableStates
  <2> QED BY <1>1, <2>1 DEF Kept, HandsPast
<1>6. BoundConnected'
  BY <1>1, <1>2, StageSets DEF Kept, BoundConnected, Answers
<1>7. RegistrationsOpen(table, place)' /\ OpenIdle' /\ FileClean'
  BY DEF Kept, RegistrationsOpen, OpenIdle, FileClean
<1>8. PlacesAttended'
  <2>1. \A x \in Workers, g \in Guests : Attends(x, g) => Attends(x, g)'
    BY <1>1, <1>2 DEF Attends
  <2> QED BY <2>1 DEF Kept, PlacesAttended, Attended
<1> QED BY <1>3, <1>4, <1>5, <1>6, <1>7, <1>8 DEF Kept

(* HelloStep: a connection begins, for a new guest or for a known one. *)
LEMMA HelloStep ==
  ASSUME TypeOK, Kept, NEW w \in Workers, NEW k \in Clients,
         ConnectAsNewGuest(w, k) \/ ConnectWithCredential(w, k)
  PROVE  TypeOK' /\ Kept'
<1>1. PICK guest \in Guests, t \in Nat :
        Hello(w, k, guest, t)
  <2>1. CASE ConnectAsNewGuest(w, k)
    <3>1. drawn.guests + 1 \in Guests
      BY <2>1, ConnectionsAssumption DEF ConnectAsNewGuest, TypeOK, Guests
    <3> QED BY <2>1, <3>1 DEF ConnectAsNewGuest
  <2>2. CASE ConnectWithCredential(w, k)
    <3>1. OwnerOf(held[k]) \in Guests /\ held[k] \in Nat
      BY <2>2, OwnerOfType DEF ConnectWithCredential, Identifies, TypeOK
    <3> QED BY <2>2, <3>1 DEF ConnectWithCredential
  <2> QED BY <2>1, <2>2
<1> DEFINE c == [Idle EXCEPT !.at = "admit", !.peer = k, !.guest = guest, !.token = t]
<1>2. /\ c \in Conns /\ c.at = "admit" /\ c.guest = guest /\ c.hand = 0 /\ c.bound = 0
  BY DEF Idle, Conns, Stages
<1>3. conns[w].at = "idle" /\ conns' = [conns EXCEPT ![w] = c]
  BY <1>1 DEF Hello, Idle
<1> HIDE DEF c
<1>4. /\ drawn' \in [guests : Nat, tokens : Nat] /\ held' \in [Clients -> Nat]
      /\ UNCHANGED <<table, place, vault, active, restored, file, opened>>
  BY SMTT(40) DEF ConnectAsNewGuest, ConnectWithCredential, Rest, TypeOK
<1> QED BY <1>2, <1>3, <1>4, OutsideStep

(* AdmitStep: a guest becomes active only when no worker owns it. *)
LEMMA AdmitStep ==
  ASSUME TypeOK, Kept, NEW w \in Workers, Admit(w)
  PROVE  TypeOK' /\ Kept'
<1> PICK g \in Guests : g = conns[w].guest
  BY DEF Admit, TypeOK, ConnsOK
<1>1. conns[w].at = "admit" /\ conns[w] \in Conns /\ ConnsOK
  BY DEF Admit, TypeOK, ConnsOK
<1>2. CASE Finish(w) /\ Rest
  <2>1. Idle \in Conns /\ Idle.at = "idle" /\ Idle.hand = 0 /\ Idle.bound = 0
    BY DEF Idle, Conns, Stages
  <2>2. /\ drawn' \in [guests : Nat, tokens : Nat] /\ held' \in [Clients -> Nat]
        /\ UNCHANGED <<table, place, vault, active, restored, file, opened>>
    BY <1>2 DEF Rest, TypeOK
  <2> QED BY <1>1, <1>2, <2>1, <2>2, OutsideStep DEF Finish
<1>3. CASE /\ g \notin active /\ active' = active \cup {g} /\ Go(w, "route")
           /\ UNCHANGED <<table, place, vault, drawn, held, restored, file, opened>>
  <2> DEFINE c == [conns[w] EXCEPT !.at = "route"]
  <2>1. /\ c \in Conns /\ c.at = "route" /\ c.guest = g
        /\ c.hand = conns[w].hand /\ c.bound = conns[w].bound
    BY <1>1 DEF Conns, Stages
  <2>2. conns' = [conns EXCEPT ![w] = c]
    BY <1>1, <1>3 DEF Go, ConnsOK
  <2> HIDE DEF c
  <2>3. /\ ConnsOK' /\ conns'[w] = c
        /\ \A x \in Workers : x # w => conns'[x] = conns[x]
    BY <1>1, <2>1, <2>2, ConnsMove
  <2>4. \A x \in Workers : x # w /\ conns'[x].at \in Owning => conns'[x].guest \in active
    BY <2>3 DEF Kept, OwnersActive
  <2>5. OwnersActive' /\ OwnersDistinct'
    <3>1. OwnersActive'
      BY <1>3, <2>1, <2>3, <2>4 DEF OwnersActive
    <3>2. ASSUME NEW x \in Workers, NEW y \in Workers,
                 conns'[x].at \in Owning, conns'[y].at \in Owning,
                 conns'[x].guest = conns'[y].guest
          PROVE  x = y
      <4>1. CASE x = w \/ y = w
        BY <1>3, <2>1, <2>3, <2>4, <3>2, <4>1
      <4>2. CASE x # w /\ y # w
        BY <2>3, <3>2, <4>2 DEF Kept, OwnersDistinct
      <4> QED BY <4>1, <4>2
    <3> QED BY <3>1, <3>2 DEF OwnersDistinct
  <2>6. HandsPast' /\ BoundConnected'
    BY <1>3, <2>1, <2>3 DEF Kept, HandsPast, BoundConnected, Bound, Answers
  <2>7. RegistrationsOpen(table, place)' /\ OpenIdle' /\ FileClean'
    BY <1>3 DEF Kept, RegistrationsOpen, OpenIdle, FileClean
  <2>8. PlacesAttended'
    <3>1. \A x \in Workers, h \in Guests : Attends(x, h) => Attends(x, h)'
      BY <1>1, <2>3, StageSets DEF Attends
    <3> QED BY <1>3, <3>1 DEF Kept, PlacesAttended, Attended
  <2>9. TypeOK'
    BY <1>3, <2>3 DEF TypeOK
  <2> QED BY <2>5, <2>6, <2>7, <2>8, <2>9 DEF Kept
<1> QED BY <1>2, <1>3 DEF Admit, Duplicate

(* DropStep: the cleanup of a connection disconnects and unseats a guest that no
   other worker owns. *)
LEMMA DropStep ==
  ASSUME TypeOK, Kept, NEW w \in Workers, DropGuards(w)
  PROVE  TypeOK' /\ Kept'
<1> PICK g \in Guests : g = conns[w].guest
  BY DEF DropGuards, TypeOK, ConnsOK
<1> DEFINE c == [Idle EXCEPT !.at = "leave", !.guest = g]
<1>1. /\ conns[w].at = "drop" /\ conns[w] \in Conns /\ ConnsOK
      /\ conns[w].lobby \in BOOLEAN
  BY DEF DropGuards, TypeOK, ConnsOK, Conns
<1>2. /\ c \in Conns /\ c.at = "leave" /\ c.guest = g
      /\ c.hand = 0 /\ c.bound = 0
  BY DEF Idle, Conns, Stages
<1>3. /\ conns' = [conns EXCEPT ![w] = c]
      /\ UNCHANGED <<vault, drawn, active, held, restored, file, opened>>
  BY DEF DropGuards
<1> HIDE DEF c
<1>4. /\ ConnsOK' /\ conns'[w] = c
      /\ \A x \in Workers : x # w => conns'[x] = conns[x]
  BY <1>1, <1>2, <1>3, ConnsMove
<1>5. /\ table' \in TableStates /\ table'.hand = table.hand /\ table'.phase = table.phase
      /\ table'.tour = table.tour /\ table'.open = table.open
      /\ \A h \in Guests : h # g => (h \in table'.connected <=> h \in table.connected)
  <2>1. table \in TableStates /\ table.connected \ {g} \in SUBSET Guests
    BY DEF TypeOK, TableStates
  <2>2. table' = table \/ table' = [table EXCEPT !.connected = @ \ {g}]
    BY DEF DropGuards
  <2> QED BY <2>1, <2>2 DEF TableStates
<1>6. /\ place' \in [Guests -> Places]
      /\ \A h \in Guests : h # g => place'[h] = place[h]
      /\ conns[w].lobby => /\ place'[g] # "waiting"
                           /\ place'[g] = "registered" => place[g] = "registered" /\ ~table.open
      /\ ~conns[w].lobby => place' = place
  <2>1. place' = IF conns[w].lobby THEN Cancelled(g) ELSE place
    BY DEF DropGuards
  <2> QED BY <2>1, JoinedType DEF TypeOK
<1>7. TypeOK'
  BY <1>3, <1>4, <1>5, <1>6 DEF TypeOK
<1>8. conns[w].at \in Owning /\ c.at \in Owning /\ c.at \notin Bound
  BY <1>1, <1>2 DEF Owning, Stages, Bound
<1>9. OwnersActive' /\ OwnersDistinct'
  <2>1. \A x \in Workers : /\ conns'[x].at \in Owning <=> conns[x].at \in Owning
                           /\ conns'[x].guest = conns[x].guest
    BY <1>2, <1>4, <1>8
  <2> QED BY <1>3, <2>1 DEF Kept, OwnersActive, OwnersDistinct
<1>10. HandsPast'
  <2>1. 0 <= table.hand
    BY DEF TypeOK, TableStates
  <2> QED BY <1>2, <1>4, <1>5, <2>1 DEF Kept, HandsPast
<1>11. BoundConnected'
  <2>1. SUFFICES ASSUME NEW x \in Workers, conns'[x].at \in Bound, Answers(conns[x].bound)'
                 PROVE  conns'[x].guest \in table'.connected
    BY DEF BoundConnected
  <2>2. x # w /\ conns'[x] = conns[x]
    BY <1>4, <1>8, <2>1
  <2>3. conns[x].guest # g /\ conns[x].guest \in Guests
    <3>1. conns[x].at \in Owning /\ conns[x].at # "idle"
      BY <2>1, <2>2, StageSets DEF Bound
    <3> QED BY <1>8, <2>2, <3>1 DEF Kept, OwnersDistinct, TypeOK, ConnsOK
  <2>4. Answers(conns[x].bound)
    BY <1>5, <2>1, <2>2 DEF Answers
  <2> QED BY <1>5, <2>1, <2>2, <2>3, <2>4 DEF Kept, BoundConnected
<1>12. RegistrationsOpen(table, place)' /\ OpenIdle' /\ FileClean'
  <2>1. \A h \in Guests : place'[h] = "registered" => place[h] = "registered"
    BY <1>1, <1>6
  <2> QED BY <1>3, <1>5, <2>1 DEF Kept, RegistrationsOpen, OpenIdle, FileClean
<1>13. PlacesAttended'
  <2>1. ASSUME NEW h \in Guests, h # g \/ ~conns[w].lobby, Attended(h)
        PROVE  Attended(h)'
    <3>1. PICK x \in Workers : Attends(x, h)
      BY <2>1 DEF Attended
    <3>2. x # w /\ conns'[x] = conns[x]
      BY <1>4, <2>1, <3>1 DEF Attends
    <3> QED BY <3>1, <3>2 DEF Attended, Attends
  <2>2. SUFFICES ASSUME NEW h \in Guests
                 PROVE  /\ place'[h] = "waiting" => Attended(h)'
                        /\ place'[h] = "registered" => Attended(h)' \/ h \in restored'
    BY DEF PlacesAttended
  <2>3. CASE h # g \/ ~conns[w].lobby
    <3>1. place'[h] = place[h]
      BY <1>6, <2>3
    <3> QED BY <1>3, <2>1, <2>3, <3>1 DEF Kept, PlacesAttended
  <2>4. CASE h = g /\ conns[w].lobby
    BY <1>6, <2>4 DEF Kept, RegistrationsOpen
  <2> QED BY <1>1, <2>3, <2>4
<1> QED BY <1>7, <1>9, <1>10, <1>11, <1>12, <1>13 DEF Kept

(* LeaveStep: only the last thing a worker does frees its guest for another
   connection; by then it attends to nothing. *)
LEMMA LeaveStep ==
  ASSUME TypeOK, Kept, NEW w \in Workers, LeaveActive(w)
  PROVE  TypeOK' /\ Kept'
<1> PICK g \in Guests : g = conns[w].guest
  BY DEF LeaveActive, TypeOK, ConnsOK
<1>1. /\ conns[w].at = "leave" /\ ConnsOK
      /\ active' = active \ {g} /\ conns' = [conns EXCEPT ![w] = Idle]
      /\ UNCHANGED <<table, place, vault, drawn, held, restored, file, opened>>
  BY DEF LeaveActive, TypeOK
<1>2. Idle \in Conns /\ Idle.at = "idle" /\ Idle.hand = 0 /\ Idle.bound = 0
  BY DEF Idle, Conns, Stages
<1>3. /\ ConnsOK' /\ conns'[w] = Idle
      /\ \A x \in Workers : x # w => conns'[x] = conns[x]
  BY <1>1, <1>2, ConnsMove
<1>4. conns[w].at \in Owning /\ "idle" \notin Owning /\ "idle" \notin Bound
  BY <1>1, StageSets DEF Owning, Bound
<1>5. TypeOK'
  BY <1>1, <1>3 DEF TypeOK
<1>6. ASSUME NEW x \in Workers, conns'[x].at \in Owning
      PROVE  x # w /\ conns'[x] = conns[x]
  BY <1>2, <1>3, <1>4, <1>6
<1>7. OwnersActive'
  BY <1>1, <1>4, <1>6 DEF Kept, OwnersActive, OwnersDistinct
<1>8. OwnersDistinct'
  BY <1>6 DEF Kept, OwnersDistinct
<1>9. HandsPast'
  <2>1. 0 <= table.hand
    BY DEF TypeOK, TableStates
  <2> QED BY <1>1, <1>2, <1>3, <2>1 DEF Kept, HandsPast
<1>10. BoundConnected'
  BY <1>1, <1>2, <1>3, <1>4 DEF Kept, BoundConnected, Answers
<1>11. RegistrationsOpen(table, place)' /\ OpenIdle' /\ FileClean'
  BY <1>1 DEF Kept, RegistrationsOpen, OpenIdle, FileClean
<1>12. PlacesAttended'
  <2>1. \A x \in Workers, h \in Guests : Attends(x, h) => Attends(x, h)'
    BY <1>1, <1>3 DEF Attends
  <2> QED BY <1>1, <2>1 DEF Kept, PlacesAttended, Attended
<1> QED BY <1>5, <1>7, <1>8, <1>9, <1>10, <1>11, <1>12 DEF Kept

(* LoseStep: a lost socket changes nothing that the worker has done. *)
LEMMA LoseStep ==
  ASSUME TypeOK, Kept, NEW k \in Clients, LoseSocket(k)
  PROVE  TypeOK' /\ Kept'
<1>1. UNCHANGED <<table, place, vault, drawn, active, held, restored, file, opened>>
  BY DEF LoseSocket, Rest
<1>2. ASSUME NEW w \in Workers
      PROVE  /\ conns'[w] \in Conns /\ conns'[w].at = conns[w].at
             /\ conns'[w].guest = conns[w].guest /\ conns'[w].hand = conns[w].hand
             /\ conns'[w].bound = conns[w].bound /\ conns'[w].lobby = conns[w].lobby
  <2>1. conns[w] \in Conns
    BY DEF TypeOK, ConnsOK
  <2>2. conns'[w] = conns[w] \/ conns'[w] = [conns[w] EXCEPT !.peer = "none"]
    BY DEF LoseSocket
  <2> QED BY <2>1, <2>2 DEF Conns
<1>3. conns' = [w \in Workers |-> conns'[w]]
  BY DEF LoseSocket
<1>4. ConnsOK'
  BY <1>2, <1>3 DEF TypeOK, ConnsOK
<1>5. TypeOK'
  BY <1>1, <1>4 DEF TypeOK
<1>6. OwnersActive' /\ OwnersDistinct' /\ HandsPast'
  BY <1>1, <1>2 DEF Kept, OwnersActive, OwnersDistinct, HandsPast
<1>7. BoundConnected'
  BY <1>1, <1>2 DEF Kept, BoundConnected, Answers
<1>8. RegistrationsOpen(table, place)' /\ OpenIdle' /\ FileClean'
  BY <1>1 DEF Kept, RegistrationsOpen, OpenIdle, FileClean
<1>9. PlacesAttended'
  <2>1. \A x \in Workers, h \in Guests : Attends(x, h) => Attends(x, h)'
    BY <1>2 DEF Attends
  <2> QED BY <1>1, <2>1 DEF Kept, PlacesAttended, Attended
<1> QED BY <1>5, <1>6, <1>7, <1>8, <1>9 DEF Kept

(* ExpireStep: an expired credential concerns nobody who is connected. *)
LEMMA ExpireStep ==
  ASSUME TypeOK, Kept, ExpireCredential
  PROVE  TypeOK' /\ Kept'
<1>1. UNCHANGED <<table, place, drawn, active, conns, held, restored, file, opened>>
  BY DEF ExpireCredential
<1>2. TypeOK'
  <2>1. vault' \subseteq Entries
    BY DEF ExpireCredential, TypeOK
  <2> QED BY <1>1, <2>1 DEF TypeOK, ConnsOK
<1>3. Kept'
  BY <1>1 DEF Kept, OwnersActive, OwnersDistinct, HandsPast, BoundConnected, Answers,
     RegistrationsOpen, OpenIdle, FileClean, PlacesAttended, Attended, Attends
<1> QED BY <1>2, <1>3

(* TableMoves: the table takes a step of its own: a worker that is bound to the
   hand in play stays so, and no place is taken. *)
LEMMA TableMoves ==
  ASSUME TypeOK, Kept, table' \in TableStates, place' \in [Guests -> Places],
         UNCHANGED <<vault, drawn, active, conns, held, restored, opened>>,
         file' # NoFile => file'.table \in TableStates /\ file'.place \in [Guests -> Places]
                           /\ file'.vault \subseteq Entries,
         \/ table'.hand = table.hand + 1
         \/ table'.hand = table.hand /\ table'.phase \in {"none", "break"}
         \/ table'.hand = table.hand /\ table'.phase = "terminal" /\ table.phase = "live"
            /\ table'.connected = table.connected,
         \A g \in Guests : place'[g] = "waiting" => place[g] = "waiting",
         \A g \in Guests : place'[g] = "registered" => place[g] = "registered",
         RegistrationsOpen(table, place)', OpenIdle', FileClean'
  PROVE  TypeOK' /\ Kept'
<1>1. TypeOK'
  BY DEF TypeOK, ConnsOK
<1>2. OwnersActive' /\ OwnersDistinct'
  BY DEF Kept, OwnersActive, OwnersDistinct
<1>3. table.hand \in Nat /\ \A w \in Workers : conns[w].hand \in Nat /\ conns[w].bound \in Nat
  BY DEF TypeOK, TableStates, ConnsOK, Conns
<1>4. HandsPast'
  BY <1>3 DEF Kept, HandsPast
<1>5. BoundConnected'
  <2>1. ASSUME NEW w \in Workers, Answers(conns[w].bound)'
        PROVE  Answers(conns[w].bound) /\ table'.connected = table.connected
    BY <1>3, <2>1 DEF Answers, Kept, HandsPast
  <2> QED BY <2>1 DEF Kept, BoundConnected
<1>6. PlacesAttended'
  <2>1. \A g \in Guests : Attended(g) => Attended(g)'
    BY DEF Attended, Attends
  <2> QED BY <2>1 DEF Kept, PlacesAttended
<1> QED BY <1>1, <1>2, <1>4, <1>5, <1>6 DEF Kept

(* EndStep: a hand that ends leaves its guests connected. *)
LEMMA EndStep ==
  ASSUME TypeOK, Kept, HandEnds
  PROVE  TypeOK' /\ Kept'
<1>1. /\ table' \in TableStates /\ table'.hand = table.hand /\ table'.phase = "terminal"
      /\ table'.tour = table.tour /\ table'.open = table.open
      /\ table'.connected = table.connected /\ table.phase = "live"
  BY DEF HandEnds, TypeOK, TableStates
<1>2. UNCHANGED <<place, vault, drawn, active, conns, held, restored, file, opened>>
  BY DEF HandEnds
<1>3. RegistrationsOpen(table, place)' /\ OpenIdle' /\ FileClean'
  BY <1>1, <1>2 DEF Kept, RegistrationsOpen, OpenIdle, FileClean
<1> QED BY <1>1, <1>2, <1>3, TableMoves DEF TypeOK

(* BreakStep: after a break a tournament deals its next hand. *)
LEMMA BreakStep ==
  ASSUME TypeOK, Kept, BreakEnds
  PROVE  TypeOK' /\ Kept'
<1> DEFINE t == [table EXCEPT !.phase = "none"]
<1>1. /\ t \in TableStates /\ t.hand = table.hand /\ t.phase = "none" /\ t.open = table.open
      /\ t.tour = table.tour /\ place \in [Guests -> Places] /\ table.open = FALSE
  BY DEF BreakEnds, TypeOK, TableStates, Kept, OpenIdle
<1>2. table' = Started(t, place).table
  BY DEF BreakEnds
<1> HIDE DEF t
<1>3. /\ table' \in TableStates
      /\ \/ table' = t
         \/ table'.hand = t.hand + 1 /\ table'.open = FALSE
  BY <1>1, <1>2, StartedFacts
<1>4. UNCHANGED <<place, vault, drawn, active, conns, held, restored, file, opened>>
  BY DEF BreakEnds
<1>5. RegistrationsOpen(table, place)' /\ OpenIdle' /\ FileClean'
  <2>1. \A g \in Guests : place[g] # "registered"
    BY <1>1 DEF Kept, RegistrationsOpen
  <2> QED BY <1>1, <1>3, <1>4, <2>1 DEF Kept, RegistrationsOpen, OpenIdle, FileClean
<1> QED BY <1>1, <1>3, <1>4, <1>5, TableMoves DEF TypeOK

(* SweepStep: the sweep after a hand seats from the queue and ends what is over;
   registrations are over by then. *)
LEMMA SweepStep ==
  ASSUME TypeOK, Kept, Sweep
  PROVE  TypeOK' /\ Kept'
<1> DEFINE idle == [table EXCEPT !.phase = "none", !.connected = {}]
<1>1. /\ idle \in TableStates /\ idle.hand = table.hand /\ idle.phase = "none"
      /\ idle.open = FALSE /\ table.open = FALSE
  BY DEF Sweep, TypeOK, TableStates, Kept, OpenIdle
<1>2. PICK kept \in SUBSET Guests :
        /\ place' = [g \in Guests |-> IF g \in kept THEN "seated"
                                      ELSE IF place[g] = "waiting" THEN "waiting" ELSE "none"]
        /\ \/ table' = Started(idle, place').table
           \/ table' = [idle EXCEPT !.phase = "break"]
        /\ file' = Checkpoint(table', place')
        /\ UNCHANGED <<vault, drawn, active, conns, held, restored, opened>>
  <2>1. PICK out \in SUBSET PlacedAs({"seated"}), queued \in SUBSET PlacedAs({"waiting"}) :
          LET seated == (PlacedAs({"seated"}) \ out) \cup queued
              over   == table.tour /\ Cardinality(seated) < 2
              kept   == IF over THEN {} ELSE seated
          IN  /\ place' = [g \in Guests |-> IF g \in kept THEN "seated"
                                      ELSE IF place[g] = "waiting" THEN "waiting" ELSE "none"]
              /\ \/ table' = Started(idle, place').table
                 \/ table' = [idle EXCEPT !.phase = "break"]
              /\ file' = Checkpoint(table', place')
    BY DEF Sweep
  <2> DEFINE seated == (PlacedAs({"seated"}) \ out) \cup queued
             kept   == IF table.tour /\ Cardinality(seated) < 2 THEN {} ELSE seated
  <2>2. kept \in SUBSET Guests
    BY DEF PlacedAs
  <2>3. UNCHANGED <<vault, drawn, active, conns, held, restored, opened>>
    BY DEF Sweep
  <2> QED BY <2>1, <2>2, <2>3
<1>3. /\ place' \in [Guests -> Places]
      /\ \A g \in Guests : /\ place'[g] # "registered"
                           /\ place'[g] = "waiting" => place[g] = "waiting"
  BY <1>2 DEF Places
<1>4. /\ table' \in TableStates /\ table'.open = FALSE
      /\ \/ table'.hand = table.hand + 1
         \/ table'.hand = table.hand /\ table'.phase \in {"none", "break"}
  <2>1. CASE table' = Started(idle, place').table
    <3> DEFINE q == place'
    <3>1. q \in [Guests -> Places]
      BY <1>3
    <3> HIDE DEF idle, q
    <3>2. /\ Started(idle, q).table \in TableStates
          /\ \/ Started(idle, q).table = idle
             \/ Started(idle, q).table.hand = idle.hand + 1 /\ Started(idle, q).table.open = FALSE
      BY <1>1, <3>1, StartedFacts
    <3> QED BY <1>1, <2>1, <3>2 DEF q
  <2>2. CASE table' = [idle EXCEPT !.phase = "break"]
    <3> HIDE DEF idle
    <3> QED BY <1>1, <2>2 DEF TableStates
  <2> QED BY <1>2, <2>1, <2>2
<1>5. /\ file'.table \in TableStates /\ file'.place \in [Guests -> Places]
      /\ file'.vault \subseteq Entries /\ file'.table.phase = "none"
      /\ \A g \in Guests : /\ file'.place[g] # "waiting"
                           /\ file'.place[g] = "registered" => place'[g] = "registered"
  <2>1. file' = [table |-> [table' EXCEPT !.phase = "none", !.connected = {}],
                 place |-> [g \in Guests |-> IF place'[g] = "waiting" THEN "none" ELSE place'[g]],
                 vault |-> vault]
    BY <1>2 DEF Checkpoint
  <2> QED BY <1>3, <1>4, <2>1 DEF TableStates, Places, TypeOK
<1>6. RegistrationsOpen(table, place)' /\ OpenIdle' /\ FileClean'
  BY <1>3, <1>4, <1>5 DEF RegistrationsOpen, OpenIdle, FileClean
<1> QED BY <1>2, <1>3, <1>4, <1>5, <1>6, TableMoves

(* RestartStep: a restart brings back what was saved; registrations have nobody
   to attend to them then, and are marked. *)
LEMMA RestartStep ==
  ASSUME TypeOK, Kept, NEW drained \in BOOLEAN, Restart(drained)
  PROVE  TypeOK' /\ Kept'
<1> DEFINE blank == [table |-> [table EXCEPT !.open = TRUE, !.phase = "none", !.connected = {}],
                     place |-> [g \in Guests |-> "none"], vault |-> {}]
           f == IF drained THEN Checkpoint(table, place)
                ELSE IF file = NoFile THEN blank ELSE file
           t == [f.table EXCEPT !.hand = table.hand]
           Sound(r) == /\ r.table \in TableStates /\ r.place \in [Guests -> Places]
                       /\ r.vault \subseteq Entries /\ r.table.phase = "none"
                       /\ RegistrationsOpen(r.table, r.place)
                       /\ \A g \in Guests : r.place[g] # "waiting"
<1>1. Sound(Checkpoint(table, place))
  <2>1. Checkpoint(table, place).table.phase = "none"
    BY DEF Checkpoint, TypeOK, TableStates
  <2> QED BY <2>1, CheckpointType DEF TypeOK, Kept, RegistrationsOpen
<1>2. Sound(blank)
  BY DEF TypeOK, TableStates, Places, RegistrationsOpen
<1>3. file # NoFile => Sound(file)
  BY DEF TypeOK, Kept, FileClean
<1>4. Sound(f)
  <2> HIDE DEF blank, Sound
  <2> QED BY <1>1, <1>2, <1>3
<1>5. /\ table' = Started(t, f.place).table /\ place' = Started(t, f.place).place
      /\ vault' = f.vault /\ file' = IF drained THEN f ELSE file
      /\ restored' = {g \in Guests : place'[g] = "registered"}
      /\ active' = {} /\ opened' = <<>>
      /\ conns' = [w \in Workers |-> Idle]
      /\ UNCHANGED <<drawn, held>>
  BY DEF Restart
<1>6. drained => f = Checkpoint(table, place)
  OBVIOUS
<1> HIDE DEF f
<1>7. /\ t \in TableStates /\ t.phase = "none" /\ t.open = f.table.open /\ t.tour = f.table.tour
  BY <1>4 DEF TypeOK, TableStates
<1> HIDE DEF t
<1>8. /\ table' \in TableStates /\ place' \in [Guests -> Places]
      /\ \/ table' = t /\ place' = f.place
         \/ /\ table'.hand = t.hand + 1 /\ table'.open = FALSE
            /\ \A g \in Guests : /\ place'[g] # "registered"
                                 /\ place'[g] = "waiting" => f.place[g] = "waiting"
  <2> DEFINE s == Started(t, f.place)
  <2>1. /\ s.table \in TableStates /\ s.place \in [Guests -> Places]
        /\ \/ s.table = t /\ s.place = f.place
           \/ /\ s.table.hand = t.hand + 1 /\ s.table.open = FALSE
              /\ \A g \in Guests : /\ s.place[g] # "registered"
                                   /\ s.place[g] = "waiting" => f.place[g] = "waiting"
    BY <1>4, <1>7, StartedFacts
  <2> HIDE DEF s
  <2>2. table' = s.table /\ place' = s.place
    BY <1>5 DEF s
  <2> QED BY <2>1, <2>2
<1>9. /\ Idle \in Conns /\ Idle.at = "idle" /\ Idle.hand = 0 /\ Idle.bound = 0
      /\ \A w \in Workers : conns'[w] = Idle
      /\ "idle" \notin Owning /\ "idle" \notin Bound
  BY <1>5 DEF Idle, Conns, Stages, Owning, Bound
<1>10. ConnsOK'
  BY <1>5, <1>9 DEF ConnsOK
<1>11. file' # NoFile => Sound(file')
  BY <1>3, <1>4, <1>5
<1>12. TypeOK'
  BY <1>4, <1>5, <1>8, <1>10, <1>11 DEF TypeOK
<1>13. OwnersActive' /\ OwnersDistinct' /\ BoundConnected'
  BY <1>9 DEF OwnersActive, OwnersDistinct, BoundConnected
<1>14. HandsPast'
  <2>1. 0 <= table'.hand
    BY <1>8 DEF TableStates
  <2> QED BY <1>9, <2>1 DEF HandsPast
<1>15. RegistrationsOpen(table, place)' /\ OpenIdle' /\ FileClean'
  BY <1>4, <1>7, <1>8, <1>11 DEF RegistrationsOpen, OpenIdle, FileClean
<1>16. PlacesAttended'
  BY <1>4, <1>5, <1>8 DEF PlacesAttended
<1> QED BY <1>12, <1>13, <1>14, <1>15, <1>16 DEF Kept

(* CleanupInit: the server starts with nobody to attend to. *)
LEMMA CleanupInit == NetworkInit => CleanupInv
<1> SUFFICES ASSUME NetworkInit PROVE CleanupInv
  OBVIOUS
<1>1. Idle \in Conns /\ Idle.at = "idle" /\ Idle.hand = 0 /\ Idle.bound = 0
  BY DEF Idle, Conns, Stages
<1>2. "idle" \notin Owning /\ "idle" \notin Bound
  BY DEF Owning, Bound
<1>3. table \in TableStates /\ table.phase = "none" /\ table.hand = 0
  BY DEF NetworkInit, TableStates
<1>4. \A w \in Workers : conns[w] = Idle
  BY DEF NetworkInit
<1>5. TypeOK
  <2>1. ConnsOK
    BY <1>1 DEF NetworkInit, ConnsOK
  <2> QED BY <1>3, <2>1 DEF NetworkInit, TypeOK, Places
<1>6. Kept
  BY <1>1, <1>2, <1>3, <1>4 DEF NetworkInit, Kept, OwnersActive, OwnersDistinct, HandsPast,
     BoundConnected, RegistrationsOpen, OpenIdle, FileClean, PlacesAttended
<1> QED BY <1>5, <1>6 DEF CleanupInv

(* CleanupStep: and is kept by every step. *)
LEMMA CleanupStep == CleanupInv /\ [NetworkNext]_vars => CleanupInv'
<1> SUFFICES ASSUME TypeOK, Kept, [NetworkNext]_vars PROVE TypeOK' /\ Kept'
  BY DEF CleanupInv
<1>1. ASSUME NEW w \in Workers, Work(w)
      PROVE  TypeOK' /\ Kept'
  BY <1>1, AdmitStep, RouteStep, RotateStep, BindStep, GrantStep, WelcomeStep, DropStep,
     LeaveStep DEF Work
<1>2. ASSUME NEW w \in Workers, LobbyWork(w)
      PROVE  TypeOK' /\ Kept'
  BY <1>2, JoinStep, RouteStep, CancelStep DEF LobbyWork
<1>3. CASE UNCHANGED vars
  <2>1. TypeOK'
    BY <1>3 DEF vars, TypeOK, ConnsOK
  <2>2. Kept'
    BY <1>3 DEF vars, Kept, OwnersActive, OwnersDistinct, HandsPast, BoundConnected, Answers,
       RegistrationsOpen, OpenIdle, FileClean, PlacesAttended, Attended, Attends
  <2> QED BY <2>1, <2>2
<1> QED BY <1>1, <1>2, <1>3, HelloStep, LoseStep, ExpireStep, EndStep, SweepStep, BreakStep,
           RestartStep DEF NetworkNext

(* CleanupExact: NetworkSpec => []CleanupIsExact.  While a worker is bound to the
   hand in play its guest is connected, whatever older connections of the guest
   still clean up; and no place in the queue, nor a registration made since the
   last restart, is left without a connection that will give it up. *)
THEOREM CleanupExact == NetworkSpec => []CleanupIsExact
<1>1. CleanupInv => CleanupIsExact
  <2> SUFFICES ASSUME CleanupInv PROVE CleanupIsExact
    OBVIOUS
  <2>1. \A w \in Workers :
          conns[w].at \in {"grant", "welcome", "bound"} /\ Answers(conns[w].bound)
            => conns[w].guest \in table.connected
    BY DEF CleanupInv, Kept, BoundConnected, Bound
  <2>2. \A g \in Guests : Attended(g) => g \in active
    BY DEF CleanupInv, Kept, OwnersActive, Attended, Attends
  <2> QED BY <2>1, <2>2 DEF CleanupInv, Kept, PlacesAttended, PlacedAs, CleanupIsExact
<1> QED BY <1>1, CleanupInit, CleanupStep, PTL DEF NetworkSpec, vars

-----------------------------------------------------------------------------
(* What credentials open. *)

(* LaterVault: fewer credentials, and more of them drawn. *)
LEMMA LaterVault ==
  ASSUME NEW v, VaultOK(v), v \subseteq Entries, NEW u \in SUBSET v,
         drawn.tokens \in Nat, drawn'.tokens \in Nat, drawn.tokens <= drawn'.tokens
  PROVE  /\ \A e \in u : e.token <= drawn'.tokens
         /\ \A e, f \in u : e.token = f.token \/ e.guest = f.guest => e = f
<1>1. \A e \in v : e.token \in Nat
  BY DEF Entries
<1> QED BY <1>1 DEF VaultOK

(* NewCredential: a credential that is issued to a guest with none is new, and so
   the vault goes on with one of a kind and one for a guest. *)
LEMMA NewCredential ==
  ASSUME TypeOK, VaultOK(vault), NEW u \in SUBSET vault, NEW g \in Guests,
         \A e \in u : e.guest # g, vault' = Issued(u, g), Draw
  PROVE  /\ drawn'.tokens = drawn.tokens + 1 /\ VaultOK(vault)'
         /\ TokensOf(vault)' = TokensOf(u) \cup {drawn.tokens + 1}
<1> DEFINE n == [token |-> drawn.tokens + 1, guest |-> g]
<1>1. drawn.tokens \in Nat /\ drawn'.tokens = drawn.tokens + 1
  BY DEF TypeOK, Draw
<1>2. vault' = u \cup {n}
  BY DEF Issued
<1>3. \A e \in u : e.token <= drawn.tokens /\ e.token \in Nat /\ e.guest # n.guest
  BY DEF VaultOK, TypeOK, Entries
<1>4. n.token = drawn.tokens + 1
  OBVIOUS
<1> HIDE DEF n
<1>5. \A e \in vault' : e.token <= drawn'.tokens
  BY <1>1, <1>2, <1>3, <1>4
<1>6. ASSUME NEW e \in vault', NEW f \in vault', e.token = f.token \/ e.guest = f.guest
      PROVE  e = f
  <2>1. CASE e \in u /\ f \in u
    BY <1>6, <2>1 DEF VaultOK
  <2>2. CASE e = n /\ f = n
    BY <2>2
  <2>3. CASE (e \in u /\ f = n) \/ (f \in u /\ e = n)
    BY <1>1, <1>3, <1>4, <1>6, <2>3
  <2> QED BY <1>2, <2>1, <2>2, <2>3
<1>7. TokensOf(vault)' = TokensOf(u) \cup {drawn.tokens + 1}
  BY <1>2, <1>4 DEF TokensOf
<1> QED BY <1>1, <1>5, <1>6, <1>7 DEF VaultOK

(* Credentials: one of a kind and one for a guest, in the vault and in the
   checkpoint, and one that was rotated is in the vault no more, nor will it be. *)
Credentials ==
  /\ VaultOK(vault)
  /\ file # NoFile => VaultOK(file.vault)
  /\ \A i \in DOMAIN opened : opened[i] <= drawn.tokens /\ opened[i] \notin TokensOf(vault)
  /\ \A i, j \in DOMAIN opened : opened[i] = opened[j] => i = j

(* FileLater: the checkpoint's credentials are still ones that were drawn. *)
LEMMA FileLater ==
  ASSUME TypeOK, Credentials, drawn'.tokens \in Nat, drawn.tokens <= drawn'.tokens,
         UNCHANGED file
  PROVE  (file # NoFile => VaultOK(file.vault))'
<1>1. CASE file # NoFile
  <2> DEFINE v == file.vault
  <2>1. VaultOK(v) /\ v \subseteq Entries /\ v \in SUBSET v /\ drawn.tokens \in Nat
    BY <1>1 DEF TypeOK, Credentials
  <2> HIDE DEF v
  <2>2. /\ \A e \in v : e.token <= drawn'.tokens
        /\ \A e, f \in v : e.token = f.token \/ e.guest = f.guest => e = f
    BY <2>1, LaterVault
  <2>3. v' = v
    BY DEF v
  <2> QED BY <2>2, <2>3 DEF v, VaultOK
<1> QED BY <1>1

(* VaultShrinks: credentials expire, are revoked, or stay as they are. *)
LEMMA VaultShrinks ==
  ASSUME TypeOK, TypeOK', Credentials, vault' \in SUBSET vault,
         drawn.tokens = drawn'.tokens, UNCHANGED <<file, opened>>
  PROVE  Credentials'
<1>1. drawn.tokens \in Nat /\ drawn'.tokens \in Nat /\ drawn.tokens <= drawn'.tokens
  BY DEF TypeOK
<1>2. VaultOK(vault)'
  BY <1>1, LaterVault DEF Credentials, VaultOK, TypeOK
<1>3. (file # NoFile => VaultOK(file.vault))'
  BY <1>1, FileLater
<1>4. TokensOf(vault)' \subseteq TokensOf(vault)
  BY DEF TokensOf
<1> QED BY <1>1, <1>2, <1>3, <1>4 DEF Credentials

(* RotateCredentials: the credential that opens a connection leaves the vault
   with it, and the one that replaces it was never there. *)
LEMMA RotateCredentials ==
  ASSUME TypeOK, TypeOK', Credentials, NEW w \in Workers, Rotate(w)
  PROVE  Credentials'
<1> PICK t \in Nat : t = conns[w].token
  BY DEF TypeOK, ConnsOK, Conns
<1>1. CASE UNCHANGED <<vault, drawn, opened, file>>
  BY <1>1, VaultShrinks
<1>2. CASE /\ t \in TokensOf(vault) /\ vault' = Issued(Spent(t), OwnerOf(t))
           /\ Draw /\ opened' = Append(opened, t) /\ UNCHANGED file
  <2>1. OwnerOf(t) \in Guests /\ Spent(t) \in SUBSET vault
    BY <1>2, OwnerOfType DEF Spent
  <2>2. \A e \in Spent(t) : e.guest # OwnerOf(t)
    BY <1>2, OwnerOfType DEF Spent, Credentials, VaultOK
  <2>3. /\ drawn'.tokens = drawn.tokens + 1 /\ VaultOK(vault)'
        /\ TokensOf(vault)' = TokensOf(Spent(t)) \cup {drawn.tokens + 1}
    BY <1>2, <2>1, <2>2, NewCredential DEF Credentials
  <2>4. drawn.tokens \in Nat
    BY DEF TypeOK
  <2>5. (file # NoFile => VaultOK(file.vault))'
    BY <1>2, <2>3, <2>4, FileLater
  <2>6. t <= drawn.tokens
    BY <1>2 DEF TokensOf, Credentials, VaultOK
  <2>7. t \notin TokensOf(vault)' /\ \A u : u \notin TokensOf(vault) /\ u # drawn.tokens + 1
                                             => u \notin TokensOf(vault)'
    BY <2>3, <2>4, <2>6 DEF TokensOf, Spent
  <2>8. \A i \in DOMAIN opened : opened[i] \in Nat /\ opened[i] <= drawn.tokens /\ opened[i] # t
    BY <1>2 DEF TypeOK, Credentials
  <2>9. /\ DOMAIN opened' = DOMAIN opened \cup {Len(opened) + 1}
        /\ opened'[Len(opened) + 1] = t
        /\ \A i \in DOMAIN opened : opened'[i] = opened[i]
    BY <1>2 DEF TypeOK
  <2>10. \A i \in DOMAIN opened' : opened'[i] <= drawn'.tokens /\ opened'[i] \notin TokensOf(vault)'
    BY <2>3, <2>4, <2>6, <2>7, <2>8, <2>9 DEF Credentials
  <2>11. \A i, j \in DOMAIN opened' : opened'[i] = opened'[j] => i = j
    BY <2>8, <2>9 DEF Credentials
  <2> QED BY <2>3, <2>5, <2>10, <2>11 DEF Credentials
<1> QED BY <1>1, <1>2 DEF Rotate, Rest

(* GrantCredentials: a guest that is given a credential has no other. *)
LEMMA GrantCredentials ==
  ASSUME TypeOK, TypeOK', Credentials, NEW w \in Workers, Grant(w)
  PROVE  Credentials'
<1> PICK g \in Guests : g = conns[w].guest
  BY DEF Grant, TypeOK, ConnsOK
<1>1. Revoked(vault, g) \in SUBSET vault /\ UNCHANGED <<file, opened>>
  BY DEF Revoked, Grant
<1>2. CASE vault' \in SUBSET vault /\ UNCHANGED drawn
  BY <1>1, <1>2, VaultShrinks
<1>3. CASE vault' = Issued(Revoked(vault, g), g) /\ Draw
  <2>1. \A e \in Revoked(vault, g) : e.guest # g
    BY DEF Revoked
  <2>2. /\ drawn'.tokens = drawn.tokens + 1 /\ VaultOK(vault)'
        /\ TokensOf(vault)' = TokensOf(Revoked(vault, g)) \cup {drawn.tokens + 1}
    BY <1>1, <1>3, <2>1, NewCredential DEF Credentials
  <2>3. drawn.tokens \in Nat
    BY DEF TypeOK
  <2>4. (file # NoFile => VaultOK(file.vault))'
    BY <1>1, <2>2, <2>3, FileLater
  <2>5. \A i \in DOMAIN opened : /\ opened[i] \in Nat /\ opened[i] <= drawn.tokens
                                 /\ opened[i] \notin TokensOf(vault)
    BY DEF TypeOK, Credentials
  <2>6. TokensOf(Revoked(vault, g)) \subseteq TokensOf(vault)
    BY DEF TokensOf, Revoked
  <2>7. \A i \in DOMAIN opened : opened[i] <= drawn'.tokens /\ opened[i] \notin TokensOf(vault)'
    BY <2>2, <2>3, <2>5, <2>6
  <2> QED BY <1>1, <2>2, <2>4, <2>7 DEF Credentials
<1> QED BY <1>1, <1>2, <1>3 DEF Grant

(* RestartCredentials: a restart forgets what was rotated, with the vault. *)
LEMMA RestartCredentials ==
  ASSUME TypeOK, Credentials, NEW drained \in BOOLEAN, Restart(drained)
  PROVE  Credentials'
<1>1. /\ UNCHANGED drawn /\ opened' = <<>>
      /\ \/ vault' = vault \/ vault' = {}
         \/ file # NoFile /\ vault' = file.vault
      /\ file' = file \/ file'.vault = vault
  BY DEF Restart, Checkpoint
<1>2. VaultOK({})
  BY DEF VaultOK
<1>3. VaultOK(vault)'
  BY <1>1, <1>2 DEF Credentials, VaultOK
<1>4. (file # NoFile => VaultOK(file.vault))'
  BY <1>1 DEF Credentials, VaultOK
<1>5. DOMAIN opened' = {}
  BY <1>1
<1> QED BY <1>3, <1>4, <1>5 DEF Credentials

(* CredentialStep: every other step leaves the vault alone. *)
LEMMA CredentialStep ==
  ASSUME TypeOK, TypeOK', Credentials, [NetworkNext]_vars
  PROVE  Credentials'
<1>1. CASE vault' \in SUBSET vault /\ drawn'.tokens = drawn.tokens /\ UNCHANGED <<file, opened>>
  BY <1>1, VaultShrinks
<1>2. CASE Sweep
  <2>1. UNCHANGED <<vault, drawn, opened>> /\ file'.vault = vault
    BY <1>2 DEF Sweep, Checkpoint
  <2> QED BY <2>1 DEF Credentials, VaultOK
<1>3. ASSUME NEW w \in Workers, NEW k \in Clients,
             ConnectAsNewGuest(w, k) \/ ConnectWithCredential(w, k)
      PROVE  Credentials'
  BY <1>1, <1>3 DEF ConnectAsNewGuest, ConnectWithCredential, Rest, TypeOK
<1>4. ASSUME NEW w \in Workers, Work(w)
      PROVE  Credentials'
  BY <1>1, <1>4, RotateCredentials, GrantCredentials
     DEF Work, Admit, FindRoute, BindGuest, WelcomeClient, PeerClosed, DropGuards, LeaveActive, Rest
<1>5. ASSUME NEW w \in Workers, LobbyWork(w)
      PROVE  Credentials'
  BY <1>1, <1>5 DEF LobbyWork, RequestJoin, RequestStatus, RequestCancel, RateLimited, Rest
<1>6. ASSUME NEW k \in Clients, LoseSocket(k)
      PROVE  Credentials'
  BY <1>1, <1>6 DEF LoseSocket, Rest
<1>7. CASE ExpireCredential \/ HandEnds \/ BreakEnds \/ UNCHANGED vars
  BY <1>1, <1>7 DEF ExpireCredential, HandEnds, BreakEnds, vars
<1> QED BY <1>2, <1>3, <1>4, <1>5, <1>6, <1>7, RestartCredentials DEF NetworkNext

(* CredentialsOpenOnce: NetworkSpec => []CredentialsSingleUse.  Since the server
   started no credential was rotated twice, however many workers were shown it,
   and no guest has two credentials in the vault. *)
THEOREM CredentialsOpenOnce == NetworkSpec => []CredentialsSingleUse
<1>1. NetworkInit => CleanupInv /\ Credentials
  <2> SUFFICES ASSUME NetworkInit PROVE Credentials
    BY CleanupInit
  <2> QED BY DEF NetworkInit, Credentials, VaultOK
<1>2. CleanupInv /\ Credentials /\ [NetworkNext]_vars => CleanupInv' /\ Credentials'
  BY CleanupStep, CredentialStep DEF CleanupInv
<1>3. Credentials => CredentialsSingleUse
  BY DEF Credentials, VaultOK, CredentialsSingleUse
<1> QED BY <1>1, <1>2, <1>3, PTL DEF NetworkSpec, vars

-----------------------------------------------------------------------------
(* The single-table server.  Of a connection the invariant needs whose it  *)
(* is, where its thread is, and the revision it is about to store.         *)
IsLink(l) ==
  {"owner", "phase", "rev", "first", "up", "down", "queue", "hung"} \subseteq DOMAIN l /\ l.first # ""
IsLinks(ls) == DOMAIN ls = LinkIds /\ \A k \in LinkIds : IsLink(ls[k])
SameThread(l, m) == l.owner = m.owner /\ l.phase = m.phase /\ l.rev = m.rev
SameThreads(ls, ms) == IsLinks(ms) /\ \A k \in LinkIds : SameThread(ms[k], ls[k])
IsRuntime(rt) ==
  /\ {"rev", "turn", "online", "subscriber"} \subseteq DOMAIN rt
  /\ DOMAIN rt.online = Seated /\ DOMAIN rt.subscriber = Seated

(* A session has one thread past admission, or none and is not active.     *)
Admits(l, s) == l.owner = s /\ l.phase \in Admitted
Exclusive(ls, act) ==
  \A s \in Sessions : /\ s \in act <=> \E k \in LinkIds : Admits(ls[k], s)
                      /\ \A j, k \in LinkIds : Admits(ls[j], s) /\ Admits(ls[k], s) => j = k

(* A thread that passed the reconnection serves a seat that is online, and *)
(* updates of a seat go to a thread that has yet to be cleaned up.         *)
Attached == {"online", "serving", "storing", "flagging"}
Present(ls, rt) ==
  \A k \in LinkIds : ls[k].phase \in Attached => ls[k].owner \in Seated /\ rt.online[ls[k].owner]
Fed(ls, rt) ==
  \A s \in Seated : rt.subscriber[s] # 0 =>
     /\ rt.online[s] /\ rt.subscriber[s] \in LinkIds /\ ls[rt.subscriber[s]].owner = s
     /\ ls[rt.subscriber[s]].phase \in {"serving", "storing", "flagging", "leaving"}

(* What is stored is the revision of the end of the hand.                  *)
Ending(ls, rt, main) ==
  /\ {"phase", "complete", "final"} \subseteq DOMAIN main
  /\ \A k \in LinkIds :
       /\ ls[k].phase \in {"storing", "flagging"} => Over(rt) /\ ls[k].rev = rt.rev
       /\ ls[k].phase = "flagging" => main.final = rt.rev
  /\ main.complete => Over(rt) /\ main.final = rt.rev
  /\ main.phase # "accepting" => main.complete

ServerInv ==
  /\ IsLinks(links) /\ IsRuntime(runtime) /\ Ending(links, runtime, mainThread)
  /\ Running => Exclusive(links, activeSessions) /\ Present(links, runtime) /\ Fed(links, runtime)

(* The server starts with nobody connected. *)
LEMMA ServerStarts == FixedInit => ServerInv
<1> SUFFICES ASSUME FixedInit PROVE ServerInv
  OBVIOUS
<1>1. IsLinks(links) /\ \A k \in LinkIds : links[k].phase = "free"
  BY DEF FixedInit, IsLinks, IsLink, NoLink
<1>2. PICK s \in Seated : runtime = [rev |-> 0, turn |-> s, online |-> [t \in Seated |-> TRUE],
                                     subscriber |-> [t \in Seated |-> 0]]
  BY DEF FixedInit
<1>3. IsRuntime(runtime) /\ \A t \in Seated : runtime.subscriber[t] = 0
  BY <1>2 DEF IsRuntime
<1>4. mainThread = [phase |-> "accepting", complete |-> FALSE, final |-> 0] /\ activeSessions = {}
  BY DEF FixedInit
<1>5. Ending(links, runtime, mainThread)
  BY <1>1, <1>4 DEF Ending
<1>6. Exclusive(links, activeSessions) /\ Present(links, runtime) /\ Fed(links, runtime)
  BY <1>1, <1>3, <1>4 DEF Exclusive, Admits, Admitted, Present, Attached, Fed
<1> QED BY <1>1, <1>3, <1>5, <1>6 DEF ServerInv

-----------------------------------------------------------------------------
(* What messages on the way do not change. *)
LEMMA SameKept ==
  ASSUME NEW ls, NEW ms, SameThreads(ls, ms), NEW act, NEW rt, NEW main
  PROVE  /\ Exclusive(ls, act) => Exclusive(ms, act)
         /\ Present(ls, rt) => Present(ms, rt)
         /\ Fed(ls, rt) => Fed(ms, rt)
         /\ Ending(ls, rt, main) => Ending(ms, rt, main)
<1>1. \A k \in LinkIds : ms[k].owner = ls[k].owner /\ ms[k].phase = ls[k].phase /\ ms[k].rev = ls[k].rev
  BY DEF SameThreads, SameThread
<1>2. Exclusive(ls, act) => Exclusive(ms, act)
  BY <1>1 DEF Exclusive, Admits
<1>3. Present(ls, rt) => Present(ms, rt)
  BY <1>1 DEF Present
<1>4. Fed(ls, rt) => Fed(ms, rt)
  BY <1>1 DEF Fed
<1>5. Ending(ls, rt, main) => Ending(ms, rt, main)
  BY <1>1 DEF Ending
<1> QED BY <1>2, <1>3, <1>4, <1>5

(* What is broadcast goes into the queues. *)
LEMMA DeliveredSame ==
  ASSUME NEW ls, IsLinks(ls), NEW rt
  PROVE  SameThreads(ls, Delivered(rt, ls))
<1> DEFINE ms == Delivered(rt, ls)
<1>1. DOMAIN ms = LinkIds
  BY DEF Delivered
<1>2. ASSUME NEW k \in LinkIds PROVE IsLink(ms[k]) /\ SameThread(ms[k], ls[k])
  <2>1. IsLink(ls[k])
    BY DEF IsLinks
  <2>2. ms[k] = ls[k] \/ ms[k] = [ls[k] EXCEPT !.queue = Append(@, Message("Update", rt))]
    BY DEF Delivered
  <2> HIDE DEF ms
  <2>3. CASE ms[k] = ls[k]
    BY <2>1, <2>3 DEF SameThread
  <2>4. CASE ms[k] = [ls[k] EXCEPT !.queue = Append(@, Message("Update", rt))]
    BY <2>1, <2>4 DEF IsLink, SameThread
  <2> QED BY <2>2, <2>3, <2>4
<1> QED BY <1>1, <1>2 DEF SameThreads, IsLinks

(* A full queue ends a subscription. *)
LEMMA SubscriptionsEnd ==
  ASSUME NEW rt, IsRuntime(rt), NEW ls
  PROVE  LET kept == StillSubscribed(rt, ls)
         IN  /\ IsRuntime(kept) /\ kept.rev = rt.rev /\ kept.turn = rt.turn /\ kept.online = rt.online
             /\ \A s \in Seated : kept.subscriber[s] \in {rt.subscriber[s], 0}
<1> DEFINE kept == StillSubscribed(rt, ls)
<1>1. kept = [rt EXCEPT !.subscriber = [s \in Seated |-> IF s \in Reached(rt, ls) THEN rt.subscriber[s] ELSE 0]]
  BY DEF StillSubscribed
<1> DEFINE f == [s \in Seated |-> IF s \in Reached(rt, ls) THEN rt.subscriber[s] ELSE 0]
<1>2. DOMAIN f = Seated /\ \A s \in Seated : f[s] \in {rt.subscriber[s], 0}
  OBVIOUS
<1>3. kept = [rt EXCEPT !.subscriber = f]
  BY <1>1
<1> HIDE DEF f, kept
<1>4. IsRuntime(kept) /\ kept.rev = rt.rev /\ kept.turn = rt.turn /\ kept.online = rt.online /\ kept.subscriber = f
  BY <1>2, <1>3 DEF IsRuntime
<1> QED BY <1>2, <1>4 DEF kept

(* Fewer subscriptions, the same seats online: what is served stays served. *)
LEMMA FewerFed ==
  ASSUME NEW ls, NEW rt, NEW kept, kept.online = rt.online,
         \A s \in Seated : kept.subscriber[s] \in {rt.subscriber[s], 0}
  PROVE  (Present(ls, rt) => Present(ls, kept)) /\ (Fed(ls, rt) => Fed(ls, kept))
<1>1. Present(ls, rt) => Present(ls, kept)
  BY DEF Present
<1>2. Fed(ls, rt) => Fed(ls, kept)
  BY DEF Fed
<1> QED BY <1>1, <1>2

(* An answer goes to one connection, which goes on or ends. *)
LEMMA AnsweredMoves ==
  ASSUME IsLinks(links), NEW k \in LinkIds, NEW m, NEW phase
  PROVE  LET ms == Answered(k, m, phase)
         IN  /\ IsLinks(ms) /\ \A j \in LinkIds \ {k} : ms[j] = links[j]
             /\ ms[k].owner = links[k].owner /\ ms[k].phase = phase
             /\ phase # "gone" => ms[k].rev = links[k].rev
<1> DEFINE told == [links[k] EXCEPT !.down = Arrives(links[k], <<m>>), !.phase = phase]
           ms == Answered(k, m, phase)
           l == IF phase = "gone" THEN Ended(told) ELSE told
<1>1. IsLink(links[k])
  BY DEF IsLinks
<1>2. IsLink(told) /\ told.owner = links[k].owner /\ told.phase = phase /\ told.rev = links[k].rev
  BY <1>1 DEF IsLink
<1>3. ms = [links EXCEPT ![k] = l]
  BY DEF Answered
<1> HIDE DEF told
<1>4. IsLink(Ended(told)) /\ Ended(told).owner = told.owner /\ Ended(told).phase = "gone"
  BY DEF Ended, NoLink, IsLink
<1>5. IsLink(l) /\ l.owner = links[k].owner /\ l.phase = phase /\ (phase # "gone" => l.rev = links[k].rev)
  BY <1>2, <1>4
<1> HIDE DEF l, ms
<1>6. IsLinks(ms) /\ (\A j \in LinkIds \ {k} : ms[j] = links[j]) /\ ms[k] = l
  BY <1>3, <1>5 DEF IsLinks
<1> QED BY <1>5, <1>6 DEF ms

-----------------------------------------------------------------------------
(* One connection moves. *)
Moves(ls, ms, k, phase) ==
  IsLinks(ms) /\ (\A j \in LinkIds \ {k} : SameThread(ms[j], ls[j])) /\ ms[k].phase = phase
FedPhases == {"serving", "storing", "flagging", "leaving"}

(* A thread past admission stays past it. *)
LEMMA StaysAdmitted ==
  ASSUME NEW ls, NEW ms, NEW k \in LinkIds, NEW phase \in Admitted, Moves(ls, ms, k, phase),
         ms[k].owner = ls[k].owner, ls[k].phase \in Admitted, NEW act, Exclusive(ls, act)
  PROVE  Exclusive(ms, act)
<1>1. \A j \in LinkIds, s \in Sessions : Admits(ms[j], s) <=> Admits(ls[j], s)
  BY DEF Moves, SameThread, Admits
<1> QED BY <1>1 DEF Exclusive

(* A connection that is not admitted counts for nobody. *)
LEMMA StaysOutside ==
  ASSUME NEW ls, NEW ms, NEW k \in LinkIds, NEW phase, phase \notin Admitted, Moves(ls, ms, k, phase),
         ls[k].phase \notin Admitted, NEW act, Exclusive(ls, act)
  PROVE  Exclusive(ms, act)
<1>1. \A j \in LinkIds, s \in Sessions : Admits(ms[j], s) <=> Admits(ls[j], s)
  BY DEF Moves, SameThread, Admits
<1> QED BY <1>1 DEF Exclusive

(* A session that is not active is admitted, once. *)
LEMMA IsAdmitted ==
  ASSUME NEW ls, NEW ms, NEW k \in LinkIds, NEW phase \in Admitted, Moves(ls, ms, k, phase),
         ms[k].owner = ls[k].owner, ls[k].phase \notin Admitted, NEW act, Exclusive(ls, act),
         ls[k].owner \notin act
  PROVE  Exclusive(ms, act \cup {ls[k].owner})
<1>1. \A j \in LinkIds, s \in Sessions : Admits(ms[j], s) <=> Admits(ls[j], s) \/ (j = k /\ s = ls[k].owner)
  BY DEF Moves, SameThread, Admits
<1>2. ls[k].owner \in Sessions => \A j \in LinkIds : ~Admits(ls[j], ls[k].owner)
  BY DEF Exclusive
<1> QED BY <1>1, <1>2 DEF Exclusive

(* The session of the thread that ends is free again. *)
LEMMA IsFreed ==
  ASSUME NEW ls, NEW ms, NEW k \in LinkIds, NEW phase, phase \notin Admitted, Moves(ls, ms, k, phase),
         ls[k].phase \in Admitted, NEW act, Exclusive(ls, act)
  PROVE  Exclusive(ms, act \ {ls[k].owner})
<1>1. \A j \in LinkIds, s \in Sessions : Admits(ms[j], s) <=> Admits(ls[j], s) /\ j # k
  BY DEF Moves, SameThread, Admits
<1>2. Admits(ls[k], ls[k].owner)
  BY DEF Admits
<1>3. ls[k].owner \in Sessions => \A j \in LinkIds : Admits(ls[j], ls[k].owner) => j = k
  BY <1>2 DEF Exclusive
<1>4. \A s \in Sessions : Admits(ls[k], s) => s = ls[k].owner
  BY DEF Admits
<1> QED BY <1>1, <1>2, <1>3, <1>4 DEF Exclusive

(* Served seats, subscriptions and what is to be stored, when one moves. *)
LEMMA MovePresent ==
  ASSUME NEW ls, NEW ms, NEW k \in LinkIds, NEW phase, Moves(ls, ms, k, phase), NEW rt, Present(ls, rt),
         phase \in Attached => ms[k].owner \in Seated /\ rt.online[ms[k].owner]
  PROVE  Present(ms, rt)
BY DEF Moves, SameThread, Present
(* A subscription goes on with its thread. *)
LEMMA MoveFed ==
  ASSUME NEW ls, NEW ms, NEW k \in LinkIds, NEW phase, Moves(ls, ms, k, phase), NEW rt, Fed(ls, rt),
         (phase \in FedPhases /\ ms[k].owner = ls[k].owner) \/ (\A s \in Seated : rt.subscriber[s] # k)
  PROVE  Fed(ms, rt)
BY DEF Moves, SameThread, Fed, FedPhases
(* Nothing is stored by a thread that does something else. *)
LEMMA MoveEnding ==
  ASSUME NEW ls, NEW ms, NEW k \in LinkIds, NEW phase, Moves(ls, ms, k, phase), NEW rt, NEW main,
         Ending(ls, rt, main), phase \notin {"storing", "flagging"}
  PROVE  Ending(ms, rt, main)
BY DEF Moves, SameThread, Ending

(* No subscription leads to a connection that is not served. *)
LEMMA NotFed ==
  ASSUME NEW ls, NEW rt, Fed(ls, rt), NEW k \in LinkIds, ls[k].phase \notin FedPhases
  PROVE  \A s \in Seated : rt.subscriber[s] # k
<1>1. k # 0
  BY FixedAssumption DEF LinkIds
<1> QED BY <1>1 DEF Fed, FedPhases

(* A phase that is assigned moves one connection. *)
LEMMA PlacedMoves ==
  ASSUME NEW ls, IsLinks(ls), NEW k \in LinkIds, NEW phase
  PROVE  LET ms == [ls EXCEPT ![k].phase = phase]
         IN  Moves(ls, ms, k, phase) /\ ms[k].owner = ls[k].owner /\ ms[k].rev = ls[k].rev
<1> DEFINE l == [ls[k] EXCEPT !.phase = phase]
           ms == [ls EXCEPT ![k] = l]
<1>1. IsLink(ls[k])
  BY DEF IsLinks
<1>2. IsLink(l) /\ l.owner = ls[k].owner /\ l.phase = phase /\ l.rev = ls[k].rev
  BY <1>1 DEF IsLink
<1> HIDE DEF l
<1>3. DOMAIN ms = LinkIds /\ ms[k] = l /\ \A j \in LinkIds \ {k} : ms[j] = ls[j]
  BY DEF IsLinks
<1> HIDE DEF ms
<1>4. Moves(ls, ms, k, phase) /\ ms[k].owner = ls[k].owner /\ ms[k].rev = ls[k].rev
  BY <1>2, <1>3 DEF Moves, IsLinks, SameThread
<1> QED BY <1>4 DEF ms, l

(* What is delivered afterwards moves nobody else. *)
LEMMA ThenSame ==
  ASSUME NEW ls, NEW ms, NEW ns, NEW k \in LinkIds, NEW phase, Moves(ls, ms, k, phase), SameThreads(ms, ns)
  PROVE  Moves(ls, ns, k, phase) /\ ns[k].owner = ms[k].owner /\ ns[k].rev = ms[k].rev
BY DEF Moves, SameThreads, SameThread

(* An answer moves one connection. *)
LEMMA AnswerMoves ==
  ASSUME IsLinks(links), NEW k \in LinkIds, NEW m, NEW phase
  PROVE  Moves(links, Answered(k, m, phase), k, phase) /\ Answered(k, m, phase)[k].owner = links[k].owner
         /\ (phase # "gone" => Answered(k, m, phase)[k].rev = links[k].rev)
BY AnsweredMoves DEF Moves, SameThread

-----------------------------------------------------------------------------
(* The players, and what is pushed to them, leave the threads where they are. *)
LEMMA PlayersKeep ==
  ASSUME ServerInv, SameThreads(links, links'), UNCHANGED <<runtime, activeSessions, mainThread>>
  PROVE  ServerInv'
<1>1. IsLinks(links')
  BY DEF SameThreads
<1>2. Ending(links', runtime, mainThread)
  BY SameKept DEF ServerInv
<1>3. Running => Exclusive(links', activeSessions) /\ Present(links', runtime) /\ Fed(links', runtime)
  BY SameKept DEF ServerInv
<1> QED BY <1>1, <1>2, <1>3 DEF ServerInv, Running, Exclusive, Present, Fed, Ending, IsLinks, IsRuntime

Put(ls, i, l) == [ls EXCEPT ![i] = l]

(* Fields that are not the thread's. *)
LEMMA WroteSame ==
  ASSUME NEW ls, IsLinks(ls), NEW i, NEW l, i \in LinkIds => IsLink(l) /\ SameThread(l, ls[i])
  PROVE  SameThreads(ls, Put(ls, i, l))
<1> DEFINE ms == Put(ls, i, l)
<1>1. DOMAIN ms = LinkIds /\ \A k \in LinkIds : ms[k] = IF k = i THEN l ELSE ls[k]
  BY DEF IsLinks, Put
<1> HIDE DEF ms
<1>2. \A k \in LinkIds : IsLink(ms[k]) /\ SameThread(ms[k], ls[k])
  BY <1>1 DEF IsLinks, SameThread
<1>3. SameThreads(ls, ms)
  BY <1>1, <1>2 DEF SameThreads, IsLinks
<1> QED BY <1>3 DEF ms

(* Hanging up. *)
LEMMA HangUpSame ==
  ASSUME IsLinks(links), NEW p
  PROVE  SameThreads(links, HangUp(p))
<1> DEFINE i == people[p].link
           l == [links[i] EXCEPT !.hung = TRUE, !.down = <<>>]
<1>1. i \in LinkIds => IsLink(l) /\ SameThread(l, links[i])
  BY DEF IsLinks, IsLink, SameThread
<1>2. HangUp(p) = Put(links, i, l)
  BY DEF HangUp, Put
<1> HIDE DEF l, i
<1> QED BY <1>1, <1>2, WroteSame

(* The invariant of the next state, from its parts. *)
LEMMA ServerStep ==
  ASSUME IsLinks(links'), IsRuntime(runtime'), Ending(links', runtime', mainThread'),
         mainThread'.phase # "done" =>
           Exclusive(links', activeSessions') /\ Present(links', runtime') /\ Fed(links', runtime')
  PROVE  ServerInv'
BY DEF ServerInv, Running, Exclusive, Present, Fed, Ending, IsLinks, IsRuntime

(* One thread goes on while the table stays as it is. *)
LEMMA MovedOn ==
  ASSUME ServerInv, Running, NEW k \in LinkIds, NEW phase, Moves(links, links', k, phase),
         UNCHANGED <<runtime, activeSessions, mainThread>>,
         phase \notin {"storing", "flagging"}, phase \in Admitted <=> links[k].phase \in Admitted,
         phase \in Admitted => links'[k].owner = links[k].owner,
         phase \in Attached => links'[k].owner \in Seated /\ runtime.online[links'[k].owner],
         phase \in FedPhases \/ links[k].phase \notin FedPhases
  PROVE  ServerInv'
<1>1. IsLinks(links') /\ IsRuntime(runtime)
  BY DEF Moves, ServerInv
<1>2. Ending(links', runtime, mainThread)
  BY MoveEnding DEF ServerInv
<1>3. Exclusive(links, activeSessions) /\ Present(links, runtime) /\ Fed(links, runtime)
  BY DEF ServerInv
<1>4. Exclusive(links', activeSessions)
  BY <1>3, StaysAdmitted, StaysOutside
<1>5. Present(links', runtime)
  BY <1>3, MovePresent
<1>6. Fed(links', runtime)
  <2>1. CASE phase \in FedPhases
    <3>1. links'[k].owner = links[k].owner
      BY <2>1 DEF FedPhases, Admitted
    <3> QED BY <1>3, <2>1, <3>1, MoveFed
  <2>2. CASE links[k].phase \notin FedPhases
    <3>1. \A s \in Seated : runtime.subscriber[s] # k
      BY <1>3, <2>2, NotFed
    <3>2. (phase \in FedPhases /\ links'[k].owner = links[k].owner) \/ (\A s \in Seated : runtime.subscriber[s] # k)
      BY <3>1
    <3> QED BY <1>3, <3>2, MoveFed
  <2> QED BY <2>1, <2>2
<1> QED BY <1>1, <1>2, <1>4, <1>5, <1>6, ServerStep

(* What is to be stored depends on the revision and the turn alone. *)
LEMMA SameHand ==
  ASSUME NEW ls, NEW rt, NEW kept, kept.rev = rt.rev, kept.turn = rt.turn, NEW main, Ending(ls, rt, main)
  PROVE  Ending(ls, kept, main)
BY DEF Ending, Over

(* The table changes and tells its subscribers. *)
LEMMA BroadcastStep ==
  ASSUME NEW rt, IsRuntime(rt), NEW ms, SameThreads(ms, links'), NEW ls, runtime' = StillSubscribed(rt, ls),
         Exclusive(ms, activeSessions'), Present(ms, rt), Fed(ms, rt), Ending(ms, rt, mainThread')
  PROVE  ServerInv'
<1>1. IsLinks(links')
  BY DEF SameThreads
<1>2. /\ IsRuntime(runtime') /\ runtime'.rev = rt.rev /\ runtime'.turn = rt.turn /\ runtime'.online = rt.online
      /\ \A s \in Seated : runtime'.subscriber[s] \in {rt.subscriber[s], 0}
  BY SubscriptionsEnd
<1>3. /\ Exclusive(links', activeSessions') /\ Present(links', rt) /\ Fed(links', rt)
      /\ Ending(links', rt, mainThread')
  BY SameKept
<1>4. Present(links', runtime') /\ Fed(links', runtime')
  BY <1>2, <1>3, FewerFed
<1>5. Ending(links', runtime', mainThread')
  BY <1>2, <1>3, SameHand
<1> QED BY <1>1, <1>2, <1>3, <1>4, <1>5, ServerStep

(* A hand that is not over has nothing stored. *)
LEMMA NothingStored ==
  ASSUME NEW ls, NEW rt, NEW main, Ending(ls, rt, main), ~Over(rt), NEW next
  PROVE  /\ \A k \in LinkIds : ls[k].phase \notin {"storing", "flagging"}
         /\ Ending(ls, next, main)
BY DEF Ending

(* The turn moves on. *)
LEMMA TurnedRuntime ==
  ASSUME NEW rt, IsRuntime(rt), NEW turn
  PROVE  LET next == Turned(rt, turn)
         IN  /\ IsRuntime(next) /\ next.online = rt.online /\ next.subscriber = rt.subscriber
             /\ next.turn = turn
BY DEF Turned, IsRuntime

-----------------------------------------------------------------------------
(* The cards are shown at the runtime's pace. *)
LEMMA PaceServes == ServerInv /\ Pace => ServerInv'
<1> SUFFICES ASSUME ServerInv, Pace PROVE ServerInv'
  OBVIOUS
<1> DEFINE rt == Turned(runtime, "over")
<1>1. runtime.turn = "reveal" /\ Running /\ UNCHANGED <<activeSessions, mainThread>>
      /\ runtime' = StillSubscribed(rt, links) /\ links' = Delivered(rt, links)
  BY DEF Pace, Running
<1>2. IsRuntime(rt) /\ rt.online = runtime.online /\ rt.subscriber = runtime.subscriber
  BY TurnedRuntime DEF ServerInv
<1> HIDE DEF rt
<1>3. SameThreads(links, links')
  BY <1>1, DeliveredSame DEF ServerInv
<1>4. Exclusive(links, activeSessions) /\ Present(links, rt) /\ Fed(links, rt)
  BY <1>1, <1>2 DEF ServerInv, Present, Fed
<1>5. Ending(links, rt, mainThread)
  BY <1>1, NothingStored DEF ServerInv, Over
<1> QED BY <1>1, <1>2, <1>3, <1>4, <1>5, BroadcastStep

(* The main thread looks at the hand, stops accepting, and ends. *)
LEMMA MainServes == ServerInv /\ (LookAtHand \/ StopAccepting) => ServerInv'
<1> SUFFICES ASSUME ServerInv, LookAtHand \/ StopAccepting PROVE ServerInv'
  OBVIOUS
<1>1. Ending(links, runtime, mainThread) /\ UNCHANGED <<runtime, activeSessions, links>>
  BY DEF ServerInv, LookAtHand, StopAccepting
<1>2. /\ {"phase", "complete", "final"} \subseteq DOMAIN mainThread' /\ mainThread.phase = "accepting"
      /\ mainThread'.final \in {mainThread.final, runtime.rev} /\ mainThread'.complete /\ Over(runtime)
      /\ mainThread'.final = runtime.rev
  BY <1>1 DEF LookAtHand, StopAccepting, Ending
<1>3. Ending(links', runtime', mainThread')
  BY <1>1, <1>2 DEF Ending
<1>4. Running
  BY <1>2 DEF Running
<1> QED BY <1>1, <1>3, <1>4, ServerStep DEF ServerInv

(* The process ends, and its threads with it. *)
LEMMA ProcessEndServes == ServerInv /\ EndProcess => ServerInv'
<1> SUFFICES ASSUME ServerInv, EndProcess PROVE ServerInv'
  OBVIOUS
<1>1. /\ mainThread.phase = "draining" /\ mainThread' = [mainThread EXCEPT !.phase = "done"]
      /\ links' = [k \in LinkIds |-> IF links[k].phase = "free" THEN links[k] ELSE Ended(links[k])]
      /\ UNCHANGED <<runtime, activeSessions>>
  BY DEF EndProcess
<1>2. /\ {"phase", "complete", "final"} \subseteq DOMAIN mainThread' /\ mainThread'.phase = "done"
      /\ mainThread'.complete = mainThread.complete /\ mainThread'.final = mainThread.final
  BY <1>1 DEF ServerInv, Ending
<1>3. \A k \in LinkIds : IsLink(Ended(links[k])) /\ Ended(links[k]).phase = "gone"
  BY DEF Ended, NoLink, IsLink
<1>4. IsLinks(links') /\ \A k \in LinkIds : links'[k].phase \in {"free", "gone"}
  BY <1>1, <1>3 DEF ServerInv, IsLinks
<1>5. Ending(links', runtime', mainThread')
  BY <1>1, <1>2, <1>4 DEF ServerInv, Ending
<1> QED BY <1>1, <1>2, <1>4, <1>5, ServerStep DEF ServerInv

-----------------------------------------------------------------------------
(* The connection threads.  Accepting a connection, or refusing it. *)
LEMMA AcceptServes == ASSUME NEW k \in LinkIds PROVE ServerInv /\ Accept(k) => ServerInv'
<1> SUFFICES ASSUME ServerInv, Accept(k) PROVE ServerInv'
  OBVIOUS
<1>1. Running /\ links[k].phase = "backlog" /\ UNCHANGED <<runtime, activeSessions, mainThread>> /\ IsLinks(links)
  BY DEF Accept, Running, ServerInv
<1>2. CASE links' = Answered(k, ErrorOf("connection_limit", runtime), "gone")
  <2>1. Moves(links, links', k, "gone")
    BY <1>1, <1>2, AnswerMoves
  <2> QED BY <1>1, <2>1, MovedOn DEF Admitted, Attached, FedPhases
<1>3. CASE links' = [links EXCEPT ![k].phase = "reading"]
  <2>1. Moves(links, links', k, "reading")
    BY <1>1, <1>3, PlacedMoves
  <2> QED BY <1>1, <2>1, MovedOn DEF Admitted, Attached, FedPhases
<1> QED BY <1>2, <1>3 DEF Accept

(* The first message, read and judged. *)
LEMMA AdmitServes == ASSUME NEW k \in LinkIds PROVE ServerInv /\ AdmitFirst(k) => ServerInv'
<1> SUFFICES ASSUME ServerInv, AdmitFirst(k) PROVE ServerInv'
  OBVIOUS
<1> DEFINE s == links[k].owner
<1>1. Running /\ links[k].phase = "reading" /\ UNCHANGED <<runtime, mainThread>> /\ IsLinks(links)
  BY DEF AdmitFirst, At, ServerInv
<1>2. CASE UNCHANGED activeSessions /\ \E fault : links' = Answered(k, ErrorOf(fault, runtime), "gone")
  <2>1. Moves(links, links', k, "gone")
    BY <1>1, <1>2, AnswerMoves
  <2> QED BY <1>1, <1>2, <2>1, MovedOn DEF Admitted, Attached, FedPhases
<1>3. CASE /\ links' = [links EXCEPT ![k].phase = "admitted"] /\ activeSessions' = activeSessions \cup {s}
           /\ s \notin activeSessions
  <2>1. Moves(links, links', k, "admitted") /\ links'[k].owner = s
    BY <1>1, <1>3, PlacedMoves
  <2>2. Exclusive(links, activeSessions) /\ Present(links, runtime) /\ Fed(links, runtime)
    BY <1>1 DEF ServerInv
  <2>3. Exclusive(links', activeSessions')
    <3>1. "admitted" \in Admitted /\ links[k].phase \notin Admitted
      BY <1>1 DEF Admitted
    <3> QED BY <1>3, <2>1, <2>2, <3>1, IsAdmitted
  <2>4. Present(links', runtime)
    BY <2>1, <2>2, MovePresent DEF Attached
  <2>5. Fed(links', runtime)
    <3>1. \A t \in Seated : runtime.subscriber[t] # k
      BY <1>1, <2>2, NotFed DEF FedPhases
    <3> QED BY <2>1, <2>2, <3>1, MoveFed
  <2>6. Ending(links', runtime, mainThread)
    BY <2>1, MoveEnding DEF ServerInv
  <2>7. IsLinks(links') /\ IsRuntime(runtime)
    BY <2>1 DEF Moves, ServerInv
  <2> QED BY <1>1, <2>3, <2>4, <2>5, <2>6, <2>7, ServerStep
<1>4. links[k].first # ""
  BY <1>1 DEF IsLinks, IsLink
<1> QED BY <1>2, <1>3, <1>4 DEF AdmitFirst

(* The seat is online again. *)
LEMMA ReconnectServes == ASSUME NEW k \in LinkIds PROVE ServerInv /\ Reconnect(k) => ServerInv'
<1> SUFFICES ASSUME ServerInv, Reconnect(k) PROVE ServerInv'
  OBVIOUS
<1> DEFINE s == links[k].owner
           placed == [links EXCEPT ![k].phase = "online"]
           rt == [runtime EXCEPT !.online[s] = TRUE]
<1>1. Running /\ links[k].phase = "admitted" /\ UNCHANGED <<activeSessions, mainThread>> /\ IsLinks(links)
  BY DEF Reconnect, At, ServerInv
<1>2. Exclusive(links, activeSessions) /\ Present(links, runtime) /\ Fed(links, runtime)
      /\ IsRuntime(runtime) /\ Ending(links, runtime, mainThread)
  BY <1>1 DEF ServerInv
<1>3. Moves(links, placed, k, "online") /\ placed[k].owner = s
  BY <1>1, PlacedMoves
<1>4. CASE s \notin Seated /\ UNCHANGED runtime /\ links' = Answered(k, ErrorOf("unknown_session", runtime), "leaving")
  <2>1. Moves(links, links', k, "leaving") /\ links'[k].owner = s
    BY <1>1, <1>4, AnswerMoves
  <2> QED BY <1>1, <1>4, <2>1, MovedOn DEF Admitted, Attached, FedPhases
<1>5. CASE s \in Seated /\ runtime.online[s] /\ links' = placed /\ UNCHANGED runtime
  <2> HIDE DEF placed
  <2> QED BY <1>1, <1>3, <1>5, MovedOn DEF Admitted, Attached, FedPhases
<1>6. CASE s \in Seated /\ runtime' = StillSubscribed(rt, links) /\ links' = Delivered(rt, placed)
  <2> HIDE DEF placed
  <2>1. /\ IsRuntime(rt) /\ rt.rev = runtime.rev /\ rt.turn = runtime.turn /\ rt.subscriber = runtime.subscriber
        /\ rt.online[s] /\ \A t \in Seated : runtime.online[t] => rt.online[t]
    BY <1>2, <1>6 DEF IsRuntime
  <2> HIDE DEF rt
  <2>2. SameThreads(placed, links')
    BY <1>3, <1>6, DeliveredSame DEF Moves
  <2>3. Exclusive(placed, activeSessions)
    <3>1. "online" \in Admitted /\ links[k].phase \in Admitted
      BY <1>1 DEF Admitted
    <3> QED BY <1>2, <1>3, <3>1, StaysAdmitted
  <2>4. Present(links, rt) /\ Fed(links, rt)
    BY <1>2, <2>1 DEF Present, Fed
  <2>5. Present(placed, rt)
    BY <1>3, <1>6, <2>1, <2>4, MovePresent
  <2>6. Fed(placed, rt)
    <3>1. \A t \in Seated : rt.subscriber[t] # k
      BY <1>1, <2>4, NotFed DEF FedPhases
    <3> QED BY <1>3, <2>4, <3>1, MoveFed
  <2>7. Ending(placed, runtime, mainThread)
    BY <1>2, <1>3, MoveEnding
  <2>8. Ending(placed, rt, mainThread)
    BY <2>1, <2>7, SameHand
  <2> QED BY <1>1, <1>6, <2>1, <2>2, <2>3, <2>5, <2>6, <2>8, BroadcastStep
<1> QED BY <1>4, <1>5, <1>6 DEF Reconnect

(* The subscription is this connection's from now on. *)
LEMMA SubscribeServes == ASSUME NEW k \in LinkIds PROVE ServerInv /\ Subscribe(k) => ServerInv'
<1> SUFFICES ASSUME ServerInv, Subscribe(k) PROVE ServerInv'
  OBVIOUS
<1> DEFINE s == links[k].owner
<1>1. Running /\ links[k].phase = "online" /\ UNCHANGED <<activeSessions, mainThread>> /\ IsLinks(links)
  BY DEF Subscribe, At, ServerInv
<1>2. Exclusive(links, activeSessions) /\ Present(links, runtime) /\ Fed(links, runtime)
      /\ IsRuntime(runtime) /\ Ending(links, runtime, mainThread)
  BY <1>1 DEF ServerInv
<1>3. s \in Seated /\ runtime.online[s]
  BY <1>1, <1>2 DEF Present, Attached
<1>4. CASE UNCHANGED runtime /\ links' = Answered(k, ErrorOf("not_subscribed", runtime), "leaving")
  <2>1. Moves(links, links', k, "leaving") /\ links'[k].owner = s
    BY <1>1, <1>4, AnswerMoves
  <2> QED BY <1>1, <1>4, <2>1, MovedOn DEF Admitted, Attached, FedPhases
<1>5. CASE /\ runtime.subscriber[s] = 0 /\ runtime' = [runtime EXCEPT !.subscriber[s] = k]
           /\ links' = Answered(k, Message("Welcome", runtime), "serving")
  <2>1. Moves(links, links', k, "serving") /\ links'[k].owner = s
    BY <1>1, <1>5, AnswerMoves
  <2>2. /\ IsRuntime(runtime') /\ runtime'.rev = runtime.rev /\ runtime'.turn = runtime.turn
        /\ runtime'.online = runtime.online /\ runtime'.subscriber[s] = k
        /\ \A t \in Seated \ {s} : runtime'.subscriber[t] = runtime.subscriber[t]
    BY <1>2, <1>3, <1>5 DEF IsRuntime
  <2>3. Exclusive(links', activeSessions)
    <3>1. "serving" \in Admitted /\ links[k].phase \in Admitted
      BY <1>1 DEF Admitted
    <3> QED BY <1>2, <2>1, <3>1, StaysAdmitted
  <2>4. Present(links', runtime)
    BY <1>2, <1>3, <2>1, MovePresent
  <2>5. Present(links', runtime')
    BY <2>2, <2>4 DEF Present
  <2>6. Fed(links', runtime)
    <3>1. "serving" \in FedPhases
      BY DEF FedPhases
    <3> QED BY <1>2, <2>1, <3>1, MoveFed
  <2>7. Fed(links', runtime')
    <3>1. links'[k].phase = "serving"
      BY <2>1 DEF Moves
    <3> QED BY <1>3, <2>1, <2>2, <2>6, <3>1 DEF Fed
  <2>8. Ending(links', runtime, mainThread)
    BY <1>2, <2>1, MoveEnding
  <2>9. Ending(links', runtime', mainThread)
    BY <2>2, <2>8, SameHand
  <2> QED BY <1>1, <2>1, <2>2, <2>3, <2>5, <2>7, <2>9, ServerStep DEF Moves
<1> QED BY <1>4, <1>5 DEF Subscribe

(* What is written to one connection. *)
LEMMA WrittenMoves ==
  ASSUME NEW ls, IsLinks(ls), NEW k \in LinkIds, NEW l, IsLink(l), NEW ms, ms = Put(ls, k, l),
         NEW phase, l.phase = phase, l.owner = ls[k].owner
  PROVE  Moves(ls, ms, k, phase) /\ ms[k].owner = ls[k].owner /\ ms[k].rev = l.rev
<1>1. DOMAIN ms = LinkIds /\ ms[k] = l /\ \A j \in LinkIds \ {k} : ms[j] = ls[j]
  BY DEF IsLinks, Put
<1> QED BY <1>1 DEF Moves, IsLinks, SameThread

(* Updates are pushed; a peer that hung up is noticed. *)
LEMMA PushServes == ASSUME NEW k \in LinkIds PROVE ServerInv /\ (Push(k) \/ Hangup(k)) => ServerInv'
<1> SUFFICES ASSUME ServerInv, Push(k) \/ Hangup(k) PROVE ServerInv'
  OBVIOUS
<1>1. Running /\ links[k].phase = "serving" /\ UNCHANGED <<runtime, activeSessions, mainThread>> /\ IsLinks(links)
  BY DEF Push, Hangup, At, ServerInv
<1>2. IsLink(links[k])
  BY <1>1 DEF IsLinks
<1>3. links[k].owner \in Seated /\ runtime.online[links[k].owner]
  BY <1>1 DEF ServerInv, Present, Attached
<1>4. CASE Push(k)
  <2> DEFINE l == [links[k] EXCEPT !.down = Arrives(links[k], links[k].queue), !.queue = <<>>]
  <2>1. links' = Put(links, k, l)
    BY <1>4 DEF Push, Put
  <2>2. IsLink(l) /\ l.owner = links[k].owner /\ l.phase = "serving"
    BY <1>1, <1>2 DEF IsLink
  <2> HIDE DEF l
  <2>3. Moves(links, links', k, "serving") /\ links'[k].owner = links[k].owner
    BY <1>1, <2>1, <2>2, WrittenMoves
  <2> QED BY <1>1, <1>3, <2>3, MovedOn DEF Admitted, FedPhases
<1>5. CASE Hangup(k)
  <2> DEFINE l == [links[k] EXCEPT !.phase = "leaving", !.up = <<>>]
  <2>1. links' = Put(links, k, l)
    BY <1>5 DEF Hangup, Put
  <2>2. IsLink(l) /\ l.owner = links[k].owner /\ l.phase = "leaving"
    BY <1>1, <1>2 DEF IsLink
  <2> HIDE DEF l
  <2>3. Moves(links, links', k, "leaving") /\ links'[k].owner = links[k].owner
    BY <1>1, <2>1, <2>2, WrittenMoves
  <2> QED BY <1>1, <2>3, MovedOn DEF Admitted, Attached, FedPhases
<1> QED BY <1>4, <1>5

(* A goodbye ends the service. *)
LEMMA GoodbyeServes == ASSUME NEW k \in LinkIds PROVE ServerInv /\ ServeGoodbye(k) => ServerInv'
<1> SUFFICES ASSUME ServerInv, ServeGoodbye(k) PROVE ServerInv'
  OBVIOUS
<1>1. Running /\ links[k].phase = "serving" /\ UNCHANGED <<runtime, activeSessions, mainThread>> /\ IsLinks(links)
  BY DEF ServeGoodbye, Waiting, At, ServerInv
<1>2. Moves(links, links', k, "leaving") /\ links'[k].owner = links[k].owner
  BY <1>1, AnswerMoves DEF ServeGoodbye
<1> QED BY <1>1, <1>2, MovedOn DEF Admitted, Attached, FedPhases

(* A response shows the hand, and sends the thread to store its end. *)
LEMMA RespondedMoves ==
  ASSUME NEW ls, IsLinks(ls), NEW k \in LinkIds, NEW rt
  PROVE  LET ms == Responded(k, rt, ls)
             phase == IF Over(Snap(rt)) THEN "storing" ELSE "serving"
         IN  /\ Moves(ls, ms, k, phase) /\ ms[k].owner = ls[k].owner
             /\ phase = "storing" => ms[k].rev = rt.rev
<1> DEFINE ms == Responded(k, rt, ls)
           phase == IF Over(rt) THEN "storing" ELSE "serving"
           l == [ls[k] EXCEPT !.up = Tail(@), !.down = Arrives(links[k], <<Message("Response", rt)>>),
                              !.phase = phase, !.rev = IF Over(rt) THEN rt.rev ELSE 0]
<1>1. ms = Put(ls, k, l)
  BY DEF Responded, Put
<1>2. IsLink(ls[k]) /\ Over(Snap(rt)) = Over(rt)
  BY DEF IsLinks, Over, Snap
<1>3. IsLink(l) /\ l.owner = ls[k].owner /\ l.phase = phase /\ (phase = "storing" => l.rev = rt.rev)
  BY <1>2 DEF IsLink
<1> HIDE DEF l, phase, ms
<1>4. Moves(ls, ms, k, phase) /\ ms[k].owner = ls[k].owner /\ ms[k].rev = l.rev
  BY <1>1, <1>3, WrittenMoves
<1> QED BY <1>2, <1>3, <1>4 DEF phase, ms

(* The thread that responds stores the revision it showed. *)
LEMMA RespondedEnding ==
  ASSUME NEW ls, NEW ms, NEW k \in LinkIds, NEW rt, NEW main, Ending(ls, rt, main),
         Moves(ls, ms, k, IF Over(Snap(rt)) THEN "storing" ELSE "serving"),
         Over(Snap(rt)) => ms[k].rev = rt.rev
  PROVE  Ending(ms, rt, main)
BY DEF Moves, SameThread, Ending, Over, Snap

(* A command, refused, stale or applied. *)
LEMMA SubmitServes == ASSUME NEW k \in LinkIds PROVE ServerInv /\ SubmitCommand(k) => ServerInv'
<1> SUFFICES ASSUME ServerInv, SubmitCommand(k) PROVE ServerInv'
  OBVIOUS
<1> DEFINE s == links[k].owner
<1>1. Running /\ links[k].phase = "serving" /\ UNCHANGED <<activeSessions, mainThread>> /\ IsLinks(links)
  BY DEF SubmitCommand, Waiting, At, ServerInv
<1>2. Exclusive(links, activeSessions) /\ Present(links, runtime) /\ Fed(links, runtime)
      /\ IsRuntime(runtime) /\ Ending(links, runtime, mainThread)
  BY <1>1 DEF ServerInv
<1>3. s \in Seated /\ runtime.online[s]
  BY <1>1, <1>2 DEF Present, Attached
<1>4. links[k].phase \in Admitted /\ links[k].phase \in FedPhases /\ {"storing", "serving"} \subseteq Admitted \cap FedPhases
  BY <1>1 DEF Admitted, FedPhases
<1>5. CASE links' = Responded(k, runtime, links) /\ UNCHANGED runtime
  <2> DEFINE phase == IF Over(Snap(runtime)) THEN "storing" ELSE "serving"
  <2>1. Moves(links, links', k, phase) /\ links'[k].owner = s /\ (phase = "storing" => links'[k].rev = runtime.rev)
    BY <1>1, <1>5, RespondedMoves
  <2>2. Ending(links', runtime, mainThread)
    BY <1>2, <2>1, RespondedEnding
  <2>3. phase \in Admitted /\ phase \in FedPhases
    BY <1>4
  <2> HIDE DEF phase
  <2>4. Exclusive(links', activeSessions)
    BY <1>2, <1>4, <2>1, <2>3, StaysAdmitted
  <2>5. Present(links', runtime)
    BY <1>2, <1>3, <2>1, MovePresent
  <2>6. Fed(links', runtime)
    BY <1>2, <2>1, <2>3, MoveFed
  <2> QED BY <1>1, <1>2, <1>5, <2>1, <2>2, <2>4, <2>5, <2>6, ServerStep DEF Moves
<1>6. ASSUME NEW turn, Current(k), links' = Responded(k, Turned(runtime, turn), Delivered(Turned(runtime, turn), links)),
             runtime' = StillSubscribed(Turned(runtime, turn), links)
      PROVE  ServerInv'
  <2> DEFINE rt == Turned(runtime, turn)
             ls == Delivered(rt, links)
             phase == IF Over(Snap(rt)) THEN "storing" ELSE "serving"
  <2>1. ~Over(runtime)
    BY <1>3, <1>6, FixedAssumption DEF Current, Over
  <2>2. IsRuntime(rt) /\ rt.online = runtime.online /\ rt.subscriber = runtime.subscriber
    BY <1>2, TurnedRuntime
  <2>3. links' = Responded(k, rt, ls) /\ runtime' = StillSubscribed(rt, links)
    BY <1>6
  <2> HIDE DEF rt
  <2>4. SameThreads(links, ls)
    BY <1>1, DeliveredSame
  <2>5. Ending(links, rt, mainThread)
    BY <1>2, <2>1, NothingStored
  <2>6. Exclusive(ls, activeSessions) /\ Present(ls, runtime) /\ Fed(ls, runtime) /\ Ending(ls, rt, mainThread)
    BY <1>2, <2>4, <2>5, SameKept
  <2>7. IsLinks(ls) /\ ls[k].owner = s /\ ls[k].phase \in Admitted
    BY <1>4, <2>4 DEF SameThreads, SameThread
  <2> HIDE DEF ls
  <2>8. Moves(ls, links', k, phase) /\ links'[k].owner = s /\ (phase = "storing" => links'[k].rev = rt.rev)
    BY <2>3, <2>7, RespondedMoves
  <2>9. Ending(links', rt, mainThread)
    BY <2>6, <2>8, RespondedEnding
  <2>10. phase \in Admitted /\ phase \in FedPhases
    BY <1>4
  <2> HIDE DEF phase
  <2>11. Exclusive(links', activeSessions)
    BY <2>6, <2>7, <2>8, <2>10, StaysAdmitted
  <2>12. Present(links', runtime) /\ Fed(links', runtime)
    <3>1. Present(links', runtime)
      BY <1>3, <2>6, <2>8, MovePresent
    <3>2. Fed(links', runtime)
      BY <2>6, <2>7, <2>8, <2>10, MoveFed
    <3> QED BY <3>1, <3>2
  <2>13. Present(links', rt) /\ Fed(links', rt)
    BY <2>2, <2>12 DEF Present, Fed
  <2>14. SameThreads(links', links')
    BY <2>8 DEF Moves, SameThreads, SameThread
  <2> QED BY <1>1, <2>2, <2>3, <2>9, <2>11, <2>13, <2>14, BroadcastStep
<1>7. ~runtime.online[s] \/ (links' = Responded(k, runtime, links) /\ UNCHANGED runtime)
      \/ \E turn : Current(k) /\ links' = Responded(k, Turned(runtime, turn), Delivered(Turned(runtime, turn), links))
                   /\ runtime' = StillSubscribed(Turned(runtime, turn), links)
  BY DEF SubmitCommand
<1> QED BY <1>3, <1>5, <1>6, <1>7

(* The end of the hand is stored: the revision, then the flag. *)
LEMMA StoringServes ==
  ASSUME NEW k \in LinkIds PROVE ServerInv /\ (StoreRevision(k) \/ StoreFlag(k)) => ServerInv'
<1> SUFFICES ASSUME ServerInv, StoreRevision(k) \/ StoreFlag(k) PROVE ServerInv'
  OBVIOUS
<1>1. Running /\ UNCHANGED <<runtime, activeSessions>> /\ IsLinks(links) /\ Ending(links, runtime, mainThread)
      /\ Exclusive(links, activeSessions) /\ Present(links, runtime) /\ Fed(links, runtime) /\ IsRuntime(runtime)
  BY DEF StoreRevision, StoreFlag, At, ServerInv
<1>2. IsLink(links[k])
  BY <1>1 DEF IsLinks
<1>3. links[k].phase \in {"storing", "flagging"} /\ links[k].phase \in Admitted
  BY DEF StoreRevision, StoreFlag, At, Admitted
<1>4. links[k].owner \in Seated /\ runtime.online[links[k].owner] /\ Over(runtime) /\ links[k].rev = runtime.rev
  BY <1>1, <1>3 DEF Present, Attached, Ending
<1>5. ASSUME NEW phase \in {"flagging", "serving"}, Moves(links, links', k, phase), links'[k].owner = links[k].owner
      PROVE  Exclusive(links', activeSessions) /\ Present(links', runtime) /\ Fed(links', runtime)
  <2>1. phase \in Admitted /\ phase \in FedPhases
    BY DEF Admitted, FedPhases
  <2> QED BY <1>1, <1>3, <1>4, <1>5, <2>1, StaysAdmitted, MovePresent, MoveFed
<1>6. CASE StoreRevision(k)
  <2>1. links' = [links EXCEPT ![k].phase = "flagging"] /\ mainThread' = [mainThread EXCEPT !.final = links[k].rev]
    BY <1>6 DEF StoreRevision
  <2>2. Moves(links, links', k, "flagging") /\ links'[k].owner = links[k].owner /\ links'[k].rev = links[k].rev
    BY <1>1, <2>1, PlacedMoves
  <2>3. /\ {"phase", "complete", "final"} \subseteq DOMAIN mainThread' /\ mainThread'.final = runtime.rev
        /\ mainThread'.phase = mainThread.phase /\ mainThread'.complete = mainThread.complete
    BY <1>1, <1>4, <2>1 DEF Ending
  <2>4. Ending(links', runtime, mainThread')
    BY <1>1, <1>4, <2>2, <2>3 DEF Ending, Moves, SameThread
  <2> QED BY <1>1, <1>5, <2>2, <2>4, ServerStep DEF Moves
<1>7. CASE StoreFlag(k)
  <2> DEFINE l == [links[k] EXCEPT !.phase = "serving", !.rev = 0]
  <2>1. links' = Put(links, k, l) /\ mainThread' = [mainThread EXCEPT !.complete = TRUE]
        /\ links[k].phase = "flagging"
    BY <1>7 DEF StoreFlag, At, Put
  <2>2. IsLink(l) /\ l.owner = links[k].owner /\ l.phase = "serving"
    BY <1>2 DEF IsLink
  <2> HIDE DEF l
  <2>3. Moves(links, links', k, "serving") /\ links'[k].owner = links[k].owner
    BY <1>1, <2>1, <2>2, WrittenMoves
  <2>4. /\ {"phase", "complete", "final"} \subseteq DOMAIN mainThread' /\ mainThread'.final = runtime.rev
        /\ mainThread'.phase = mainThread.phase /\ mainThread'.complete
    BY <1>1, <2>1 DEF Ending
  <2>5. Ending(links', runtime, mainThread')
    <3>1. Ending(links', runtime, mainThread)
      BY <1>1, <2>3, MoveEnding
    <3> QED BY <1>4, <2>4, <3>1 DEF Ending
  <2> QED BY <1>1, <1>5, <2>3, <2>5, ServerStep DEF Moves
<1> QED BY <1>6, <1>7

(* The clean-up: the table hears of it, then the session is free again. *)
LEMMA CleanUpServes == ASSUME NEW k \in LinkIds PROVE ServerInv /\ CleanUpLink(k) => ServerInv'
<1> SUFFICES ASSUME ServerInv, CleanUpLink(k) PROVE ServerInv'
  OBVIOUS
<1> DEFINE s == links[k].owner
           rt == [runtime EXCEPT !.online[s] = FALSE, !.subscriber[s] = 0]
           placed == [links EXCEPT ![k].phase = "removing", ![k].queue = <<>>]
<1>1. Running /\ UNCHANGED mainThread /\ IsLinks(links) /\ Ending(links, runtime, mainThread)
      /\ Exclusive(links, activeSessions) /\ Present(links, runtime) /\ Fed(links, runtime) /\ IsRuntime(runtime)
  BY DEF CleanUpLink, At, ServerInv
<1>2. IsLink(links[k])
  BY <1>1 DEF IsLinks
<1>3. CASE links[k].phase = "leaving" /\ Disconnected(k, "removing")
  <2> DEFINE l == [links[k] EXCEPT !.phase = "removing", !.queue = <<>>]
  <2>1. placed = Put(links, k, l)
    BY <1>1 DEF IsLinks, Put
  <2>2. IsLink(l) /\ l.owner = s /\ l.phase = "removing"
    BY <1>2 DEF IsLink
  <2>3. UNCHANGED activeSessions
        /\ \/ s \in Seated /\ runtime' = StillSubscribed(rt, links) /\ links' = Delivered(rt, placed)
           \/ ~(s \in Seated /\ runtime.online[s]) /\ links' = placed /\ UNCHANGED runtime
    BY <1>3 DEF Disconnected
  <2> HIDE DEF l, placed
  <2>4. Moves(links, placed, k, "removing") /\ placed[k].owner = s
    BY <1>1, <2>1, <2>2, WrittenMoves
  <2>5. Exclusive(placed, activeSessions)
    <3>1. "removing" \in Admitted /\ links[k].phase \in Admitted
      BY <1>3 DEF Admitted
    <3> QED BY <1>1, <2>4, <3>1, StaysAdmitted
  <2>6. Ending(placed, runtime, mainThread) /\ Present(placed, runtime)
    BY <1>1, <2>4, MoveEnding, MovePresent DEF Attached
  <2>7. CASE ~(s \in Seated /\ runtime.online[s]) /\ links' = placed /\ UNCHANGED runtime
    <3>1. \A t \in Seated : runtime.subscriber[t] # k
      <4>1. k # 0
        BY FixedAssumption DEF LinkIds
      <4> QED BY <1>1, <2>7, <4>1 DEF Fed
    <3>2. Fed(placed, runtime)
      BY <1>1, <2>4, <3>1, MoveFed
    <3> QED BY <1>1, <2>3, <2>4, <2>5, <2>6, <2>7, <3>2, ServerStep DEF Moves
  <2>8. CASE s \in Seated /\ runtime' = StillSubscribed(rt, links) /\ links' = Delivered(rt, placed)
    <3>1. /\ IsRuntime(rt) /\ rt.rev = runtime.rev /\ rt.turn = runtime.turn /\ rt.subscriber[s] = 0
          /\ \A t \in Seated \ {s} : rt.online[t] = runtime.online[t] /\ rt.subscriber[t] = runtime.subscriber[t]
      BY <1>1, <2>8 DEF IsRuntime
    <3> HIDE DEF rt
    <3>2. Present(placed, rt)
      <4> SUFFICES ASSUME NEW j \in LinkIds, placed[j].phase \in Attached
                   PROVE  placed[j].owner \in Seated /\ rt.online[placed[j].owner]
        BY DEF Present
      <4>1. placed[j].owner \in Seated /\ runtime.online[placed[j].owner]
        BY <2>6 DEF Present
      <4>2. j # k
        BY <2>4 DEF Moves, Attached
      <4>3. placed[j].owner # s
        <5>1. placed[k].phase \in Admitted /\ placed[j].phase \in Admitted
          BY <2>4 DEF Moves, Attached, Admitted
        <5>2. s \in Sessions
          BY <2>8 DEF Sessions
        <5> QED BY <2>4, <2>5, <4>2, <5>1, <5>2 DEF Exclusive, Admits
      <4> QED BY <3>1, <4>1, <4>3
    <3>3. Fed(placed, rt)
      <4> SUFFICES ASSUME NEW t \in Seated, rt.subscriber[t] # 0
                   PROVE  /\ rt.online[t] /\ rt.subscriber[t] \in LinkIds /\ placed[rt.subscriber[t]].owner = t
                          /\ placed[rt.subscriber[t]].phase \in {"serving", "storing", "flagging", "leaving"}
        BY DEF Fed
      <4>1. t # s /\ rt.subscriber[t] = runtime.subscriber[t] /\ rt.online[t] = runtime.online[t]
        BY <3>1
      <4>2. /\ runtime.online[t] /\ runtime.subscriber[t] \in LinkIds /\ links[runtime.subscriber[t]].owner = t
            /\ links[runtime.subscriber[t]].phase \in {"serving", "storing", "flagging", "leaving"}
        BY <1>1, <4>1 DEF Fed
      <4>3. runtime.subscriber[t] # k
        BY <4>1, <4>2
      <4> QED BY <2>4, <4>1, <4>2, <4>3 DEF Moves, SameThread
    <3>4. Ending(placed, rt, mainThread)
      BY <2>6, <3>1, SameHand
    <3>5. SameThreads(placed, links')
      BY <2>4, <2>8, DeliveredSame DEF Moves
    <3> QED BY <1>1, <2>3, <2>5, <2>8, <3>1, <3>2, <3>3, <3>4, <3>5, BroadcastStep
  <2> QED BY <2>3, <2>7, <2>8
<1>4. CASE links[k].phase = "removing" /\ Freed(k, "gone")
  <2>1. links' = Put(links, k, Ended(links[k])) /\ activeSessions' = activeSessions \ {s} /\ UNCHANGED runtime
    BY <1>4 DEF Freed, Put
  <2>2. IsLink(Ended(links[k])) /\ Ended(links[k]).owner = s /\ Ended(links[k]).phase = "gone"
    BY DEF Ended, NoLink, IsLink
  <2>3. Moves(links, links', k, "gone") /\ links'[k].owner = s
    BY <1>1, <2>1, <2>2, WrittenMoves
  <2>4. Exclusive(links', activeSessions')
    <3>1. "gone" \notin Admitted /\ links[k].phase \in Admitted
      BY <1>4 DEF Admitted
    <3> QED BY <1>1, <2>1, <2>3, <3>1, IsFreed
  <2>5. Present(links', runtime) /\ Ending(links', runtime, mainThread)
    BY <1>1, <2>3, MovePresent, MoveEnding DEF Attached
  <2>6. Fed(links', runtime)
    <3>1. \A t \in Seated : runtime.subscriber[t] # k
      BY <1>1, <1>4, NotFed DEF FedPhases
    <3> QED BY <1>1, <2>3, <3>1, MoveFed
  <2> QED BY <1>1, <2>1, <2>3, <2>4, <2>5, <2>6, ServerStep DEF Moves
<1> QED BY <1>3, <1>4 DEF CleanUpLink, At

-----------------------------------------------------------------------------
(* The players.  A new connection waits for the server. *)
LEMMA ConnectServes == ASSUME NEW p \in Sessions PROVE ServerInv /\ Connect(p) => ServerInv'
<1> SUFFICES ASSUME ServerInv, Connect(p) PROVE ServerInv'
  OBVIOUS
<1>1. UNCHANGED <<runtime, activeSessions, mainThread>> /\ IsLinks(links)
  BY DEF Connect, ServerInv
<1>2. CASE UNCHANGED links
  <2>1. SameThreads(links, links')
    BY <1>1, <1>2 DEF SameThreads, SameThread
  <2> QED BY <1>1, <2>1, PlayersKeep
<1>3. ASSUME Running, NEW k \in LinkIds, NEW first \in Openings(p), links[k].phase = "free",
             links' = [links EXCEPT ![k] = [NoLink EXCEPT !.owner = p, !.phase = "backlog", !.first = first]]
      PROVE  ServerInv'
  <2> DEFINE l == [NoLink EXCEPT !.owner = p, !.phase = "backlog", !.first = first]
  <2>1. first # ""
    BY DEF Openings
  <2>2. IsLink(l) /\ l.phase = "backlog"
    BY <2>1 DEF NoLink, IsLink
  <2>3. links' = [links EXCEPT ![k] = l]
    BY <1>3
  <2> HIDE DEF l
  <2>4. DOMAIN links' = LinkIds /\ links'[k] = l /\ \A j \in LinkIds \ {k} : links'[j] = links[j]
    BY <1>1, <2>3 DEF IsLinks
  <2>5. Moves(links, links', k, "backlog")
    BY <1>1, <2>2, <2>4 DEF Moves, IsLinks, SameThread
  <2> QED BY <1>1, <1>3, <2>5, MovedOn DEF Admitted, Attached, FedPhases
<1> QED BY <1>2, <1>3 DEF Connect

(* The others write to and read from their connections. *)
LEMMA PlayerServes ==
  ASSUME NEW p \in Sessions
  PROVE  ServerInv /\ (Handshake(p) \/ PollStream(p) \/ TakeTurn(p) \/ LeaveHand(p) \/ Drop(p) \/ Fail(p))
           => ServerInv'
<1> SUFFICES ASSUME ServerInv, Handshake(p) \/ PollStream(p) \/ TakeTurn(p) \/ LeaveHand(p) \/ Drop(p) \/ Fail(p)
             PROVE  ServerInv'
  OBVIOUS
<1> DEFINE i == people[p].link
<1>1. UNCHANGED <<runtime, activeSessions, mainThread>> /\ IsLinks(links)
  BY DEF Handshake, PollStream, TakeTurn, LeaveHand, Drop, Fail, ServerInv
<1>2. i \in LinkIds => IsLink(links[i])
  BY <1>1 DEF IsLinks
<1>3. ASSUME NEW down, links' = [links EXCEPT ![i].down = down] PROVE SameThreads(links, links')
  <2> DEFINE l == [links[i] EXCEPT !.down = down]
  <2>1. i \in LinkIds => IsLink(l) /\ SameThread(l, links[i])
    BY <1>2 DEF IsLink, SameThread
  <2>2. links' = Put(links, i, l)
    BY <1>3 DEF Put
  <2> HIDE DEF l, i
  <2> QED BY <1>1, <2>1, <2>2, WroteSame
<1>4. ASSUME NEW ls, SameThreads(links, ls), NEW up, links' = [ls EXCEPT ![i].up = up] PROVE SameThreads(links, links')
  <2> DEFINE l == [ls[i] EXCEPT !.up = up]
  <2>1. IsLinks(ls) /\ (i \in LinkIds => IsLink(ls[i]))
    BY <1>4 DEF SameThreads, IsLinks
  <2>2. i \in LinkIds => IsLink(l) /\ SameThread(l, ls[i])
    BY <2>1 DEF IsLink, SameThread
  <2>3. links' = Put(ls, i, l)
    BY <1>4 DEF Put
  <2> HIDE DEF l, i
  <2>4. SameThreads(ls, links')
    BY <2>1, <2>2, <2>3, WroteSame
  <2> QED BY <1>4, <2>4 DEF SameThreads, SameThread
<1>5. SameThreads(links, HangUp(p)) /\ SameThreads(links, links)
  BY <1>1, HangUpSame DEF SameThreads, SameThread
<1>6. SameThreads(links, links')
  <2>1. CASE Handshake(p)
    <3>1. links' = HangUp(p) \/ \E down : links' = [links EXCEPT ![i].down = down]
      BY <2>1 DEF Handshake
    <3> QED BY <1>3, <1>5, <3>1
  <2>2. CASE PollStream(p)
    <3>1. links' = [links EXCEPT ![i].down = <<>>]
      BY <2>2 DEF PollStream
    <3> QED BY <1>3, <3>1
  <2>3. CASE TakeTurn(p)
    <3>1. \E up : links' = [links EXCEPT ![i].up = up]
      BY <2>3 DEF TakeTurn
    <3> QED BY <1>4, <1>5, <3>1
  <2>4. CASE LeaveHand(p)
    <3>1. \E up : links' = [HangUp(p) EXCEPT ![i].up = up]
      BY <2>4 DEF LeaveHand
    <3> QED BY <1>4, <1>5, <3>1
  <2>5. CASE Drop(p) \/ Fail(p)
    BY <1>5, <2>5 DEF Drop, Fail
  <2> QED BY <2>1, <2>2, <2>3, <2>4, <2>5
<1> QED BY <1>1, <1>6, PlayersKeep

-----------------------------------------------------------------------------
(* Every step of the server and of its players keeps the invariant. *)
LEMMA ServerStays == ServerInv /\ [FixedNext]_fixedVars => ServerInv'
<1> SUFFICES ASSUME ServerInv, [FixedNext]_fixedVars PROVE ServerInv'
  OBVIOUS
<1>1. CASE UNCHANGED fixedVars
  BY <1>1, ServerStep DEF fixedVars, ServerInv, Running
<1>2. CASE Pace \/ LookAtHand \/ StopAccepting \/ EndProcess
  BY <1>2, PaceServes, MainServes, ProcessEndServes
<1>3. ASSUME NEW k \in LinkIds,
             \/ Accept(k) \/ AdmitFirst(k) \/ Reconnect(k) \/ Subscribe(k) \/ Push(k) \/ SubmitCommand(k)
             \/ StoreRevision(k) \/ StoreFlag(k) \/ ServeGoodbye(k) \/ Hangup(k) \/ CleanUpLink(k)
      PROVE  ServerInv'
  BY <1>3, AcceptServes, AdmitServes, ReconnectServes, SubscribeServes, PushServes, SubmitServes,
     StoringServes, GoodbyeServes, CleanUpServes
<1>4. ASSUME NEW p \in Sessions,
             Connect(p) \/ Handshake(p) \/ PollStream(p) \/ TakeTurn(p) \/ LeaveHand(p) \/ Drop(p) \/ Fail(p)
      PROVE  ServerInv'
  BY <1>4, ConnectServes, PlayerServes
<1> QED BY <1>1, <1>2, <1>3, <1>4 DEF FixedNext

(* What the invariant says of the seats. *)
LEMMA ServedSeats == ServerInv => SeatsServed
<1> SUFFICES ASSUME ServerInv PROVE SeatsServed
  OBVIOUS
<1>1. mainThread.phase # "accepting" => Over(runtime) /\ mainThread.final = runtime.rev
  BY DEF ServerInv, Ending
<1>2. ASSUME Running, NEW s \in Sessions
      PROVE  /\ Cardinality(Threads(s)) = IF s \in activeSessions THEN 1 ELSE 0
             /\ \A k \in Threads(s) \cap {k \in LinkIds : links[k].phase \in {"serving", "storing", "flagging"}} :
                  runtime.online[s] /\ runtime.subscriber[s] \in {0, k}
             /\ \A k \in LinkIds : links[k].owner = s /\ links[k].phase \in {"removing", "gone"}
                                     => s \in Strangers \/ runtime.subscriber[s] # k
  <2>1. Exclusive(links, activeSessions) /\ Present(links, runtime) /\ Fed(links, runtime)
    BY <1>2 DEF ServerInv
  <2>2. \A k : k \in Threads(s) <=> k \in LinkIds /\ Admits(links[k], s)
    BY DEF Threads, Admits
  <2>3. Cardinality(Threads(s)) = IF s \in activeSessions THEN 1 ELSE 0
    <3>1. CASE s \in activeSessions
      <4>1. PICK k \in LinkIds : Admits(links[k], s)
        BY <2>1, <3>1 DEF Exclusive
      <4>2. Threads(s) = {k}
        BY <2>1, <2>2, <4>1 DEF Exclusive
      <4>3. Cardinality(Threads(s)) = 1
        BY <4>2, FS_Singleton
      <4> QED BY <3>1, <4>3
    <3>2. CASE s \notin activeSessions
      <4>1. Threads(s) = {}
        BY <2>1, <2>2, <3>2 DEF Exclusive
      <4>2. Cardinality(Threads(s)) = 0
        BY <4>1, FS_EmptySet
      <4> QED BY <3>2, <4>2
    <3> QED BY <3>1, <3>2
  <2>4. ASSUME NEW k \in LinkIds, k \in Threads(s), links[k].phase \in {"serving", "storing", "flagging"}
        PROVE  runtime.online[s] /\ runtime.subscriber[s] \in {0, k}
    <3>1. Admits(links[k], s) /\ s \in Seated /\ runtime.online[s]
      BY <2>1, <2>2, <2>4 DEF Present, Attached, Admits
    <3>2. runtime.subscriber[s] # 0 => runtime.subscriber[s] \in LinkIds /\ Admits(links[runtime.subscriber[s]], s)
      BY <2>1, <3>1 DEF Fed, Admits, Admitted
    <3> QED BY <2>1, <3>1, <3>2 DEF Exclusive
  <2>5. ASSUME NEW k \in LinkIds, links[k].owner = s, links[k].phase \in {"removing", "gone"}
        PROVE  s \in Strangers \/ runtime.subscriber[s] # k
    <3>1. links[k].phase \notin FedPhases
      BY <2>5 DEF FedPhases
    <3>2. \A t \in Seated : runtime.subscriber[t] # k
      BY <2>1, <3>1, NotFed
    <3> QED BY <3>2 DEF Sessions
  <2> QED BY <2>3, <2>4, <2>5
<1> QED BY <1>1, <1>2 DEF SeatsServed

(* The single-table server: a session is active exactly while one thread   *)
(* past admission serves it, a served seat is online and its updates go to *)
(* its own connection, and what the server reports when it stops is the    *)
(* end of the hand; for every set of sessions, limit and bound.            *)
THEOREM EverySeatServed == FixedSpec => []SeatsServed
<1>1. FixedInit => ServerInv
  BY ServerStarts
<1>2. ServerInv /\ [FixedNext]_fixedVars => ServerInv'
  BY ServerStays
<1>3. ServerInv => SeatsServed
  BY ServedSeats
<1> QED BY <1>1, <1>2, <1>3, PTL DEF FixedSpec
=============================================================================
