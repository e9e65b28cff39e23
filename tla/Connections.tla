---------------------------- MODULE Connections ----------------------------
(***************************************************************************)
(* MultiTableNetworkServer: one worker thread per accepted socket, the set *)
(* of guests with an active connection, the vault of reconnect             *)
(* credentials, and the clients that lose sockets and come back with the   *)
(* credential of their last welcome.  The registry is reduced to one table *)
(* and the place every guest has at it; TableRegistry has the whole of it. *)
(* Guests and credentials are random in the code: here they are numbered   *)
(* in the order in which they are drawn, and 0 is none.                    *)
(***************************************************************************)
EXTENDS Naturals, FiniteSets, Sequences

CONSTANTS
  Clients,         \* client processes
  Workers,         \* worker threads, max_connections of them
  SeatCount,       \* seats of a ring table
  Entrants,        \* players of a tournament
  MaxGuests,       \* bound: guests drawn
  MaxTokens,       \* bound: credentials drawn
  MaxHands,        \* bound: hands dealt
  VaultCapacity,   \* CredentialVault capacity
  NoFile           \* there is no checkpoint

ASSUME ConnectionsAssumption ==
  /\ {SeatCount, Entrants, MaxGuests, MaxTokens, MaxHands, VaultCapacity}
       \subseteq Nat
  /\ SeatCount >= 2 /\ Entrants >= 2 /\ VaultCapacity >= 1

VARIABLES
  table,    \* kind, status, number of the hand, phase, guests the runtime calls connected
  place,    \* what the registry knows of every guest
  vault,    \* CredentialVault.entries
  drawn,    \* guests and credentials drawn so far
  active,   \* active_sessions
  conns,    \* what every worker thread is doing
  held,     \* the credential every client was last given
  restored, \* history: registrations that a restart brought back
  file,     \* the checkpoint
  opened    \* history: credentials that were rotated, since the server started

Guests == 1 .. MaxGuests

(* A worker: where in handle_multi_table_connection it is, the client on the
   other end, its guest, the credential it was given and the one it will give,
   the hand whose handle it holds, the hand it is bound to (0 while there is no
   BoundDisconnectGuard), whether it went through the lobby. *)
Idle == [at |-> "idle", peer |-> "none", guest |-> 0, token |-> 0, grant |-> 0,
         hand |-> 0, bound |-> 0, lobby |-> FALSE]

Out(k) == \A w \in Workers : conns[w].peer # k
PlacedAs(S) == {g \in Guests : place[g] \in S}
Routed == PlacedAs({"registered", "seated"})
TokensOf(v) == {e.token : e \in v}
OwnerOf(t) == (CHOOSE e \in vault : e.token = t).guest

(* route_for_session: the table of the guest has a running hand. *)
HasRoute(g) == place[g] = "seated" /\ table.phase \in {"live", "terminal"}
(* A handle answers as long as its runtime has not been replaced. *)
Answers(hand) == hand = table.hand /\ table.phase \in {"live", "terminal"}

NetworkInit ==
  /\ \E tour \in BOOLEAN :
       table = [tour |-> tour, open |-> TRUE, hand |-> 0, phase |-> "none", connected |-> {}]
  /\ place = [g \in Guests |-> "none"]
  /\ vault = {}
  /\ drawn = [guests |-> 0, tokens |-> 0]
  /\ active = {}
  /\ conns = [w \in Workers |-> Idle]
  /\ held = [k \in Clients |-> 0]
  /\ restored = {}
  /\ file = NoFile
  /\ opened = <<>>

-----------------------------------------------------------------------------
(* CredentialVault. *)

(* issue: a full vault refuses. *)
CanIssue(v) == Cardinality(v) < VaultCapacity /\ drawn.tokens < MaxTokens
Issued(v, g) == v \cup {[token |-> drawn.tokens + 1, guest |-> g]}
Draw == drawn' = [drawn EXCEPT !.tokens = @ + 1]

(* revoke_principal *)
Revoked(v, g) == {e \in v : e.guest # g}

(* authenticate: the credential is there, and identify_reconnect, its guest is
   still routed. *)
Identifies(t) == t \in TokensOf(vault) /\ OwnerOf(t) \in Routed

(* Mutant: rotation leaves the credential it was asked with. *)
SpentNever(t) == vault
(* The credential a rotation starts from is taken out of the vault. *)
Spent(t) == {e \in vault : e.token # t}

(* Every credential lives as long; the oldest expires first. *)
ExpireCredential ==
  /\ vault # {}
  /\ vault' = {e \in vault : \E f \in vault : f.token < e.token}
  /\ UNCHANGED <<table, place, drawn, active, conns, held, restored, file, opened>>

-----------------------------------------------------------------------------
(* The worker thread of a connection. *)

Go(w, at) == conns' = [conns EXCEPT ![w].at = at]
(* The worker answers with an error, or finds the peer gone, and returns: before
   it owns anything, or from run_multi_table_connection. *)
Finish(w) == conns' = [conns EXCEPT ![w] = Idle]
Unwind(w) == conns' = [conns EXCEPT ![w] =
  [Idle EXCEPT !.at = "drop", !.guest = conns[w].guest,
               !.bound = conns[w].bound, !.lobby = conns[w].lobby]]
Rest == UNCHANGED <<table, place, vault, drawn, active, held, restored, file, opened>>

(* A worker is free, the connect message arrives within five seconds, and the
   guest is a new one or the one of the credential the client holds.  (A client
   whose credential is refused is where it was before.) *)
Hello(w, k, guest, t) ==
  /\ conns[w] = Idle /\ Out(k)
  /\ Cardinality(active) < Cardinality(Workers)
  /\ conns' = [conns EXCEPT ![w] =
                 [Idle EXCEPT !.at = "admit", !.peer = k, !.guest = guest, !.token = t]]

ConnectAsNewGuest(w, k) ==
  /\ drawn.guests < MaxGuests
  /\ Hello(w, k, drawn.guests + 1, 0)
  /\ drawn' = [drawn EXCEPT !.guests = @ + 1]
  /\ held' = [held EXCEPT ![k] = 0]
  /\ UNCHANGED <<table, place, vault, active, restored, file, opened>>

ConnectWithCredential(w, k) ==
  /\ Identifies(held[k])
  /\ Hello(w, k, OwnerOf(held[k]), held[k])
  /\ Rest

(* Mutant: a second connection of a guest is let in. *)
DuplicateNever(g) == FALSE
Duplicate(g) == g \in active

(* The guest becomes active, or duplicate_active_session. *)
Admit(w) ==
  LET g == conns[w].guest IN
  /\ conns[w].at = "admit"
  /\ \/ /\ ~Duplicate(g)
        /\ active' = active \cup {g} /\ Go(w, "route")
        /\ UNCHANGED <<table, place, vault, drawn, held, restored, file, opened>>
     \/ Duplicate(g) /\ Finish(w) /\ Rest

(* The route loop.  A live hand is bound; a terminal one, or one that is replaced
   before it answers, sends the worker round, for five seconds; a tournament
   break is sat out.  Without a route a credential is refused and a new guest
   gets the lobby. *)
FindRoute(w) ==
  LET c == conns[w] IN
  /\ c.at = "route"
  /\ \/ /\ HasRoute(c.guest) /\ table.phase = "live"
        /\ conns' = [conns EXCEPT ![w].at = "rotate", ![w].hand = table.hand]
     \/ HasRoute(c.guest) /\ table.phase = "terminal" /\ Unwind(w)
     \/ /\ ~HasRoute(c.guest) /\ ~(place[c.guest] = "seated" /\ table.phase = "break")
        /\ IF c.token = 0 THEN conns' = [conns EXCEPT ![w].at = "lobby", ![w].lobby = TRUE]
           ELSE Unwind(w)
  /\ Rest

(* authenticate_and_rotate_reconnect; the credential is spent before the route
   is looked up again.  Only a guest with a credential has a route here: the
   others were drawn a moment ago. *)
Rotate(w) ==
  LET c == conns[w] IN
  /\ c.at = "rotate"
  /\ \/ /\ c.token \in TokensOf(vault) /\ CanIssue(Spent(c.token))
        /\ vault' = Issued(Spent(c.token), OwnerOf(c.token))
        /\ Draw /\ opened' = Append(opened, c.token)
        /\ IF OwnerOf(c.token) \in Routed
           THEN conns' = [conns EXCEPT ![w].at = "bind", ![w].token = 0,
                                       ![w].grant = drawn.tokens + 1]
           ELSE Unwind(w)
        /\ UNCHANGED <<table, place, active, held, restored, file>>
     \/ c.token \notin TokensOf(vault) /\ Unwind(w) /\ Rest

(* handle.reconnect and handle.subscribe *)
BindGuest(w) ==
  LET c == conns[w] IN
  /\ c.at = "bind"
  /\ \/ /\ Answers(c.hand)
        /\ table' = [table EXCEPT !.connected = @ \cup {c.guest}]
        /\ conns' = [conns EXCEPT ![w].at = IF c.grant = 0 THEN "grant" ELSE "welcome",
                                  ![w].hand = 0, ![w].bound = c.hand]
        /\ UNCHANGED <<place, vault, drawn, active, held, restored, file, opened>>
     \/ ~Answers(c.hand) /\ Unwind(w) /\ Rest

(* issue_reconnect_credential, unless a rotation already gave one. *)
Grant(w) ==
  LET c == conns[w] IN
  /\ conns[w].at = "grant"
  /\ \/ /\ c.guest \in Routed /\ CanIssue(Revoked(vault, c.guest))
        /\ vault' = Issued(Revoked(vault, c.guest), c.guest) /\ Draw
        /\ conns' = [conns EXCEPT ![w].at = "welcome", ![w].grant = drawn.tokens + 1]
        /\ UNCHANGED <<table, place, active, held, restored, file, opened>>
     \/ /\ c.guest \notin Routed \/ Cardinality(Revoked(vault, c.guest)) >= VaultCapacity
        /\ vault' = IF c.guest \in Routed THEN Revoked(vault, c.guest) ELSE vault
        /\ Unwind(w)
        /\ UNCHANGED <<table, place, drawn, active, held, restored, file, opened>>

(* The welcome reaches the client, with the credential, or the socket is gone. *)
WelcomeClient(w) ==
  LET c == conns[w] IN
  /\ c.at = "welcome"
  /\ IF c.peer = "none" THEN Unwind(w)
     ELSE conns' = [conns EXCEPT ![w].at = "bound", ![w].grant = 0]
  /\ held' = IF c.peer = "none" THEN held ELSE [held EXCEPT ![c.peer] = c.grant]
  /\ UNCHANGED <<table, place, vault, drawn, active, restored, file, opened>>

(* A worker in the lobby or at the table sees Close or the end of the stream. *)
PeerClosed(w) ==
  /\ conns[w].at \in {"lobby", "bound"} /\ conns[w].peer = "none"
  /\ Unwind(w)
  /\ Rest

(* cancel_pending_registration: a place in the queue or in a tournament that has
   not started is given up; a seat is kept. *)
Cancelled(g) == [place EXCEPT ![g] = IF @ = "waiting" \/ (@ = "registered" /\ table.open)
                                     THEN "none" ELSE @]

(* The guards of the connection: disconnect on the handle it was bound with, then
   the registration of a connection that came through the lobby. *)
DropGuards(w) ==
  LET c == conns[w] IN
  /\ c.at = "drop"
  /\ table' = IF Answers(c.bound) THEN [table EXCEPT !.connected = @ \ {c.guest}]
              ELSE table
  /\ place' = IF c.lobby THEN Cancelled(c.guest) ELSE place
  /\ conns' = [conns EXCEPT ![w] = [Idle EXCEPT !.at = "leave", !.guest = c.guest]]
  /\ UNCHANGED <<vault, drawn, active, held, restored, file, opened>>

LeaveActive(w) ==
  /\ conns[w].at = "leave"
  /\ active' = active \ {conns[w].guest}
  /\ conns' = [conns EXCEPT ![w] = Idle]
  /\ UNCHANGED <<table, place, vault, drawn, held, restored, file, opened>>

-----------------------------------------------------------------------------
(* The lobby: run_multi_table_connection's request loop and the registry. *)

Capacity == IF table.tour THEN Entrants ELSE SeatCount

(* A hand is dealt as soon as the table can play: two seats of a ring, every
   seat of a tournament, which then closes its registration. *)
Started(t, p) ==
  LET S == {g \in Guests : p[g] \in {"registered", "seated"}}
      ready == /\ t.phase = "none" /\ t.hand < MaxHands
               /\ Cardinality(S) >= IF t.tour /\ t.open THEN Entrants ELSE 2
  IN  IF ready THEN [table |-> [t EXCEPT !.hand = @ + 1, !.phase = "live", !.connected = S,
                                         !.open = FALSE],
                     place |-> [g \in Guests |-> IF g \in S THEN "seated" ELSE p[g]]]
      ELSE [table |-> t, place |-> p]

(* join_or_wait_with_access: a free seat, a place in the queue, or a refusal. *)
Joined(g) ==
  [place EXCEPT ![g] =
     IF @ # "none" \/ (table.tour /\ ~table.open) THEN @
     ELSE IF table.phase = "none" /\ Cardinality(Routed) < Capacity
          THEN IF table.tour THEN "registered" ELSE "seated"
     ELSE "waiting"]

InLobby(w) == conns[w].at = "lobby" /\ conns[w].peer # "none"

RequestJoin(w) ==
  LET g == conns[w].guest
      s == Started(table, Joined(g))
  IN  /\ InLobby(w)
      /\ table' = s.table /\ place' = s.place
      /\ IF s.place[g] = "seated" /\ s.table.phase \in {"live", "terminal"}
         THEN conns' = [conns EXCEPT ![w].at = "bind", ![w].hand = s.table.hand]
         ELSE UNCHANGED conns
      /\ UNCHANGED <<vault, drawn, active, held, restored, file, opened>>

RequestStatus(w) ==
  /\ InLobby(w) /\ HasRoute(conns[w].guest)
  /\ conns' = [conns EXCEPT ![w].at = "bind", ![w].hand = table.hand]
  /\ Rest

(* CancelWait; a client whose cancellation is accepted closes, one whose
   registration was locked meanwhile stays. *)
RequestCancel(w) ==
  LET g == conns[w].guest IN
  /\ InLobby(w)
  /\ place[g] \in {"waiting", "registered", "seated"}
  /\ place' = Cancelled(g)
  /\ IF place' # place
     THEN conns' = [conns EXCEPT ![w].peer = "none"]
     ELSE UNCHANGED conns
  /\ UNCHANGED <<table, vault, drawn, active, held, restored, file, opened>>

(* Admission::allow: requests count against the address, whose budget every other
   connection from there uses too, so any of them may be one too many. *)
RateLimited(w) == InLobby(w) /\ Unwind(w) /\ Rest

-----------------------------------------------------------------------------
(* The client and its socket. *)

(* A client closes its socket, or loses it, at any moment; the worker finds out
   later.  It may come back with the credential of its last welcome, and does
   so again after duplicate_active_session. *)
LoseSocket(k) ==
  /\ ~Out(k)
  /\ conns' = [w \in Workers |-> IF conns[w].peer = k THEN [conns[w] EXCEPT !.peer = "none"]
                                  ELSE conns[w]]
  /\ Rest

-----------------------------------------------------------------------------
(* The table and the server process. *)

HandEnds ==
  /\ table.phase = "live"
  /\ table' = [table EXCEPT !.phase = "terminal"]
  /\ UNCHANGED <<place, vault, drawn, active, conns, held, restored, file, opened>>

(* What a checkpoint keeps: credentials, seats and registrations, not the queue. *)
Checkpoint(t, p) ==
  [table |-> [t EXCEPT !.phase = "none", !.connected = {}],
   place |-> [g \in Guests |-> IF p[g] = "waiting" THEN "none" ELSE p[g]],
   vault |-> vault]

(* finalize_ready_hands and the saves that follow it: players who busted in a
   tournament lose their route, the queue of a ring fills free seats, and the
   next hand, a break or an idle table follows. *)
Sweep ==
  /\ table.phase = "terminal"
  /\ \E out \in SUBSET PlacedAs({"seated"}), queued \in SUBSET PlacedAs({"waiting"}) :
       LET seated == (PlacedAs({"seated"}) \ out) \cup queued
           over   == table.tour /\ Cardinality(seated) < 2
           kept   == IF over THEN {} ELSE seated
           p      == [g \in Guests |-> IF g \in kept THEN "seated"
                                       ELSE IF place[g] = "waiting" THEN "waiting" ELSE "none"]
           idle   == [table EXCEPT !.phase = "none", !.connected = {}]
       IN  /\ out # {} => table.tour
           /\ queued # {} => ~table.tour
           /\ Cardinality(seated) <= SeatCount
           /\ Cardinality(seated) < SeatCount => queued = PlacedAs({"waiting"}) \/ table.tour
           /\ place' = p
           /\ \/ table' = Started(idle, p).table
              \/ table.tour /\ ~over /\ table' = [idle EXCEPT !.phase = "break"]
           /\ file' = Checkpoint(table', place')
  /\ UNCHANGED <<vault, drawn, active, conns, held, restored, opened>>

(* advance_tournament_breaks *)
BreakEnds ==
  /\ table.phase = "break" /\ table.hand < MaxHands
  /\ table' = Started([table EXCEPT !.phase = "none"], place).table
  /\ UNCHANGED <<place, vault, drawn, active, conns, held, restored, file, opened>>

(* The process ends and is started again, after an interrupt with the checkpoint
   its drain publishes, after a crash without: every socket is gone, what the
   checkpoint holds is back, with the credentials that have not expired, and
   hands are dealt again.  (The drain leaves the workers two seconds to do what
   they could have done before.) *)
Restart(drained) ==
  /\ LET f == IF drained THEN Checkpoint(table, place)
              ELSE IF file = NoFile
              THEN [table |-> [table EXCEPT !.open = TRUE, !.phase = "none", !.connected = {}],
                    place |-> [g \in Guests |-> "none"], vault |-> {}]
              ELSE file
         s == Started([f.table EXCEPT !.hand = table.hand], f.place)
     IN  /\ table' = s.table /\ place' = s.place
         /\ vault' = f.vault
         /\ file' = IF drained THEN f ELSE file
  /\ restored' = {g \in Guests : place'[g] = "registered"}
  /\ active' = {} /\ opened' = <<>>
  /\ conns' = [w \in Workers |-> Idle]
  /\ UNCHANGED <<drawn, held>>

-----------------------------------------------------------------------------
Work(w) ==
  \/ Admit(w) \/ FindRoute(w) \/ Rotate(w)
  \/ BindGuest(w) \/ Grant(w) \/ WelcomeClient(w)
  \/ PeerClosed(w) \/ DropGuards(w) \/ LeaveActive(w)

LobbyWork(w) == RequestJoin(w) \/ RequestStatus(w) \/ RequestCancel(w) \/ RateLimited(w)

NetworkNext ==
  \/ \E w \in Workers, k \in Clients : ConnectAsNewGuest(w, k) \/ ConnectWithCredential(w, k)
  \/ \E w \in Workers : Work(w) \/ LobbyWork(w)
  \/ \E k \in Clients : LoseSocket(k)
  \/ ExpireCredential
  \/ HandEnds \/ Sweep \/ BreakEnds \/ \E drained \in BOOLEAN : Restart(drained)

NetworkSpec == NetworkInit /\ [][NetworkNext]_<<table, place, vault, drawn, active, conns, held, restored, file, opened>>

-----------------------------------------------------------------------------
(* Properties. *)

(* CleanupIsExact: while a worker is bound to the hand that is running, the
   runtime counts its guest as connected, so that the guest can act: the cleanup
   of an older worker of the same guest never disconnects the newer one
   (docs/adr/0015, decision 6).  And a place in the queue is held only by a
   guest with a live connection, and so is a registration, unless it was made
   before a restart: the cleanup that is due does happen. *)
CleanupIsExact ==
  /\ \A w \in Workers :
       conns[w].at \in {"grant", "welcome", "bound"} /\ Answers(conns[w].bound)
         => conns[w].guest \in table.connected
  /\ \A g \in PlacedAs({"waiting", "registered"}) :
       g \in active \/ (place[g] = "registered" /\ g \in restored)

(* CredentialsSingleUse: however many workers were given the same credential
   before any of them rotated it, it opens one connection, and a guest never has
   two credentials that work (docs/adr/0015, decision 4). *)
CredentialsSingleUse ==
  /\ \A i, j \in DOMAIN opened : opened[i] = opened[j] => i = j
  /\ \A e, f \in vault : e.guest = f.guest => e = f

=============================================================================
