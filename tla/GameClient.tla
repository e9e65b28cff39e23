----------------------------- MODULE GameClient -----------------------------
(***************************************************************************)
(* The tournament player of src/bin/sneakyblinders.rs over the sessions of *)
(* src/network_session.rs: entries typed at the prompts, registration and  *)
(* its cancellation, the wait for the first hand, and a new connection     *)
(* with the credential of the last welcome after every hand, until the     *)
(* server says that there is nothing to return to.                         *)
(*                                                                         *)
(* The server is what one connection sees of it: Connections and           *)
(* TableRegistry have the whole.  A worker of a lost socket goes on until  *)
(* it finds out.  Tournaments only: the browser refuses ring games.        *)
(***************************************************************************)
EXTENDS Naturals, Sequences, FiniteSets

CONSTANTS
  HostAnswers,   \* what a host types at the prompts
  Legals,        \* legal actions the table may offer
  MaxHands, MaxCredentials, MaxSockets,   \* bounds
  NoEntry

VARIABLES
  host,     \* the tournament, the place of this guest and its credential in the vault
  worker,   \* the server thread of this guest
  wire,     \* request not yet read and answers not yet received on the socket
  guest,    \* where the program is, the socket and the credential it holds
  entry     \* what is being typed: a tournament or a raise
clientVars == <<host, worker, wire, guest, entry>>

NoWorker == [at |-> "none", sock |-> 0, token |-> 0, hand |-> 0, lobby |-> FALSE]
Silent == [up |-> "none", down |-> <<>>]
Lowest(a, b) == IF a < b THEN a ELSE b
Highest(a, b) == IF a < b THEN b ELSE a

GameClientInit ==
  /\ host = [open |-> TRUE, phase |-> "none", hand |-> 0, place |-> "none",
             token |-> 0, drawn |-> 0]
  /\ worker = NoWorker /\ wire = Silent
  /\ guest = [at |-> "directory", sock |-> 0, sockets |-> 0, token |-> 0]
  /\ entry = NoEntry

-----------------------------------------------------------------------------
(* The host's prompts.  Blinds double from level to level; TLC's integers  *)
(* end at 2^31-1 where a u32 ends at 2^32-1, so saturation comes earlier.  *)
Widest == 2147483647
SaturatingMul(a, b) == IF a > Widest \div b THEN Widest ELSE a * b
CheckedShl(n) == IF n > 30 THEN Widest ELSE 2 ^ n

Multiplier(index) == CheckedShl(Lowest(index, 15))

HostedLevel(a, index) ==
  LET times(v) == SaturatingMul(v, Multiplier(index)) IN
  [small |-> times(a.small), big |-> times(a.big), ante |-> times(a.ante),
   duration |-> a.minutes * 60, rest |-> IF index + 1 = a.breakAfter THEN a.rest * 60 ELSE 0]
HostedGame(a) ==
  [entrants |-> a.entrants, stack |-> a.stack, pool |-> a.pool,
   levels |-> [i \in 1 .. a.levels |-> HostedLevel(a, i - 1)],
   shares |-> CASE a.payout = 2 -> <<7000, 3000>>
                [] a.payout = 3 -> <<5000, 3000, 2000>>
                [] OTHER -> <<10000>>]

(* The ranges the prompts hold the host to. *)
Typed(a) ==
  /\ a.small < a.big /\ a.ante <= a.big
  /\ a.breakAfter < a.levels /\ (a.breakAfter = 0 <=> a.rest = 0)
  /\ a.payout <= Lowest(a.entrants, 3)
  /\ a.stack >= 20 * a.big

(* TournamentConfig::validate, which the server asks too. *)
BlindsNotBelow(l, k) ==
  \/ l.small > k.small
  \/ l.small = k.small /\ (l.big > k.big \/ (l.big = k.big /\ l.ante >= k.ante))
Hostable(cfg) ==
  /\ cfg.entrants \in 2 .. 9 /\ Len(cfg.levels) \in 1 .. 64
  /\ \A i \in DOMAIN cfg.levels :
       LET l == cfg.levels[i] IN
       /\ 0 < l.small /\ l.small < l.big /\ l.ante <= l.big
       /\ l.duration \in 60 .. 7200 /\ l.rest <= 1800
       /\ i > 1 => BlindsNotBelow(l, cfg.levels[i - 1])
  /\ cfg.stack \in 100 .. 1000000 /\ cfg.stack >= SaturatingMul(cfg.levels[1].big, 20)
  /\ cfg.pool \in 1 .. 1000000 /\ Len(cfg.shares) <= Lowest(3, cfg.entrants)

Prompt ==
  /\ guest.at = "directory" /\ entry = NoEntry /\ guest.sockets = 0
  /\ \E a \in HostAnswers : Typed(a) /\ entry' = [form |-> a]
  /\ UNCHANGED <<host, worker, wire, guest>>

-----------------------------------------------------------------------------
(* Raise sizing.  A table offers [min, all, bet, pot, call, wager, mine].  *)
Contribution(legal) == IF legal.bet THEN legal.mine ELSE legal.wager
Presets == {<<1, 4>>, <<1, 2>>, <<3, 4>>, <<1, 1>>, <<3, 2>>}

TargetFor(legal, preset) ==
  LET base == IF legal.bet THEN legal.pot ELSE legal.pot + legal.call
      wish == Contribution(legal) + (base * preset[1] + preset[2] - 1) \div preset[2]
  IN  Lowest(Highest(wish, legal.min), legal.all - 1)

(* sync_from_view: the target survives as long as the table offers the     *)
(* same; nothing is sized where only all-in is left.                       *)
SizingFor(legal, old) ==
  IF legal.min > legal.all - 1 THEN NoEntry
  ELSE IF old # NoEntry /\ old.legal = legal THEN old
  ELSE [legal |-> legal, target |-> legal.min]

SyncSizing ==
  /\ guest.at = "playing" /\ guest.sockets <= 2
  /\ \E legal \in Legals : entry' = SizingFor(legal, entry)
  /\ UNCHANGED <<host, worker, wire, guest>>
ChangeSizing ==
  /\ guest.at = "playing" /\ entry # NoEntry
  /\ \/ entry' = [entry EXCEPT !.target = Lowest(@ + 1, entry.legal.all - 1)]
     \/ entry' = [entry EXCEPT !.target = Highest(@ - 1, entry.legal.min)]
     \/ \E preset \in Presets : entry' = [entry EXCEPT !.target = TargetFor(entry.legal, preset)]
  /\ UNCHANGED <<host, worker, wire, guest>>
(* The raise is sent, or the turn passes without one. *)
ForgetSizing ==
  /\ guest.at = "playing" /\ entry # NoEntry
  /\ entry' = NoEntry
  /\ UNCHANGED <<host, worker, wire, guest>>

-----------------------------------------------------------------------------
(* The program. *)
Heard(kind) == wire.down # <<>> /\ Head(wire.down).kind = kind
Go(at) == guest' = [guest EXCEPT !.at = at]
Hang(at) == guest' = [guest EXCEPT !.at = at, !.sock = 0] /\ wire' = Silent
Dial(at, request) ==
  /\ guest.sockets < MaxSockets
  /\ guest' = [guest EXCEPT !.at = at, !.sock = guest.sockets + 1, !.sockets = @ + 1]
  /\ wire' = [up |-> request, down |-> <<>>]
Client == UNCHANGED <<host, worker, entry>>

(* create_tournament and Join, or Join from the directory. *)
JoinGame ==
  /\ guest.at = "directory" /\ host.place = "none"
  /\ Dial("joining", "join") /\ entry' = NoEntry
  /\ UNCHANGED <<host, worker>>

(* join_and_wait_while: every half second, until the table is ready or the *)
(* player presses Esc.                                                     *)
ReceiveJoined ==
  /\ guest.at \in {"joining", "status"} /\ Heard("joined")
  /\ \/ Head(wire.down).ready /\ Go("welcome") /\ wire' = [wire EXCEPT !.down = Tail(@)]
     \/ ~Head(wire.down).ready /\ Go("pause") /\ wire' = Silent
     \/ ~Head(wire.down).ready /\ Go("cancelling") /\ wire' = [up |-> "cancel", down |-> <<>>]
  /\ Client
AskStatus ==
  /\ guest.at = "pause" /\ Go("status") /\ wire' = [wire EXCEPT !.up = "status"] /\ Client
(* Registration that was locked meanwhile is stayed in. *)
ReceiveCancelAnswer ==
  /\ guest.at = "cancelling"
  /\ \/ Heard("cancelled") /\ Hang("cancelled")
     \/ Heard("locked") /\ Go("pause") /\ wire' = Silent
  /\ Client
ReceiveWelcome ==
  /\ guest.at \in {"welcome", "returning"} /\ Heard("welcome")
  /\ guest' = [guest EXCEPT !.at = "playing", !.token = Head(wire.down).token]
  /\ wire' = [wire EXCEPT !.down = Tail(@)] /\ Client

HandShown ==
  /\ guest.at = "playing" /\ Heard("terminal")
  /\ Go("hold") /\ wire' = Silent /\ entry' = NoEntry /\ UNCHANGED <<host, worker>>
(* The result was on the screen long enough: reconnect_tournament. *)
Return == guest.at \in {"hold", "retry"} /\ Dial("returning", "connect") /\ Client

(* Mutant: every refusal is taken for the end of the game. *)
AnyErrorEnds(code) == TRUE
EndsTheGame(code) == code = "reconnect_rejected"

ReceiveError ==
  /\ Heard("error")
  /\ Hang(IF guest.at # "returning" THEN "failed"
          ELSE IF EndsTheGame(Head(wire.down).code) THEN "result" ELSE "retry")
  /\ entry' = NoEntry /\ UNCHANGED <<host, worker>>
(* The socket breaks or an answer takes five seconds; the player quits;    *)
(* reconnecting is given up after 31 minutes.                              *)
LoseSocket ==
  /\ guest.sock # 0
  /\ Hang(IF guest.at = "returning" THEN "retry" ELSE "failed")
  /\ entry' = NoEntry /\ UNCHANGED <<host, worker>>
Quit == guest.at = "playing" /\ Hang("left") /\ entry' = NoEntry /\ UNCHANGED <<host, worker>>
GiveUp == guest.at = "retry" /\ Go("failed") /\ UNCHANGED <<host, worker, wire, entry>>

-----------------------------------------------------------------------------
(* The server.  Answers of a worker whose socket is gone are lost.         *)
Answer(sock, reply) ==
  wire' = IF sock # guest.sock THEN wire
          ELSE [up |-> "none", down |-> wire.down \o reply]
Error(code) == <<[kind |-> "error", code |-> code]>>
HasRoute == host.place = "seated" /\ host.phase \in {"live", "terminal"}
Server == UNCHANGED <<guest, entry>>
Dealt(h) == [h EXCEPT !.open = FALSE, !.phase = "live", !.hand = @ + 1,
                      !.place = IF @ = "registered" THEN "seated" ELSE @]
(* route_for_session after the answer: the worker binds the hand it found. *)
Bound(h, sock) ==
  [NoWorker EXCEPT !.at = IF h.place = "seated" /\ h.phase \in {"live", "terminal"}
                          THEN "bind" ELSE "lobby",
                   !.sock = sock, !.hand = h.hand, !.lobby = TRUE]
Joined(h) ==
  <<[kind |-> "joined", ready |-> h.place = "seated" /\ h.phase \in {"live", "terminal"}]>>

(* The last entrant starts the tournament. *)
ReadJoin ==
  /\ wire.up = "join"
  /\ IF ~host.open
     THEN /\ Answer(guest.sock, Error("table_not_joinable"))
          /\ worker' = [NoWorker EXCEPT !.at = "lobby", !.sock = guest.sock, !.lobby = TRUE]
          /\ UNCHANGED host
     ELSE \E h \in {[host EXCEPT !.place = "registered"],
                    Dealt([host EXCEPT !.place = "registered"])} :
            /\ host' = h /\ worker' = Bound(h, guest.sock) /\ Answer(guest.sock, Joined(h))
  /\ Server
ReadStatus ==
  /\ wire.up = "status" /\ worker.at = "lobby"
  /\ IF host.place \in {"registered", "seated"}
     THEN worker' = Bound(host, worker.sock) /\ Answer(worker.sock, Joined(host))
     ELSE UNCHANGED worker /\ Answer(worker.sock, Error("session_not_routed"))
  /\ UNCHANGED host /\ Server
ReadCancel ==
  /\ wire.up = "cancel" /\ worker.at = "lobby"
  /\ IF host.place = "registered" /\ host.open
     THEN host' = [host EXCEPT !.place = "none"] /\ Answer(worker.sock, <<[kind |-> "cancelled"]>>)
     ELSE UNCHANGED host /\ Answer(worker.sock, <<[kind |-> "locked"]>>)
  /\ UNCHANGED worker /\ Server

(* A guest with a connection is not let in twice, and a credential must    *)
(* name a guest with a seat.                                               *)
ReadConnect ==
  /\ wire.up = "connect"
  /\ IF guest.token # host.token \/ guest.token = 0 \/ host.place # "seated"
     THEN Answer(guest.sock, Error("reconnect_rejected")) /\ UNCHANGED worker
     ELSE IF worker.at # "none"
     THEN Answer(guest.sock, Error("duplicate_active_session")) /\ UNCHANGED worker
     ELSE /\ worker' = [NoWorker EXCEPT !.at = "route", !.sock = guest.sock, !.token = guest.token]
          /\ wire' = [wire EXCEPT !.up = "none"]
  /\ UNCHANGED host /\ Server

(* The route loop of a connection with a credential: a live hand is bound, *)
(* after the credential is rotated; a finished one is waited for, five     *)
(* seconds; a break is sat out.                                            *)
FindRoute ==
  /\ worker.at = "route"
  /\ \/ /\ HasRoute /\ host.phase = "live" /\ worker.token = host.token
        /\ host.drawn < MaxCredentials
        /\ host' = [host EXCEPT !.token = host.drawn + 1, !.drawn = @ + 1]
        /\ worker' = [worker EXCEPT !.at = "bind", !.hand = host.hand]
        /\ UNCHANGED wire
     \/ /\ \/ HasRoute /\ host.phase = "live" /\ worker.token # host.token
           \/ host.place # "seated"
        /\ Answer(worker.sock, Error("reconnect_rejected"))
        /\ worker' = NoWorker /\ UNCHANGED host
     \/ /\ HasRoute /\ host.phase = "terminal"
        /\ Answer(worker.sock, Error("route_transition_timeout"))
        /\ worker' = NoWorker /\ UNCHANGED host
  /\ Server
(* handle.reconnect, the credential of a guest without one, the welcome. *)
Bind ==
  /\ worker.at = "bind"
  /\ IF HasRoute /\ host.hand = worker.hand
     THEN LET fresh == IF worker.token = 0 THEN host.drawn + 1 ELSE host.token IN
          /\ fresh <= MaxCredentials
          /\ host' = [host EXCEPT !.token = fresh, !.drawn = Highest(@, fresh)]
          /\ worker' = [worker EXCEPT !.at = "bound"]
          /\ Answer(worker.sock, <<[kind |-> "welcome", token |-> fresh]>>)
     ELSE /\ Answer(worker.sock, Error("runtime_closed"))
          /\ worker' = NoWorker /\ UNCHANGED host
  /\ Server
(* The guards of a worker whose socket is gone. *)
DropWorker ==
  /\ worker.at \in {"lobby", "bound"} /\ worker.sock # guest.sock
  /\ host' = IF worker.lobby /\ host.open /\ host.place = "registered"
             THEN [host EXCEPT !.place = "none"] ELSE host
  /\ worker' = NoWorker
  /\ UNCHANGED wire /\ Server

(* The others complete the field; hands end; the sweep rolls them over,    *)
(* with or without this guest, into a hand, a break or the result.         *)
OthersComplete ==
  /\ host.open /\ host' = Dealt(host) /\ UNCHANGED <<worker, wire>> /\ Server
HandEnds ==
  /\ host.phase = "live"
  /\ host' = [host EXCEPT !.phase = "terminal"]
  /\ wire' = IF worker.at = "bound" /\ worker.sock = guest.sock /\ worker.hand = host.hand
             THEN [wire EXCEPT !.down = Append(@, [kind |-> "terminal"])] ELSE wire
  /\ UNCHANGED worker /\ Server
Sweep ==
  /\ host.phase = "terminal"
  /\ LET out == IF host.place = "none" THEN "none" ELSE "out" IN
     \E place \in {host.place, out} :
       \/ host.hand < MaxHands /\ host' = Dealt([host EXCEPT !.place = place])
       \/ host' = [host EXCEPT !.phase = "break", !.place = place]
       \/ host' = [host EXCEPT !.phase = "over", !.place = out]
  /\ UNCHANGED <<worker, wire>> /\ Server
BreakEnds ==
  /\ host.phase = "break" /\ host.hand < MaxHands
  /\ host' = Dealt(host) /\ UNCHANGED <<worker, wire>> /\ Server
ExpireCredential ==
  /\ host.token # 0 /\ host' = [host EXCEPT !.token = 0] /\ UNCHANGED <<worker, wire>> /\ Server

GameClientNext ==
  \/ Prompt \/ SyncSizing \/ ChangeSizing \/ ForgetSizing
  \/ JoinGame \/ ReceiveJoined \/ AskStatus \/ ReceiveCancelAnswer \/ ReceiveWelcome
  \/ HandShown \/ Return \/ ReceiveError \/ LoseSocket \/ Quit \/ GiveUp
  \/ ReadJoin \/ ReadStatus \/ ReadCancel \/ ReadConnect
  \/ FindRoute \/ Bind \/ DropWorker
  \/ OthersComplete \/ HandEnds \/ Sweep \/ BreakEnds \/ ExpireCredential

GameClientSpec == GameClientInit /\ [][GameClientNext]_clientVars

-----------------------------------------------------------------------------
(* ClientToldTruly: a player who reads that the registration is cancelled  *)
(* has no place; one who reads the result has none either, unless the      *)
(* credential expired or a later one was drawn whose welcome never came;   *)
(* and one who plays holds the credential the server will ask for          *)
(* (run_network_tournament takes reconnect_rejected for the end).  And what *)
(* the prompts let a host enter is a tournament the server accepts, and    *)
(* the raise the keys size is one the table offers.                        *)
ClientToldTruly ==
  /\ guest.at = "cancelled" => host.place = "none"
  /\ guest.at = "result" =>
       host.place = "out" \/ host.token = 0 \/ guest.token < host.drawn
  /\ guest.at \in {"playing", "hold"} => host.token \in {guest.token, 0}
  /\ entry # NoEntry =>
       IF "form" \in DOMAIN entry THEN Hostable(HostedGame(entry.form))
       ELSE entry.target \in entry.legal.min .. entry.legal.all - 1
=============================================================================
