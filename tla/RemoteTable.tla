----------------------------- MODULE RemoteTable -----------------------------
(***************************************************************************)
(* One player's terminal, the connection thread that serves it             *)
(* (run_multi_bound_connection of src/src/network_server.rs) and the table  *)
(* runtime behind it, joined by a byte stream in each direction.           *)
(*                                                                         *)
(* The runtime is reduced to what a connection sees of it: the revision,   *)
(* the sequence of the stream, whose turn it is, and the bounded           *)
(* subscription of this session.  The other players, the clock and the     *)
(* showdown pacing are the runtime's own steps.                            *)
(***************************************************************************)
EXTENDS ProjectionClient

CONSTANTS
  BufferCapacity,   \* SUBSCRIPTION_BUFFER_CAPACITY
  MaxRevision,      \* bound: revisions of a hand, the last one terminal
  MaxStream,        \* bound: broadcasts without a revision
  MaxHands,         \* bound: hands; the last one is dealt and not played
  MaxDrops,         \* bound: times the client drops its connection mid-hand
  MaxSnapshots,     \* bound: snapshot requests
  MaxCommands       \* bound: intentions of the player

ASSUME ClientAssumption ==
  /\ {BufferCapacity, MaxRevision, MaxHands} \subseteq Nat \ {0}
  /\ {MaxStream, MaxDrops, MaxSnapshots, MaxCommands} \subseteq Nat

VARIABLES
  table,     \* the runtime: hand, revision, turn, stream sequence
  online,    \* the session's binding is connected
  subscribed, queue,
  slow,      \* a full buffer ended the subscription of this connection
  server,    \* the connection thread: phase, hand it is bound to, inbox, held snapshot
  toServer, toClient,
  client,
  nextId,    \* command_sequence: every intention has an identity of its own
  drops, asked

rvars == <<table, online, subscribed, queue, slow, server, toServer, toClient, client,
           nextId, drops, asked>>
wires == <<toServer, toClient>>

Gone == [phase |-> "gone", hand |-> 0, inbox |-> <<>>, held |-> Null]
TableSnapshot(t) == Snapshot(t.hand, t.rev, t.turn)
Alive == server.phase # "gone" /\ server.hand = table.hand

(* The server's write of a message: nothing arrives on a dropped connection. *)
Sent(m) == IF client.conn \in {"Disconnected", "Failed"} THEN toClient
                                                        ELSE Append(toClient, m)

(* Mutant: a full buffer silently loses the update and keeps its subscriber. *)
BroadcastLossy(seq, reason, event, t) ==
  /\ UNCHANGED <<subscribed, slow>>
  /\ queue' = IF subscribed /\ Len(queue) < BufferCapacity
              THEN Append(queue, UpdateOf(seq, reason, event, TableSnapshot(t))) ELSE queue

(* broadcast, as this session sees it: a full buffer ends its subscription. *)
Broadcast(seq, reason, event, t) ==
  /\ subscribed' = (subscribed /\ Len(queue) < BufferCapacity)
  /\ queue' = IF subscribed' THEN Append(queue, UpdateOf(seq, reason, event, TableSnapshot(t)))
              ELSE queue
  /\ slow' = (slow \/ (subscribed /\ ~subscribed'))

-----------------------------------------------------------------------------
(* The runtime. *)

NewTable(hand, turn, quiet) ==
  [hand |-> hand, rev |-> 0, turn |-> turn, seq |-> 0, quiet |-> quiet]

RemoteInit ==
  /\ \E turn \in {"me", "other"} : table = NewTable(1, turn, 0)
  /\ slow = FALSE /\ online = TRUE /\ subscribed = TRUE /\ queue = <<>>
  /\ server = [Gone EXCEPT !.phase = "drain", !.hand = 1]
  /\ toServer = <<>> /\ toClient = <<>>
  /\ client = Bootstrap(UpdateOf(0, "Initial", Null, TableSnapshot(table)))
  /\ nextId = 1 /\ drops = 0 /\ asked = 0

(* The turn after a revision: any, until the hand is over. *)
TurnsAfter(t) ==
  IF t.turn = "none" \/ t.rev + 1 = MaxRevision THEN {"none"} ELSE Turns
Advanced(t, turn) == [t EXCEPT !.rev = @ + 1, !.seq = @ + 1, !.turn = turn]

(* Another player acts, the clock acts for whoever is to act, or the showdown
   advances: an event of somebody else. *)
OtherEvent(turn) ==
  /\ table.hand < MaxHands /\ table.rev < MaxRevision /\ turn \in TurnsAfter(table)
  /\ table' = Advanced(table, turn)
  /\ Broadcast(table.seq + 1, "TimeoutAction", 0, table')
  /\ UNCHANGED <<online, server, wires, client, nextId, drops, asked>>

(* A deadline warning or another player's connection: no revision. *)
QuietBroadcast ==
  /\ table.hand < MaxHands /\ table.quiet < MaxStream
  /\ table' = [table EXCEPT !.seq = @ + 1, !.quiet = @ + 1]
  /\ Broadcast(table.seq + 1, "DeadlineWarning", Null, table')
  /\ UNCHANGED <<online, server, wires, client, nextId, drops, asked>>

(* The registry rolls the finished hand over: its runtime is shut down and the
   next hand's runtime has this session bound.  A connection thread that
   served the old hand keeps its old handle. *)
RollOver(turn) ==
  /\ table.turn = "none" /\ table.rev = MaxRevision /\ table.hand < MaxHands
  /\ table' = NewTable(table.hand + 1, turn, table.quiet)
  /\ online' = TRUE /\ subscribed' = FALSE
  /\ UNCHANGED <<slow, queue, server, wires, client, nextId, drops, asked>>

-----------------------------------------------------------------------------
(* The connection thread: drain the subscription, then read whatever bytes are
   there, then serve every message in them. *)

(* A dropped subscription looks like an empty one to try_recv. *)
ServerDrain ==
  /\ server.phase = "drain" /\ queue # <<>>
  /\ toClient' = Sent(Head(queue)) /\ queue' = Tail(queue)
  /\ UNCHANGED <<slow, table, online, subscribed, server, toServer, client, nextId, drops, asked>>

ServerRead ==
  /\ server.phase = "drain" /\ queue = <<>> /\ toServer # <<>>
  /\ server' = [server EXCEPT !.phase = "serve", !.inbox = toServer]
  /\ toServer' = <<>>
  /\ UNCHANGED <<slow, table, online, subscribed, queue, toClient, client, nextId, drops, asked>>

Answer(m) == [kind |-> "Response", id |-> m.id, seq |-> table'.seq,
              snap |-> TableSnapshot(table')]
ServerError == [kind |-> "Error"]
Served(s) == [s EXCEPT !.inbox = Tail(s.inbox),
                       !.phase = IF Len(s.inbox) = 1 THEN "drain" ELSE "serve"]
Serving(kind) == server.phase = "serve" /\ server.inbox # <<>> /\ Head(server.inbox).kind = kind

Current(m) == m.expected = table.rev /\ (m.acts => table.turn = "me") /\ table.turn # "none"

(* A command made on the current revision is applied; its event reaches this
   session's own buffer, but the response is written first. *)
SubmitApplied(turn) ==
  /\ Serving("Command") /\ Alive
  /\ LET m == Head(server.inbox) IN
     /\ Current(m)
     /\ IF m.acts THEN turn \in TurnsAfter(table) ELSE turn = table.turn /\ table.rev + 1 < MaxRevision
     /\ table' = Advanced(table, turn)
     /\ Broadcast(table.seq + 1, "ActionAccepted", m.id, table')
     /\ toClient' = Sent(Answer(m))
  /\ server' = Served(server)
  /\ UNCHANGED <<online, toServer, client, nextId, drops, asked>>

(* A command on an older revision is answered with a rejection and the current
   snapshot; on a closed runtime it is answered with an error. *)
SubmitRefused ==
  /\ Serving("Command")
  /\ LET m == Head(server.inbox) IN
     /\ Alive => ~Current(m) \/ (~m.acts /\ table.rev + 1 = MaxRevision)
     /\ table' = table
     /\ toClient' = Sent(IF Alive THEN Answer(m) ELSE ServerError)
  /\ server' = Served(server)
  /\ UNCHANGED <<slow, online, subscribed, queue, toServer, client, nextId, drops, asked>>

(* SnapshotRequest asks the runtime twice: for the snapshot, then for the
   sequence of the stream. *)
TakeSnapshot ==
  /\ Serving("SnapshotRequest")
  /\ IF Alive
       THEN /\ server' = [server EXCEPT !.phase = "metrics", !.held = TableSnapshot(table)]
            /\ UNCHANGED toClient
       ELSE /\ server' = Served(server) /\ toClient' = Sent(ServerError)
  /\ UNCHANGED <<slow, table, online, subscribed, queue, toServer, client, nextId, drops, asked>>

AnswerSnapshot ==
  /\ server.phase = "metrics"
  /\ IF Alive
       THEN /\ toClient' = Sent(UpdateOf(table.seq, "Initial", Null, server.held))
            /\ server' = [Served(server) EXCEPT !.held = Null]
            /\ UNCHANGED <<table, online, subscribed, queue>>
       ELSE server' = Gone /\ UNCHANGED <<table, online, subscribed, queue, toClient>>
  /\ UNCHANGED <<slow, toServer, client, nextId, drops, asked>>

(* The thread ends on Close, or when it finds the connection closed: the guard
   tells the runtime it was bound to, which broadcasts the change. *)
HungUp == client.conn \in {"Disconnected", "Failed"} /\ server.phase = "drain" /\ toServer = <<>>
ServerEnds ==
  /\ Serving("Close") \/ HungUp
  /\ server' = Gone /\ queue' = <<>>
  /\ subscribed' = (IF Alive THEN FALSE ELSE subscribed)
  /\ online' = (IF Alive THEN FALSE ELSE online)
  /\ table' = (IF Alive /\ online THEN [table EXCEPT !.seq = @ + 1] ELSE table)
  /\ toClient' = Sent([kind |-> "Goodbye"])
  /\ UNCHANGED <<slow, toServer, client, nextId, drops, asked>>

(* A new connection of the session: refused while the old thread lives
   (duplicate_active_session, which the client retries), held while the routed
   hand is terminal; then reconnect, subscribe and Welcome. *)
Welcome ==
  /\ client.conn = "Disconnected" /\ server.phase = "gone" /\ table.turn # "none"
  /\ LET seq == IF online THEN table.seq ELSE table.seq + 1
         t   == [table EXCEPT !.seq = seq]
         u   == UpdateOf(seq, "Initial", Null, TableSnapshot(t))
     IN  /\ table' = t
         /\ client' = IF IsTerminal(client) THEN Bootstrap(u)
                      ELSE ApplyMessage(client, [u EXCEPT !.kind = "Welcome"])
  /\ server' = [Gone EXCEPT !.phase = "drain", !.hand = table.hand]
  /\ online' = TRUE /\ subscribed' = TRUE /\ queue' = <<>> /\ slow' = FALSE
  /\ toServer' = <<>> /\ toClient' = <<>>
  /\ UNCHANGED <<nextId, drops, asked>>

(* Five seconds without a successor hand: route_transition_timeout. *)
RouteTimeout ==
  /\ client.conn = "Disconnected" /\ server.phase = "gone" /\ table.turn = "none"
  /\ client' = FailedClient(client)
  /\ UNCHANGED <<slow, table, online, subscribed, queue, server, wires, nextId, drops, asked>>

-----------------------------------------------------------------------------
(* The terminal: run_headless and run_tui. *)

Deliver ==
  /\ toClient # <<>> /\ client.conn \notin {"Disconnected", "Failed"}
  /\ client' = ApplyMessage(client, Head(toClient))
  /\ toClient' = Tail(toClient)
  /\ UNCHANGED <<slow, table, online, subscribed, queue, server, toServer, nextId, drops, asked>>

Command(acts) ==
  /\ IF acts THEN ControlsEnabled(client) ELSE MayPrefer(client)
  /\ client.snap.hand < MaxHands /\ nextId <= MaxCommands
  /\ client' = Prepared(client, nextId, acts)
  /\ toServer' = Append(toServer, [kind |-> "Command", id |-> nextId,
                                   expected |-> client.snap.rev, acts |-> acts])
  /\ nextId' = nextId + 1
  /\ UNCHANGED <<slow, table, online, subscribed, queue, server, toClient, drops, asked>>

RequestSnapshot ==
  /\ client.conn \notin {"Disconnected", "Failed"} /\ asked < MaxSnapshots
  /\ toServer' = Append(toServer, [kind |-> "SnapshotRequest"])
  /\ asked' = asked + 1
  /\ UNCHANGED <<slow, table, online, subscribed, queue, server, toClient, client, nextId, drops>>

(* After a terminal snapshot the client closes and comes back for the next
   hand; the fault drill drops the connection in the middle of one. *)
Leave ==
  /\ client.conn \notin {"Disconnected", "Failed"}
  /\ IsTerminal(client) \/ drops < MaxDrops
  /\ client' = MarkDisconnected(client)
  /\ drops' = IF IsTerminal(client) THEN drops ELSE drops + 1
  /\ toServer' = IF IsTerminal(client) THEN Append(toServer, [kind |-> "Close"]) ELSE toServer
  /\ toClient' = <<>>
  /\ UNCHANGED <<slow, table, online, subscribed, queue, server, nextId, asked>>

(* poll reports a closed connection once everything in it was read, and the
   terminal ends with that error. *)
ConnectionLost ==
  /\ client.conn \notin {"Disconnected", "Failed"}
  /\ server.phase = "gone" /\ toClient = <<>>
  /\ client' = FailedClient(client)
  /\ UNCHANGED <<slow, table, online, subscribed, queue, server, wires, nextId, drops, asked>>

RemoteNext ==
  \/ \E turn \in Turns : OtherEvent(turn)
  \/ QuietBroadcast
  \/ \E turn \in {"me", "other"} : RollOver(turn)
  \/ ServerDrain \/ ServerRead
  \/ \E turn \in Turns : SubmitApplied(turn)
  \/ SubmitRefused \/ TakeSnapshot \/ AnswerSnapshot \/ ServerEnds
  \/ Welcome \/ RouteTimeout
  \/ Deliver \/ RequestSnapshot \/ Leave \/ ConnectionLost
  \/ \E acts \in BOOLEAN : Command(acts)

RemoteSpec == RemoteInit /\ [][RemoteNext]_rvars

(* The table's clock acts for whoever does not, threads run, bytes arrive, and
   the terminal polls. *)
RemoteFairSpec ==
  /\ RemoteSpec
  /\ WF_rvars(\E turn \in Turns : OtherEvent(turn))
  /\ WF_rvars(ServerDrain) /\ WF_rvars(ServerRead)
  /\ WF_rvars(SubmitRefused \/ \E turn \in Turns : SubmitApplied(turn))
  /\ WF_rvars(TakeSnapshot) /\ WF_rvars(AnswerSnapshot) /\ WF_rvars(ServerEnds)
  /\ WF_rvars(Deliver) /\ WF_rvars(ConnectionLost)

-----------------------------------------------------------------------------
(* Properties. *)

InFlight == toClient # <<>> \/ queue # <<>> \/ server.phase # "drain"

(* CaughtUp: a client that is connected to the current hand with nothing under
   way shows the table's own revision and turn, through races of its commands
   with the clock, buffers at their limit and reconnects.  Two cases are
   excepted: its subscription was dropped, and it applied the answer to a
   snapshot request last (a broadcast between the two halves of that answer
   is then ignored as stale). *)
CaughtUp ==
  (/\ client.conn = "Connected" /\ Alive /\ ~InFlight
   /\ subscribed /\ (asked = 0 \/ client.broadcast))
    => client.snap = TableSnapshot(table)

(* CommandDecided: a command the player sends is settled: answered, overtaken
   by an event, or given up with the connection; the controls are not locked
   for good.  Excepted are a connection whose subscription a full buffer ended,
   which stays open and silent, and a client that asked for a snapshot, whose
   answer can make it ignore the last update of the hand. *)
CommandDecided ==
  (client.pending # Null) ~> (client.pending = Null \/ slow \/ asked > 0)

=============================================================================
