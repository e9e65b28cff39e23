-------------------------- MODULE ProjectionClient --------------------------
(***************************************************************************)
(* The state a remote terminal keeps of a hand: ProjectionClient of        *)
(* src/src/network_client.rs behind NetworkApp of src/src/ui/network_app.rs.*)
(* A client is a record; every message of the server maps it to the next   *)
(* one, or to a client that has failed, because the terminal leaves its    *)
(* loop with the first error of apply_message.                             *)
(*                                                                         *)
(* A snapshot is the hand it is of, its revision and whose turn it shows   *)
(* to this client: "me", "other", or "none" once the hand is at showdown.  *)
(***************************************************************************)
EXTENDS Integers, Sequences

CONSTANT Null

Turns == {"me", "other", "none"}
Snapshot(hand, rev, turn) == [hand |-> hand, rev |-> rev, turn |-> turn]

(* A SubscriptionUpdate: event is the command identity of its event, if any. *)
UpdateOf(seq, reason, event, snap) ==
  [kind |-> "Update", seq |-> seq, reason |-> reason, event |-> event, snap |-> snap]

(* bootstrap, bootstrap_from_update *)
Bootstrap(u) ==
  [conn |-> "Connected", snap |-> u.snap, pending |-> Null, seq |-> u.seq,
   broadcast |-> u.reason # "Initial"]

MarkDisconnected(c) == [c EXCEPT !.conn = "Disconnected", !.pending = Null]

(* An error of the client ends the session of the terminal. *)
FailedClient(c) == [c EXCEPT !.conn = "Failed", !.pending = Null]

ControlsEnabled(c) == c.conn = "Connected" /\ c.pending = Null /\ c.snap.turn = "me"

(* prepare_showdown_preference: any time before the reveal begins. *)
MayPrefer(c) == c.conn = "Connected" /\ c.pending = Null /\ c.snap.turn # "none"

(* prepare_action and prepare_showdown_preference: the intention names the
   revision it was made on and stays pending until authority speaks. *)
Prepared(c, id, acts) ==
  [c EXCEPT !.pending = [id |-> id, expected |-> c.snap.rev, acts |-> acts]]

SameHand(c, snap) == snap.hand = c.snap.hand

ApplyResponse(c, r) ==
  IF ~SameHand(c, r.snap) \/ c.pending = Null THEN FailedClient(c)
  ELSE IF c.pending.id # r.id THEN FailedClient(c)
  ELSE [c EXCEPT !.snap = IF r.snap.rev >= c.snap.rev THEN r.snap ELSE @,
                 !.seq = IF r.seq > @ THEN r.seq ELSE @,
                 !.pending = Null]

(* Mutant: an update settles only the command it answers. *)
SettlesOwnOnly(c, u) == c.pending # Null /\ u.event = c.pending.id

(* The pending command an update settles: its own event, or any event past
   the revision it was made on. *)
SettlesPending(c, u) ==
  /\ c.pending # Null
  /\ IF u.event # Null
       THEN u.event = c.pending.id \/ u.snap.rev > c.pending.expected
       ELSE u.snap.rev > c.snap.rev

(* apply_update: stale, out of sequence, older than what is shown, or applied. *)
ApplyUpdate(c, u) ==
  IF ~SameHand(c, u.snap) THEN FailedClient(c)
  ELSE IF u.seq <= c.seq THEN c
  ELSE IF c.broadcast /\ u.seq # c.seq + 1
    THEN [c EXCEPT !.conn = "AwaitingResynchronization", !.pending = Null]
  ELSE IF u.snap.rev < c.snap.rev
    THEN [c EXCEPT !.seq = u.seq, !.broadcast = TRUE]
  ELSE [conn |-> "Connected", snap |-> u.snap,
        pending |-> IF SettlesPending(c, u) THEN Null ELSE c.pending,
        seq |-> u.seq, broadcast |-> u.reason # "Initial"]

(* resynchronize, resynchronize_from_update: the Welcome of a new connection. *)
Resynchronize(c, u) ==
  IF ~SameHand(c, u.snap) \/ u.snap.rev < c.snap.rev THEN FailedClient(c)
  ELSE [c EXCEPT !.snap = u.snap, !.seq = u.seq, !.broadcast = TRUE,
                 !.pending = Null, !.conn = "Connected"]

(* NetworkApp::apply_message.  A server error settles nothing. *)
ApplyMessage(c, m) ==
  CASE m.kind = "Welcome"  -> Resynchronize(c, m)
    [] m.kind = "Update"   -> ApplyUpdate(c, m)
    [] m.kind = "Response" -> ApplyResponse(c, m)
    [] m.kind = "Error"    -> c
    [] m.kind = "Goodbye"  -> MarkDisconnected(c)

(* NetworkApp::is_terminal *)
IsTerminal(c) == c.snap.turn = "none"

=============================================================================
