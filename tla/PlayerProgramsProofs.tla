------------------------ MODULE PlayerProgramsProofs ------------------------
(***************************************************************************)
(* Proofs about programs that run on the player's own computer: the        *)
(* terminal at a remote table (RemoteTable), the update of the trainer     *)
(* (Updater), the window that is called to a turn (TurnAttention), the     *)
(* desk of the trainer (TrainerDesk), its way to a cloud coach             *)
(* (CloudCoaching), its reading of completed hands (ReplayBrowser) and its *)
(* river practice (RiverPractice).  The seven have no state in common.     *)
(*                                                                         *)
(* The terminal: what it shows when it is connected and has nothing on its *)
(* way is the table itself, for any number of revisions, broadcasts,       *)
(* hands, commands, drops and buffer places.                               *)
(*                                                                         *)
(* The argument: every message of the runtime but one kind pairs a place   *)
(* in the stream with the snapshot of that place, so these pairs form one  *)
(* chain that the table is the end of.  The exception is the answer to a   *)
(* snapshot request, whose snapshot may be older than its place; it is     *)
(* never newer, and a client shows such a snapshot only until the next     *)
(* broadcast.  As long as the subscription stands, every place past the    *)
(* client's own is still on its way, in order, so no broadcast is ever     *)
(* refused for a gap.                                                      *)
(*                                                                         *)
(* The desk: jobs, records and panel only ever hold decisions and reviews  *)
(* of the running session, so hand and revision tell decisions apart       *)
(* (ReviewInv); chips, log and archive are the session's as far as they    *)
(* were written, after what an earlier session left, and a hand whose      *)
(* records have changed since is marked to be written again (BooksInv).    *)
(*                                                                         *)
(* The cloud coach: wherever a key is held, it is held for the provider it *)
(* was entered for, and what was reserved is the sum over all calls ever   *)
(* begun, whatever became of them (CloudInv).                              *)
(*                                                                         *)
(* The browser: the table's copy of the drill results is behind the file   *)
(* only while the browser is open, when the table writes nothing but what  *)
(* failed before, and the reader stands on a hand of the archive and a     *)
(* decision of that hand (ReplayInv).                                      *)
(***************************************************************************)
EXTENDS RemoteTable, Updater, TurnAttention, TrainerDesk, CloudCoaching, ReplayBrowser, RiverPractice, ChipSums,
        FiniteSetTheorems, SequenceTheorems, NaturalsInduction, WellFoundedInduction, TLAPS

-----------------------------------------------------------------------------
(* What the variables of the terminal's world range over. *)

Snaps == [hand : Nat, rev : Nat, turn : Turns]
Reasons == {"TimeoutAction", "DeadlineWarning", "ActionAccepted"}
UpdatesFor(reasons) ==
  [kind : {"Update"}, seq : Nat, reason : reasons, event : Nat \cup {Null}, snap : Snaps]
Broadcasts == UpdatesFor(Reasons)
SnapshotAnswers == UpdatesFor({"Initial"})
Responses == [kind : {"Response"}, id : Nat, seq : Nat, snap : Snaps]
Replies == Broadcasts \cup SnapshotAnswers \cup Responses \cup {ServerError, [kind |-> "Goodbye"]}

Commands == [kind : {"Command"}, id : Nat, expected : Nat, acts : BOOLEAN]
Asks == Commands \cup {[kind |-> "SnapshotRequest"], [kind |-> "Close"]}

Clients ==
  [conn : {"Connected", "AwaitingResynchronization", "Disconnected", "Failed"},
   snap : Snaps, pending : {Null} \cup [id : Nat, expected : Nat, acts : BOOLEAN],
   seq : Nat, broadcast : BOOLEAN]
Servers ==
  [phase : {"gone", "drain", "serve", "metrics"}, hand : Nat, inbox : Seq(Asks),
   held : Snaps \cup {Null}]

Table == [hand : Nat, rev : Nat, turn : Turns, seq : Nat, quiet : Nat]

TypeOK ==
  /\ table \in Table
  /\ online \in BOOLEAN /\ subscribed \in BOOLEAN /\ slow \in BOOLEAN
  /\ queue \in Seq(Broadcasts)
  /\ server \in Servers
  /\ server.phase = "metrics" => server.held \in Snaps /\ server.inbox # <<>>
  /\ toServer \in Seq(Asks) /\ toClient \in Seq(Replies)
  /\ client \in Clients
  /\ nextId \in Nat /\ asked \in Nat

-----------------------------------------------------------------------------
(* The inductive invariant. *)

Elements(s) == {s[i] : i \in DOMAIN s}
Attached == Alive /\ client.conn \notin {"Disconnected", "Failed"}

(* A place of the stream and the snapshot of that place. *)
Fact(m) == [seq |-> m.seq, snap |-> m.snap]
FactSet == [seq : Nat, snap : Snaps]
Told(m) == m \in Broadcasts \cup Responses
Honest == asked = 0 \/ client.broadcast
Now == [seq |-> table.seq, snap |-> TableSnapshot(table)]
Facts ==
  {Now} \cup {Fact(m) : m \in Elements(queue)}
        \cup {Fact(m) : m \in {m \in Elements(toClient) : Told(m)}}
        \cup {Fact(c) : c \in {c \in {client} : Honest}}

InOrder(F, now) ==
  /\ \A p \in F : p.seq <= now.seq
  /\ \A p, q \in F : p.seq <= q.seq => p.snap.rev <= q.snap.rev
  /\ \A p, q \in F : p.snap.rev = q.snap.rev => p.snap = q.snap
NotNewer(w, F) == \A p \in F : p.seq >= w.seq => p.snap.rev >= w.snap.rev

FactsInOrder == InOrder(Facts, Now)
ClientNotNewer == client.seq <= table.seq /\ NotNewer(Fact(client), Facts)
AnswersNotNewer ==
  \A m \in Elements(toClient) \cap SnapshotAnswers :
    /\ asked > 0 /\ m.seq <= table.seq
    /\ client.snap.rev <= m.snap.rev
    /\ NotNewer(Fact(m), Facts)
AnswersCurrent ==
  \A i, j \in DOMAIN toClient :
    i < j /\ toClient[j] \in SnapshotAnswers /\ toClient[i] \in SnapshotAnswers \cup Broadcasts \cup Responses
      => toClient[i].snap.rev <= toClient[j].snap.rev
HeldCurrent ==
  server.phase = "metrics" =>
    /\ asked > 0
    /\ client.snap.rev <= server.held.rev /\ server.held.rev <= table.rev
    /\ \A m \in Elements(toClient) \cap (SnapshotAnswers \cup Broadcasts \cup Responses) :
         m.snap.rev <= server.held.rev
InSync == FactsInOrder /\ ClientNotNewer /\ AnswersNotNewer /\ AnswersCurrent /\ HeldCurrent

(* Every place past the client's is on its way, in order. *)
OnItsWay(n) ==
  \/ \E i \in DOMAIN toClient : toClient[i] \in Broadcasts /\ toClient[i].seq = n
  \/ \E i \in DOMAIN queue : queue[i].seq = n
NothingMissed == \A n \in Nat : client.seq < n /\ n <= table.seq => OnItsWay(n)
StreamInOrder ==
  /\ \A i, j \in DOMAIN toClient :
       i < j /\ toClient[i] \in Broadcasts /\ toClient[j] \in Broadcasts
         => toClient[i].seq < toClient[j].seq
  /\ \A i, j \in DOMAIN queue : i < j => queue[i].seq < queue[j].seq
  /\ \A i \in DOMAIN toClient, j \in DOMAIN queue :
       toClient[i] \in Broadcasts => toClient[i].seq < queue[j].seq

Streaming == subscribed => NothingMissed /\ StreamInOrder

RequestsCounted ==
  \A m \in Elements(toServer) \cup Elements(server.inbox) :
    m.kind = "SnapshotRequest" => asked > 0

(* A connection thread was bound to a hand that was dealt. *)
ServesKnownHand == server.hand <= table.hand

SyncInv ==
  /\ TypeOK /\ RequestsCounted /\ ServesKnownHand
  /\ Attached => InSync /\ Streaming

-----------------------------------------------------------------------------
(* Facts about messages, clients and sequences. *)

(* The kinds of what the server writes: ApplyMessage tells them apart. *)
LEMMA ReplyKinds ==
  ASSUME NEW m \in Replies
  PROVE  /\ m.kind \in {"Update", "Response", "Error", "Goodbye"}
         /\ m.kind = "Update" => m \in Broadcasts \cup SnapshotAnswers
         /\ m.kind = "Response" => m \in Responses
BY DEF Replies, Broadcasts, SnapshotAnswers, UpdatesFor, Responses, ServerError

(* An Update of the stream and the answer to a snapshot request differ in their
   reason, and both are Updates. *)
LEMMA UpdateKinds ==
  /\ \A m \in Broadcasts : /\ m.kind = "Update" /\ m.reason # "Initial" /\ m.seq \in Nat
                           /\ m.snap \in Snaps /\ m \notin SnapshotAnswers /\ m \notin Responses
  /\ \A m \in SnapshotAnswers : /\ m.kind = "Update" /\ m.reason = "Initial" /\ m.seq \in Nat
                                /\ m.snap \in Snaps /\ m \notin Responses
  /\ \A m \in Responses : m.kind = "Response" /\ m.seq \in Nat /\ m.snap \in Snaps
BY DEF Broadcasts, SnapshotAnswers, UpdatesFor, Responses, Reasons

(* A snapshot of the table is a snapshot. *)
LEMMA TableSnapshots ==
  ASSUME NEW t, t.hand \in Nat, t.rev \in Nat, t.turn \in Turns
  PROVE  /\ TableSnapshot(t) \in Snaps
         /\ TableSnapshot(t).rev = t.rev /\ TableSnapshot(t).hand = t.hand
         /\ TableSnapshot(t).turn = t.turn
BY DEF TableSnapshot, Snapshot, Snaps

(* UpdateOf builds the messages of the stream. *)
LEMMA UpdatesBuilt ==
  ASSUME NEW seq \in Nat, NEW event \in Nat \cup {Null}, NEW snap \in Snaps
  PROVE  /\ \A reason \in Reasons : /\ UpdateOf(seq, reason, event, snap) \in Broadcasts
                                    /\ UpdateOf(seq, reason, event, snap).seq = seq
                                    /\ UpdateOf(seq, reason, event, snap).snap = snap
         /\ UpdateOf(seq, "Initial", event, snap) \in SnapshotAnswers
         /\ UpdateOf(seq, "Initial", event, snap).seq = seq
         /\ UpdateOf(seq, "Initial", event, snap).snap = snap
BY DEF UpdateOf, Broadcasts, SnapshotAnswers, UpdatesFor

(* What the fields of a client are. *)
LEMMA ClientFields ==
  ASSUME NEW c \in Clients
  PROVE  /\ c.conn \in {"Connected", "AwaitingResynchronization", "Disconnected", "Failed"}
         /\ c.snap \in Snaps /\ c.seq \in Nat /\ c.broadcast \in BOOLEAN
         /\ c.snap.rev \in Nat /\ c.snap.hand \in Nat /\ c.snap.turn \in Turns
BY DEF Clients, Snaps

(* Ending or losing a connection leaves what the client shows. *)
LEMMA ClientsLeave ==
  ASSUME NEW c \in Clients
  PROVE  /\ MarkDisconnected(c) \in Clients /\ MarkDisconnected(c).conn = "Disconnected"
         /\ FailedClient(c) \in Clients /\ FailedClient(c).conn = "Failed"
BY DEF MarkDisconnected, FailedClient, Clients

(* apply_response: the client failed, or shows the newer of the two snapshots
   and keeps the later of the two places. *)
LEMMA ResponseApplied ==
  ASSUME NEW c \in Clients, NEW r \in Responses
  PROVE  /\ ApplyResponse(c, r) \in Clients
         /\ \/ ApplyResponse(c, r).conn = "Failed"
            \/ /\ ApplyResponse(c, r).snap = IF r.snap.rev >= c.snap.rev THEN r.snap ELSE c.snap
               /\ ApplyResponse(c, r).seq = IF r.seq > c.seq THEN r.seq ELSE c.seq
               /\ ApplyResponse(c, r).broadcast = c.broadcast
<1> DEFINE d == [c EXCEPT !.snap = IF r.snap.rev >= c.snap.rev THEN r.snap ELSE @,
                          !.seq = IF r.seq > @ THEN r.seq ELSE @,
                          !.pending = Null]
<1>1. ApplyResponse(c, r) \in {FailedClient(c), d}
  BY DEF ApplyResponse
<1>2. d \in Clients
  BY DEF Clients, Responses
<1>3. /\ d.snap = IF r.snap.rev >= c.snap.rev THEN r.snap ELSE c.snap
      /\ d.seq = IF r.seq > c.seq THEN r.seq ELSE c.seq
      /\ d.broadcast = c.broadcast
  BY DEF Clients
<1> HIDE DEF d
<1> QED
  BY <1>1, <1>2, <1>3, ClientsLeave

(* apply_update: the client failed, ignored the message, found a gap, kept a
   newer snapshot, or shows the one of the message. *)
LEMMA UpdateApplied ==
  ASSUME NEW c \in Clients, NEW u \in Broadcasts \cup SnapshotAnswers
  PROVE  /\ ApplyUpdate(c, u) \in Clients
         /\ \/ ApplyUpdate(c, u).conn = "Failed"
            \/ u.seq <= c.seq /\ ApplyUpdate(c, u) = c
            \/ /\ u.seq > c.seq /\ c.broadcast /\ u.seq # c.seq + 1
               /\ ApplyUpdate(c, u).snap = c.snap /\ ApplyUpdate(c, u).seq = c.seq
               /\ ApplyUpdate(c, u).broadcast = c.broadcast
            \/ /\ u.seq > c.seq /\ u.snap.rev < c.snap.rev
               /\ ApplyUpdate(c, u).snap = c.snap /\ ApplyUpdate(c, u).seq = u.seq
               /\ ApplyUpdate(c, u).broadcast = TRUE
            \/ /\ u.seq > c.seq /\ u.snap.rev >= c.snap.rev
               /\ ApplyUpdate(c, u).snap = u.snap /\ ApplyUpdate(c, u).seq = u.seq
               /\ ApplyUpdate(c, u).broadcast = (u.reason # "Initial")
<1> DEFINE waiting == [c EXCEPT !.conn = "AwaitingResynchronization", !.pending = Null]
           kept    == [c EXCEPT !.seq = u.seq, !.broadcast = TRUE]
           shown   == [conn |-> "Connected", snap |-> u.snap,
                       pending |-> IF SettlesPending(c, u) THEN Null ELSE c.pending,
                       seq |-> u.seq, broadcast |-> u.reason # "Initial"]
<1>0. u.seq \in Nat /\ u.snap \in Snaps /\ u.snap.rev \in Nat /\ c.seq \in Nat /\ c.snap.rev \in Nat
  BY UpdateKinds, ClientFields DEF Snaps
<1>1. \/ ApplyUpdate(c, u) = FailedClient(c)
      \/ u.seq <= c.seq /\ ApplyUpdate(c, u) = c
      \/ u.seq > c.seq /\ c.broadcast /\ u.seq # c.seq + 1 /\ ApplyUpdate(c, u) = waiting
      \/ u.seq > c.seq /\ u.snap.rev < c.snap.rev /\ ApplyUpdate(c, u) = kept
      \/ u.seq > c.seq /\ u.snap.rev >= c.snap.rev /\ ApplyUpdate(c, u) = shown
  BY <1>0 DEF ApplyUpdate
<1>2. waiting \in Clients /\ waiting.snap = c.snap /\ waiting.seq = c.seq /\ waiting.broadcast = c.broadcast
  BY DEF Clients
<1>3. kept \in Clients /\ kept.snap = c.snap /\ kept.seq = u.seq /\ kept.broadcast = TRUE
  BY <1>0 DEF Clients
<1>4. shown \in Clients /\ shown.snap = u.snap /\ shown.seq = u.seq
      /\ shown.broadcast = (u.reason # "Initial")
  BY <1>0 DEF Clients
<1> HIDE DEF waiting, kept, shown
<1> QED
  BY <1>1, <1>2, <1>3, <1>4, ClientsLeave

(* A sequence that loses its head or gains a last element. *)
LEMMA Trimmed ==
  ASSUME NEW S, NEW s \in Seq(S), s # <<>>
  PROVE  /\ Tail(s) \in Seq(S) /\ Len(Tail(s)) = Len(s) - 1
         /\ 1 \in DOMAIN s /\ Head(s) = s[1] /\ Head(s) \in S
         /\ \A i \in DOMAIN Tail(s) : i + 1 \in DOMAIN s /\ i >= 1 /\ i \in Nat /\ Tail(s)[i] = s[i + 1]
         /\ \A i \in DOMAIN s : i # 1 => i - 1 \in DOMAIN Tail(s) /\ Tail(s)[i - 1] = s[i]
         /\ Elements(s) = {Head(s)} \cup Elements(Tail(s))
<1>1. Tail(s) \in Seq(S) /\ Len(Tail(s)) = Len(s) - 1 /\ Len(s) \in Nat \ {0}
  OBVIOUS
<1>2. 1 \in DOMAIN s /\ Head(s) = s[1] /\ Head(s) \in S
  OBVIOUS
<1>3. \A i \in DOMAIN Tail(s) : i + 1 \in DOMAIN s /\ i >= 1 /\ i \in Nat /\ Tail(s)[i] = s[i + 1]
  OBVIOUS
<1>4. \A i \in DOMAIN s : i # 1 => i - 1 \in DOMAIN Tail(s) /\ Tail(s)[i - 1] = s[i]
  OBVIOUS
<1>5. Elements(s) = {Head(s)} \cup Elements(Tail(s))
  <2>1. ASSUME NEW i \in DOMAIN s PROVE s[i] \in {Head(s)} \cup Elements(Tail(s))
    <3>1. CASE i = 1
      BY <1>2, <3>1
    <3>2. CASE i # 1
      BY <1>4, <3>2 DEF Elements
    <3> QED
      BY <3>1, <3>2
  <2>2. \A e \in {Head(s)} \cup Elements(Tail(s)) : e \in Elements(s)
    BY <1>2, <1>3 DEF Elements
  <2> QED
    BY <2>1, <2>2 DEF Elements
<1> QED
  BY <1>1, <1>2, <1>3, <1>4, <1>5

(* The same of a new last element. *)
LEMMA Extended ==
  ASSUME NEW S, NEW s \in Seq(S), NEW m \in S
  PROVE  /\ Append(s, m) \in Seq(S) /\ Append(s, m) # <<>>
         /\ DOMAIN Append(s, m) = 1 .. Len(s) + 1 /\ DOMAIN s = 1 .. Len(s) /\ Len(s) \in Nat
         /\ \A i \in DOMAIN s : i \in DOMAIN Append(s, m) /\ Append(s, m)[i] = s[i]
         /\ \A i \in DOMAIN Append(s, m) : i \in DOMAIN s \/ i = Len(s) + 1
         /\ Append(s, m)[Len(s) + 1] = m
         /\ Elements(Append(s, m)) = Elements(s) \cup {m}
<1>1. /\ Append(s, m) \in Seq(S) /\ Append(s, m) # <<>>
      /\ DOMAIN Append(s, m) = 1 .. Len(s) + 1 /\ DOMAIN s = 1 .. Len(s) /\ Len(s) \in Nat
  OBVIOUS
<1>2. \A i \in DOMAIN s : i \in DOMAIN Append(s, m) /\ Append(s, m)[i] = s[i]
  OBVIOUS
<1>3. \A i \in DOMAIN Append(s, m) : i \in DOMAIN s \/ i = Len(s) + 1
  BY <1>1
<1>4. Append(s, m)[Len(s) + 1] = m /\ Len(s) + 1 \in DOMAIN Append(s, m)
  OBVIOUS
<1>5. Elements(Append(s, m)) = Elements(s) \cup {m}
  <2>1. \A e \in Elements(Append(s, m)) : e \in Elements(s) \cup {m}
    BY <1>2, <1>3, <1>4 DEF Elements
  <2>2. \A e \in Elements(s) \cup {m} : e \in Elements(Append(s, m))
    BY <1>2, <1>4 DEF Elements
  <2> QED
    BY <2>1, <2>2
<1> QED
  BY <1>1, <1>2, <1>3, <1>4, <1>5

-----------------------------------------------------------------------------
(* The variables keep their types. *)

(* A broadcast reaches the queue or ends the subscription. *)
LEMMA BroadcastTyped ==
  ASSUME TypeOK, NEW reason \in Reasons, NEW event \in Nat \cup {Null}, NEW seq \in Nat, NEW t,
         t.hand \in Nat, t.rev \in Nat, t.turn \in Turns, Broadcast(seq, reason, event, t)
  PROVE  queue' \in Seq(Broadcasts) /\ subscribed' \in BOOLEAN /\ slow' \in BOOLEAN
<1>1. UpdateOf(seq, reason, event, TableSnapshot(t)) \in Broadcasts
  BY TableSnapshots, UpdatesBuilt
<1> QED
  BY <1>1, Extended DEF TypeOK, Broadcast

(* A write adds a message, or nothing. *)
LEMMA SentTyped ==
  ASSUME TypeOK, NEW m \in Replies
  PROVE  Sent(m) \in Seq(Replies)
BY Extended DEF Sent, TypeOK

(* The thread that served one message of its inbox. *)
LEMMA ServedTyped ==
  ASSUME TypeOK, server.inbox # <<>>
  PROVE  /\ Served(server) \in Servers /\ Served(server).phase \in {"drain", "serve"}
         /\ Served(server).hand = server.hand /\ Served(server).inbox = Tail(server.inbox)
BY Trimmed DEF Served, TypeOK, Servers

(* The fields of the thread's record. *)
LEMMA ServerFields ==
  ASSUME TypeOK
  PROVE  server.inbox \in Seq(Asks) /\ server.hand \in Nat /\ server.held \in Snaps \cup {Null}
         /\ server.phase \in {"gone", "drain", "serve", "metrics"}
         /\ table.hand \in Nat /\ table.rev \in Nat /\ table.turn \in Turns /\ table.seq \in Nat
BY DEF TypeOK, Table, Servers

(* A connection thread that is gone, and one that begins. *)
LEMMA NewServers ==
  ASSUME NEW h \in Nat
  PROVE  /\ Gone \in Servers /\ Gone.phase = "gone"
         /\ [Gone EXCEPT !.phase = "drain", !.hand = h] \in Servers
         /\ [Gone EXCEPT !.phase = "drain", !.hand = h].phase = "drain"
         /\ [Gone EXCEPT !.phase = "drain", !.hand = h].hand = h
         /\ [Gone EXCEPT !.phase = "drain", !.hand = h].inbox = <<>>
<1>1. <<>> \in Seq(Asks)
  OBVIOUS
<1>2. Gone \in Servers /\ Gone.phase = "gone" /\ Gone.inbox = <<>>
  BY <1>1 DEF Gone, Servers
<1>3. /\ [Gone EXCEPT !.phase = "drain", !.hand = h] \in Servers
      /\ [Gone EXCEPT !.phase = "drain", !.hand = h].phase = "drain"
      /\ [Gone EXCEPT !.phase = "drain", !.hand = h].hand = h
      /\ [Gone EXCEPT !.phase = "drain", !.hand = h].inbox = <<>>
  BY <1>2 DEF Servers
<1> QED
  BY <1>2, <1>3

(* An event: the next revision of the hand at the next place of the stream. *)
LEMMA AdvancedFields ==
  ASSUME NEW t \in Table, NEW turn \in Turns
  PROVE  /\ Advanced(t, turn) \in Table
         /\ Advanced(t, turn).hand = t.hand /\ Advanced(t, turn).rev = t.rev + 1
         /\ Advanced(t, turn).seq = t.seq + 1 /\ Advanced(t, turn).turn = turn
<1>1. t.rev \in Nat /\ t.seq \in Nat /\ t.rev + 1 \in Nat /\ t.seq + 1 \in Nat
  BY DEF Table
<1> QED
  BY <1>1 DEF Table, Advanced

(* A broadcast without an event: the same revision at the next place. *)
LEMMA QuietFields ==
  ASSUME NEW t \in Table, NEW quiet \in Nat
  PROVE  /\ [t EXCEPT !.seq = @ + 1, !.quiet = quiet] \in Table
         /\ [t EXCEPT !.seq = @ + 1, !.quiet = quiet].hand = t.hand
         /\ [t EXCEPT !.seq = @ + 1, !.quiet = quiet].rev = t.rev
         /\ [t EXCEPT !.seq = @ + 1, !.quiet = quiet].turn = t.turn
         /\ [t EXCEPT !.seq = @ + 1, !.quiet = quiet].seq = t.seq + 1
<1>1. t.seq \in Nat /\ t.seq + 1 \in Nat
  BY DEF Table
<1> QED
  BY <1>1 DEF Table

(* The place alone moves on when a connection ends or comes back. *)
LEMMA PlaceFields ==
  ASSUME NEW t \in Table, NEW seq \in Nat
  PROVE  /\ [t EXCEPT !.seq = seq] \in Table
         /\ [t EXCEPT !.seq = seq].hand = t.hand /\ [t EXCEPT !.seq = seq].rev = t.rev
         /\ [t EXCEPT !.seq = seq].turn = t.turn /\ [t EXCEPT !.seq = seq].seq = seq
BY DEF Table

(* The first client is one that was just welcomed. *)
LEMMA Bootstrapped ==
  ASSUME NEW seq \in Nat, NEW snap \in Snaps
  PROVE  LET c == Bootstrap(UpdateOf(seq, "Initial", Null, snap))
         IN  c \in Clients /\ c.conn = "Connected" /\ c.seq = seq /\ c.snap = snap
BY DEF Bootstrap, UpdateOf, Clients

(* A reconnected client shows the snapshot of its Welcome, or has failed. *)
LEMMA Resynchronized ==
  ASSUME NEW c \in Clients, NEW seq \in Nat, NEW snap \in Snaps
  PROVE  LET m == [UpdateOf(seq, "Initial", Null, snap) EXCEPT !.kind = "Welcome"]
         IN  /\ ApplyMessage(c, m) \in Clients
             /\ \/ ApplyMessage(c, m).conn = "Failed"
                \/ ApplyMessage(c, m).seq = seq /\ ApplyMessage(c, m).snap = snap
<1> DEFINE m == [UpdateOf(seq, "Initial", Null, snap) EXCEPT !.kind = "Welcome"]
           d == [c EXCEPT !.snap = m.snap, !.seq = m.seq, !.broadcast = TRUE,
                          !.pending = Null, !.conn = "Connected"]
<1>1. m.kind = "Welcome" /\ m.seq = seq /\ m.snap = snap
  BY DEF UpdateOf
<1>2. d \in Clients /\ d.seq = seq /\ d.snap = snap
  BY <1>1 DEF Clients
<1> HIDE DEF m
<1>3. ApplyMessage(c, m) = Resynchronize(c, m)
  BY <1>1 DEF ApplyMessage
<1>4. Resynchronize(c, m) \in {FailedClient(c), d}
  BY DEF Resynchronize
<1> HIDE DEF d
<1>5. /\ ApplyMessage(c, m) \in Clients
      /\ \/ ApplyMessage(c, m).conn = "Failed"
         \/ ApplyMessage(c, m).seq = seq /\ ApplyMessage(c, m).snap = snap
  BY <1>2, <1>3, <1>4, ClientsLeave
<1> QED
  BY <1>5 DEF m

(* What a delivered message makes of a client, kind by kind. *)
LEMMA MessageApplied ==
  ASSUME NEW c \in Clients, NEW m \in Replies
  PROVE  /\ ApplyMessage(c, m) \in Clients
         /\ m \in Broadcasts \cup SnapshotAnswers => ApplyMessage(c, m) = ApplyUpdate(c, m)
         /\ m \in Responses => ApplyMessage(c, m) = ApplyResponse(c, m)
         /\ m \notin Broadcasts \cup SnapshotAnswers \cup Responses =>
              ApplyMessage(c, m) = c \/ ApplyMessage(c, m).conn = "Disconnected"
<1>1. CASE m \in Broadcasts \cup SnapshotAnswers
  <2>1. m.kind = "Update" /\ m \notin Responses
    BY <1>1, UpdateKinds
  <2>2. ApplyMessage(c, m) = ApplyUpdate(c, m)
    BY <2>1 DEF ApplyMessage
  <2> QED
    BY <1>1, <2>1, <2>2, UpdateApplied
<1>2. CASE m \in Responses
  <2>1. m.kind = "Response" /\ m \notin Broadcasts \cup SnapshotAnswers
    BY <1>2, UpdateKinds
  <2>2. ApplyMessage(c, m) = ApplyResponse(c, m)
    BY <2>1 DEF ApplyMessage
  <2> QED
    BY <1>2, <2>1, <2>2, ResponseApplied
<1>3. CASE m \notin Broadcasts \cup SnapshotAnswers \cup Responses
  <2>1. m.kind \in {"Error", "Goodbye"}
    BY <1>3 DEF Replies, ServerError
  <2>2. ApplyMessage(c, m) \in {c, MarkDisconnected(c)}
    BY <2>1 DEF ApplyMessage
  <2> QED
    BY <1>3, <2>2, ClientsLeave
<1> QED
  BY <1>1, <1>2, <1>3

(* The first state. *)
LEMMA TypesBegin == RemoteInit => TypeOK
<1> SUFFICES ASSUME RemoteInit PROVE TypeOK
  OBVIOUS
<1>1. PICK turn \in {"me", "other"} : table = NewTable(1, turn, 0)
  BY DEF RemoteInit
<1>2. table \in Table /\ table.seq = 0
  BY <1>1 DEF NewTable, Table, Turns
<1>3. TableSnapshot(table) \in Snaps
  BY <1>2, TableSnapshots DEF Table
<1>4. client \in Clients
  <2>1. client = Bootstrap(UpdateOf(0, "Initial", Null, TableSnapshot(table)))
    BY DEF RemoteInit
  <2> QED
    BY <1>3, <2>1 DEF Bootstrap, UpdateOf, Clients
<1>5. server \in Servers /\ server.phase = "drain"
  BY 1 \in Nat, NewServers DEF RemoteInit
<1>6. <<>> \in Seq(Broadcasts) /\ <<>> \in Seq(Asks) /\ <<>> \in Seq(Replies)
  OBVIOUS
<1>7. /\ online \in BOOLEAN /\ subscribed \in BOOLEAN /\ slow \in BOOLEAN
      /\ queue = <<>> /\ toServer = <<>> /\ toClient = <<>> /\ nextId \in Nat /\ asked \in Nat
  BY DEF RemoteInit
<1> QED
  BY <1>2, <1>4, <1>5, <1>6, <1>7 DEF TypeOK

(* A hand that begins. *)
LEMMA NewTables ==
  ASSUME NEW hand \in Nat, NEW turn \in Turns, NEW quiet \in Nat
  PROVE  NewTable(hand, turn, quiet) \in Table /\ NewTable(hand, turn, quiet).hand = hand
BY DEF NewTable, Table

(* The runtime's own steps. *)
LEMMA RuntimeTyped ==
  ASSUME TypeOK,
         \/ \E turn \in Turns : OtherEvent(turn)
         \/ QuietBroadcast
         \/ \E turn \in {"me", "other"} : RollOver(turn)
  PROVE  TypeOK'
<1> USE DEF wires
<1>0. /\ table \in Table /\ table.hand \in Nat /\ table.rev \in Nat /\ table.seq \in Nat
      /\ table.quiet \in Nat /\ 0 \in Nat \cup {Null} /\ Null \in Nat \cup {Null}
      /\ {"TimeoutAction", "DeadlineWarning"} \subseteq Reasons
  BY DEF TypeOK, Table, Reasons
<1>1. ASSUME NEW turn \in Turns, OtherEvent(turn) PROVE TypeOK'
  <2>1. table' = Advanced(table, turn) /\ Broadcast(table.seq + 1, "TimeoutAction", 0, table')
    BY <1>1 DEF OtherEvent
  <2>2. table' \in Table
    BY <2>1, <1>0, AdvancedFields
  <2>3. table'.hand \in Nat /\ table'.rev \in Nat /\ table'.turn \in Turns /\ table.seq + 1 \in Nat
    BY <2>2, <1>0 DEF Table
  <2>4. queue' \in Seq(Broadcasts) /\ subscribed' \in BOOLEAN /\ slow' \in BOOLEAN
    BY <1>0, <2>1, <2>3, BroadcastTyped
  <2> QED
    BY <1>1, <2>2, <2>4 DEF OtherEvent, TypeOK
<1>2. CASE QuietBroadcast
  <2>1. /\ table' = [table EXCEPT !.seq = @ + 1, !.quiet = table.quiet + 1]
        /\ Broadcast(table.seq + 1, "DeadlineWarning", Null, table')
    BY <1>2 DEF QuietBroadcast
  <2>2. table' \in Table
    BY <2>1, <1>0, table.quiet + 1 \in Nat, QuietFields
  <2>3. table'.hand \in Nat /\ table'.rev \in Nat /\ table'.turn \in Turns /\ table.seq + 1 \in Nat
    BY <2>2, <1>0 DEF Table
  <2>4. queue' \in Seq(Broadcasts) /\ subscribed' \in BOOLEAN /\ slow' \in BOOLEAN
    BY <1>0, <2>1, <2>3, BroadcastTyped
  <2> QED
    BY <1>2, <2>2, <2>4 DEF QuietBroadcast, TypeOK
<1>3. ASSUME NEW turn \in {"me", "other"}, RollOver(turn) PROVE TypeOK'
  <2>1. table' \in Table
    BY <1>0, <1>3, NewTables DEF RollOver, Turns
  <2> QED
    BY <1>3, <2>1 DEF RollOver, TypeOK
<1> QED
  BY <1>1, <1>2, <1>3

(* The connection thread between the runtime and the wire. *)
LEMMA ThreadTyped ==
  ASSUME TypeOK,
         \/ ServerDrain \/ ServerRead \/ SubmitRefused \/ TakeSnapshot \/ AnswerSnapshot \/ ServerEnds
         \/ \E turn \in Turns : SubmitApplied(turn)
  PROVE  TypeOK'
<1> USE DEF wires
<1>0. /\ table \in Table /\ table.hand \in Nat /\ table.rev \in Nat /\ table.seq \in Nat
      /\ table.turn \in Turns /\ TableSnapshot(table) \in Snaps
      /\ server \in Servers /\ server.inbox \in Seq(Asks)
      /\ Null \in Nat \cup {Null} /\ "ActionAccepted" \in Reasons
  BY TableSnapshots DEF TypeOK, Table, Reasons, Servers
<1>1. CASE ServerDrain
  <2>1. Head(queue) \in Replies /\ Tail(queue) \in Seq(Broadcasts)
    BY <1>1, Trimmed DEF ServerDrain, TypeOK, Replies
  <2>2. toClient' \in Seq(Replies)
    BY <1>1, <2>1, SentTyped DEF ServerDrain
  <2> QED
    BY <1>1, <2>1, <2>2 DEF ServerDrain, TypeOK
<1>2. CASE ServerRead
  <2>1. server' \in Servers /\ server'.phase = "serve"
    BY <1>2 DEF ServerRead, TypeOK, Servers
  <2> QED
    BY <1>2, <2>1 DEF ServerRead, TypeOK
<1>3. CASE SubmitRefused
  <2>1. server.inbox # <<>> /\ Head(server.inbox).kind = "Command" /\ table' = table
    BY <1>3 DEF SubmitRefused, Serving
  <2>2. Head(server.inbox) \in Commands
    <3>1. Head(server.inbox) \in Asks
      BY <1>0, <2>1, Trimmed
    <3> QED
      BY <3>1, <2>1 DEF Asks
  <2>3. Answer(Head(server.inbox)) \in Replies /\ ServerError \in Replies
    BY <1>0, <2>1, <2>2 DEF Answer, Replies, Responses, Commands
  <2>4. toClient' \in Seq(Replies)
    BY <1>3, <2>3, SentTyped DEF SubmitRefused
  <2> QED
    BY <1>3, <2>1, <2>4, ServedTyped DEF SubmitRefused, TypeOK
<1>4. CASE TakeSnapshot
  <2>1. server.inbox # <<>>
    BY <1>4 DEF TakeSnapshot, Serving
  <2>2. ServerError \in Replies
    BY DEF Replies
  <2>3. toClient' \in Seq(Replies)
    BY <1>4, <2>2, SentTyped DEF TakeSnapshot, TypeOK
  <2>4. CASE Alive
    <3>1. server' = [server EXCEPT !.phase = "metrics", !.held = TableSnapshot(table)]
      BY <1>4, <2>4 DEF TakeSnapshot
    <3>2. server' \in Servers /\ server'.held \in Snaps /\ server'.inbox # <<>>
      BY <1>0, <2>1, <3>1 DEF Servers
    <3> QED
      BY <1>4, <2>1, <2>3, <3>2, <3>1 DEF TakeSnapshot, TypeOK
  <2>5. CASE ~Alive
    BY <1>4, <2>1, <2>3, <2>5, ServedTyped DEF TakeSnapshot, TypeOK
  <2> QED
    BY <2>4, <2>5
<1>5. CASE AnswerSnapshot
  <2>1. server.phase = "metrics" /\ server.held \in Snaps
    BY <1>5 DEF AnswerSnapshot, TypeOK
  <2>2. CASE Alive
    <3>1. UpdateOf(table.seq, "Initial", Null, server.held) \in Replies
      BY <1>0, <2>1, UpdatesBuilt DEF Replies
    <3>2. toClient' \in Seq(Replies)
      BY <1>5, <2>2, <3>1, SentTyped DEF AnswerSnapshot
    <3>3. server' = [Served(server) EXCEPT !.held = Null]
      BY <1>5, <2>2 DEF AnswerSnapshot
    <3>4. server' \in Servers /\ server'.phase \in {"drain", "serve"}
      <4>1. Tail(server.inbox) \in Seq(Asks) \/ server.inbox = <<>>
        BY <1>0, Trimmed
      <4>2. server.inbox # <<>>
        BY <2>1 DEF TypeOK
      <4>3. Served(server) \in Servers /\ Served(server).phase \in {"drain", "serve"}
        BY <4>2, ServedTyped
      <4> QED
        BY <3>3, <4>3 DEF Servers
    <3> QED
      BY <1>5, <2>2, <3>2, <3>4 DEF AnswerSnapshot, TypeOK
  <2>3. CASE ~Alive
    BY <1>5, <2>3, NewServers, 0 \in Nat DEF AnswerSnapshot, TypeOK
  <2> QED
    BY <2>2, <2>3
<1>6. CASE ServerEnds
  <2>1. [kind |-> "Goodbye"] \in Replies
    BY DEF Replies
  <2>2. toClient' \in Seq(Replies)
    BY <1>6, <2>1, SentTyped DEF ServerEnds
  <2>3. table' \in Table
    BY <1>0, <1>6, PlaceFields DEF ServerEnds
  <2>4. server' \in Servers /\ server'.phase = "gone" /\ queue' = <<>>
    BY <1>6, NewServers, 0 \in Nat DEF ServerEnds
  <2>5. subscribed' \in BOOLEAN /\ online' \in BOOLEAN
    BY <1>6 DEF ServerEnds, TypeOK
  <2>6. UNCHANGED <<slow, toServer, client, nextId, asked>>
    BY <1>6 DEF ServerEnds
  <2> QED
    BY <2>2, <2>3, <2>4, <2>5, <2>6 DEF TypeOK
<1>7. ASSUME NEW turn \in Turns, SubmitApplied(turn) PROVE TypeOK'
  <2> DEFINE m == Head(server.inbox)
  <2>1. server.inbox # <<>> /\ m.kind = "Command"
    BY <1>7 DEF SubmitApplied, Serving
  <2>2. m \in Commands
    <3>1. m \in Asks
      BY <1>0, <2>1, Trimmed
    <3> QED
      BY <3>1, <2>1 DEF Asks
  <2>3. table' = Advanced(table, turn) /\ table' \in Table
    BY <1>0, <1>7, AdvancedFields DEF SubmitApplied
  <2>4. table'.hand \in Nat /\ table'.rev \in Nat /\ table'.turn \in Turns /\ table'.seq \in Nat
    BY <2>3 DEF Table
  <2>5. m.id \in Nat \cup {Null} /\ m.id \in Nat
    BY <2>2 DEF Commands
  <2>6. Broadcast(table.seq + 1, "ActionAccepted", m.id, table') /\ toClient' = Sent(Answer(m))
    BY <1>7 DEF SubmitApplied
  <2>7. queue' \in Seq(Broadcasts) /\ subscribed' \in BOOLEAN /\ slow' \in BOOLEAN
    <3>1. table.seq + 1 \in Nat /\ "ActionAccepted" \in Reasons
      BY <1>0
    <3> QED
      BY <3>1, <2>4, <2>5, <2>6, BroadcastTyped
  <2>8. Answer(m) \in Replies
    BY <2>4, <2>5, TableSnapshots DEF Answer, Replies, Responses
  <2>9. toClient' \in Seq(Replies)
    BY <2>6, <2>8, SentTyped
  <2>10. server' \in Servers /\ server'.phase \in {"drain", "serve"}
    BY <1>7, <2>1, ServedTyped DEF SubmitApplied
  <2>11. UNCHANGED <<online, toServer, client, nextId, asked>>
    BY <1>7 DEF SubmitApplied
  <2> QED
    BY <2>3, <2>7, <2>9, <2>10, <2>11 DEF TypeOK
<1> QED
  BY <1>1, <1>2, <1>3, <1>4, <1>5, <1>6, <1>7

(* The terminal, and the connections it makes. *)
LEMMA TerminalTyped ==
  ASSUME TypeOK,
         \/ Welcome \/ RouteTimeout \/ Deliver \/ RequestSnapshot \/ Leave \/ ConnectionLost
         \/ \E acts \in BOOLEAN : Command(acts)
  PROVE  TypeOK'
<1> USE DEF wires
<1>0. /\ table \in Table /\ table.hand \in Nat /\ table.seq \in Nat /\ table.seq + 1 \in Nat
      /\ client \in Clients /\ client.snap \in Snaps /\ client.snap.rev \in Nat
      /\ <<>> \in Seq(Broadcasts) /\ <<>> \in Seq(Asks) /\ <<>> \in Seq(Replies)
  BY ClientFields DEF TypeOK, Table
<1>1. CASE Welcome
  <2>1. PICK seq \in Nat :
          /\ table' = [table EXCEPT !.seq = seq]
          /\ client' \in {Bootstrap(UpdateOf(seq, "Initial", Null, TableSnapshot(table'))),
                          ApplyMessage(client, [UpdateOf(seq, "Initial", Null, TableSnapshot(table'))
                                                  EXCEPT !.kind = "Welcome"])}
    <3>1. (IF online THEN table.seq ELSE table.seq + 1) \in Nat
      BY <1>0
    <3> QED
      BY <1>1, <3>1 DEF Welcome
  <2>2. table' \in Table
    BY <1>0, <2>1, PlaceFields
  <2>3. TableSnapshot(table') \in Snaps
    BY <2>2, TableSnapshots DEF Table
  <2>4. client' \in Clients
    BY <1>0, <2>1, <2>3, Bootstrapped, Resynchronized
  <2>5. server' \in Servers /\ server'.phase = "drain"
    BY <1>0, <1>1, NewServers DEF Welcome
  <2>6. /\ online' \in BOOLEAN /\ subscribed' \in BOOLEAN /\ slow' \in BOOLEAN
        /\ queue' = <<>> /\ toServer' = <<>> /\ toClient' = <<>> /\ UNCHANGED <<nextId, asked>>
    BY <1>1 DEF Welcome
  <2> QED
    BY <1>0, <2>2, <2>4, <2>5, <2>6 DEF TypeOK
<1>2. CASE RouteTimeout
  BY <1>0, <1>2, ClientsLeave DEF RouteTimeout, TypeOK
<1>3. CASE Deliver
  <2>1. Head(toClient) \in Replies /\ Tail(toClient) \in Seq(Replies)
    BY <1>3, Trimmed DEF Deliver, TypeOK
  <2>2. client' \in Clients
    BY <1>0, <1>3, <2>1, MessageApplied DEF Deliver
  <2> QED
    BY <1>3, <2>1, <2>2 DEF Deliver, TypeOK
<1>4. CASE RequestSnapshot
  <2>1. [kind |-> "SnapshotRequest"] \in Asks
    BY DEF Asks
  <2>2. toServer' \in Seq(Asks)
    BY <1>4, <2>1, Extended DEF RequestSnapshot, TypeOK
  <2>3. asked' \in Nat
    BY <1>4 DEF RequestSnapshot, TypeOK
  <2> QED
    BY <1>4, <2>2, <2>3 DEF RequestSnapshot, TypeOK
<1>5. CASE Leave
  <2>1. [kind |-> "Close"] \in Asks
    BY DEF Asks
  <2>2. toServer' \in Seq(Asks)
    BY <1>5, <2>1, Extended DEF Leave, TypeOK
  <2>3. client' \in Clients /\ toClient' = <<>>
    BY <1>0, <1>5, ClientsLeave DEF Leave
  <2> QED
    BY <1>0, <1>5, <2>2, <2>3 DEF Leave, TypeOK
<1>6. CASE ConnectionLost
  BY <1>0, <1>6, ClientsLeave DEF ConnectionLost, TypeOK
<1>7. ASSUME NEW acts \in BOOLEAN, Command(acts) PROVE TypeOK'
  <2>1. nextId \in Nat /\ nextId' = nextId + 1
    BY <1>7 DEF Command, TypeOK
  <2>2. client' \in Clients
    BY <1>0, <1>7, <2>1 DEF Command, Prepared, Clients
  <2>3. [kind |-> "Command", id |-> nextId, expected |-> client.snap.rev, acts |-> acts] \in Asks
    BY <1>0, <2>1 DEF Asks, Commands
  <2>4. toServer' \in Seq(Asks)
    BY <1>7, <2>3, Extended DEF Command, TypeOK
  <2> QED
    BY <1>7, <2>1, <2>2, <2>4 DEF Command, TypeOK
<1> QED
  BY <1>1, <1>2, <1>3, <1>4, <1>5, <1>6, <1>7

(* Every step. *)
LEMMA StepTyped == TypeOK /\ [RemoteNext]_rvars => TypeOK'
<1> SUFFICES ASSUME TypeOK, [RemoteNext]_rvars PROVE TypeOK'
  OBVIOUS
<1>1. CASE RemoteNext
  BY <1>1, RuntimeTyped, ThreadTyped, TerminalTyped DEF RemoteNext
<1>2. CASE UNCHANGED rvars
  BY <1>2 DEF rvars, TypeOK
<1> QED
  BY <1>1, <1>2

-----------------------------------------------------------------------------
(* Places and snapshots. *)

(* The table at one moment and at the next: it is the same, at its next place,
   or at its next revision too. *)
Follows(now, next) ==
  \/ next = now
  \/ next.seq = now.seq + 1 /\ next.snap = now.snap
  \/ next.seq = now.seq + 1 /\ next.snap.rev = now.snap.rev + 1

(* A chain stays one when its end moves on and members are dropped. *)
LEMMA ChainGrows ==
  ASSUME NEW F \in SUBSET FactSet, NEW now \in F, NEW next \in FactSet,
         InOrder(F, now), Follows(now, next),
         NEW G \in SUBSET (F \cup {next})
  PROVE  InOrder(G, next)
<1>1. \A p \in F \cup {next} : p.seq \in Nat /\ p.snap.rev \in Nat
  BY DEF FactSet, Snaps
<1>2. \A p \in F : p.seq <= now.seq /\ p.snap.rev <= now.snap.rev
  BY DEF InOrder
<1>3. \A p \in F \cup {next} : p.seq <= next.seq
  BY <1>1, <1>2 DEF Follows
<1>4. CASE next = now
  BY <1>3, <1>4 DEF InOrder
<1>5. CASE next.seq = now.seq + 1 /\ next.snap = now.snap
  <2>1. \A p, q \in F \cup {next} : p.seq <= q.seq => p.snap.rev <= q.snap.rev
    BY <1>1, <1>2, <1>5 DEF InOrder
  <2>2. \A p, q \in F \cup {next} : p.snap.rev = q.snap.rev => p.snap = q.snap
    BY <1>5 DEF InOrder
  <2> QED
    BY <1>3, <2>1, <2>2 DEF InOrder
<1>6. CASE next.seq = now.seq + 1 /\ next.snap.rev = now.snap.rev + 1
  <2>1. \A p, q \in F \cup {next} : p.seq <= q.seq => p.snap.rev <= q.snap.rev
    BY <1>1, <1>2, <1>6 DEF InOrder
  <2>2. \A p, q \in F \cup {next} : p.snap.rev = q.snap.rev => p.snap = q.snap
    BY <1>1, <1>2, <1>6 DEF InOrder
  <2> QED
    BY <1>3, <2>1, <2>2 DEF InOrder
<1> QED
  BY <1>4, <1>5, <1>6 DEF Follows

(* What is not newer than its place stays so. *)
LEMMA StaysNotNewer ==
  ASSUME NEW F \in SUBSET FactSet, NEW now \in F, NEW next \in FactSet,
         Follows(now, next), NEW G \in SUBSET (F \cup {next}),
         NEW w \in FactSet, w.seq <= now.seq, NotNewer(w, F)
  PROVE  NotNewer(w, G) /\ w.seq <= next.seq /\ w.snap.rev <= now.snap.rev
<1>1. \A p \in F \cup {next, w} : p.seq \in Nat /\ p.snap.rev \in Nat
  BY DEF FactSet, Snaps
<1>2. w.snap.rev <= now.snap.rev
  BY DEF NotNewer
<1>3. next.snap.rev >= w.snap.rev /\ w.seq <= next.seq
  BY <1>1, <1>2 DEF Follows
<1> QED
  BY <1>2, <1>3 DEF NotNewer

(* What the facts are. *)
LEMMA FactsAre ==
  \A p : p \in Facts <=>
    \/ p = Now
    \/ \E m \in Elements(queue) : p = Fact(m)
    \/ \E m \in Elements(toClient) : Told(m) /\ p = Fact(m)
    \/ Honest /\ p = Fact(client)
BY DEF Facts

(* The types of the facts. *)
LEMMA FactsTyped ==
  TypeOK => /\ Facts \subseteq FactSet /\ Now \in Facts /\ Now \in FactSet
            /\ Now.seq = table.seq /\ Now.snap = TableSnapshot(table) /\ Now.snap.rev = table.rev
            /\ Fact(client) \in FactSet
            /\ \A m \in Elements(queue) : m \in Broadcasts /\ Fact(m) \in FactSet
            /\ \A m \in Elements(toClient) : m \in Replies
            /\ \A m \in Broadcasts \cup Responses \cup SnapshotAnswers : Fact(m) \in FactSet
<1> SUFFICES ASSUME TypeOK
             PROVE  /\ Facts \subseteq FactSet /\ Now \in Facts /\ Now \in FactSet
                    /\ Now.seq = table.seq /\ Now.snap = TableSnapshot(table) /\ Now.snap.rev = table.rev
                    /\ Fact(client) \in FactSet
                    /\ \A m \in Elements(queue) : m \in Broadcasts /\ Fact(m) \in FactSet
                    /\ \A m \in Elements(toClient) : m \in Replies
                    /\ \A m \in Broadcasts \cup Responses \cup SnapshotAnswers : Fact(m) \in FactSet
  OBVIOUS
<1>1. \A m \in Broadcasts \cup Responses \cup SnapshotAnswers : Fact(m) \in FactSet
  BY UpdateKinds DEF Fact, FactSet
<1>2. \A m \in Elements(queue) : m \in Broadcasts
  BY DEF TypeOK, Elements
<1>3. \A m \in Elements(toClient) : m \in Replies
  BY DEF TypeOK, Elements
<1>4. table.seq \in Nat /\ TableSnapshot(table) \in Snaps /\ TableSnapshot(table).rev = table.rev
  BY TableSnapshots DEF TypeOK, Table
<1>5. /\ Now \in FactSet /\ Now.seq = table.seq /\ Now.snap = TableSnapshot(table)
      /\ Now.snap.rev = table.rev
  BY <1>4 DEF Now, FactSet
<1>6. Fact(client) \in FactSet
  BY ClientFields DEF Fact, FactSet, TypeOK
<1>7. Facts \subseteq FactSet /\ Now \in Facts
  BY <1>1, <1>2, <1>5, <1>6, FactsAre DEF Told
<1> QED
  BY <1>1, <1>2, <1>3, <1>5, <1>6, <1>7

(* The same of the next state. *)
LEMMA FactsTypedNext ==
  TypeOK' => /\ Facts' \subseteq FactSet /\ Now' \in Facts' /\ Now' \in FactSet
             /\ Now'.seq = table'.seq /\ Now'.snap = TableSnapshot(table') /\ Now'.snap.rev = table'.rev
             /\ Fact(client') \in FactSet
             /\ \A m \in Elements(queue') : m \in Broadcasts /\ Fact(m) \in FactSet
             /\ \A m \in Elements(toClient') : m \in Replies
             /\ \A p : p \in Facts' <=>
                  \/ p = Now'
                  \/ \E m \in Elements(queue') : p = Fact(m)
                  \/ \E m \in Elements(toClient') : Told(m) /\ p = Fact(m)
                  \/ Honest' /\ p = Fact(client')
<1>1. (\A p : p \in Facts <=>
        \/ p = Now
        \/ \E m \in Elements(queue) : p = Fact(m)
        \/ \E m \in Elements(toClient) : Told(m) /\ p = Fact(m)
        \/ Honest /\ p = Fact(client))'
  BY FactsAre, PTL
<1>2. (TypeOK => /\ Facts \subseteq FactSet /\ Now \in Facts /\ Now \in FactSet
                 /\ Now.seq = table.seq /\ Now.snap = TableSnapshot(table) /\ Now.snap.rev = table.rev
                 /\ Fact(client) \in FactSet
                 /\ \A m \in Elements(queue) : m \in Broadcasts /\ Fact(m) \in FactSet
                 /\ \A m \in Elements(toClient) : m \in Replies
                 /\ \A m \in Broadcasts \cup Responses \cup SnapshotAnswers : Fact(m) \in FactSet)'
  BY FactsTyped, PTL
<1> QED
  BY <1>1, <1>2

(* How the authority's side of a connection may write to it: something that is
   no answer to a snapshot request, and true. *)
Tells(m) == m \in Replies \ SnapshotAnswers /\ (Told(m) => Fact(m) \in Facts \cup {Now'})
ToldMore == toClient' = toClient \/ \E m : Tells(m) /\ toClient' = Append(toClient, m)
QueuedMore == \A m \in Elements(queue') : m \in Elements(queue) \/ Fact(m) = Now'
ClientKept ==
  /\ client'.seq = client.seq /\ client'.snap = client.snap
  /\ client'.broadcast = client.broadcast /\ asked' >= asked

(* A step of the authority's side keeps the chain, and the client and the
   answers on their way behind it. *)
LEMMA AuthorityKeepsChain ==
  ASSUME TypeOK, TypeOK', FactsInOrder, ClientNotNewer, AnswersNotNewer, AnswersCurrent,
         Follows(Now, Now'), ToldMore, QueuedMore, ClientKept
  PROVE  FactsInOrder' /\ ClientNotNewer' /\ AnswersNotNewer' /\ AnswersCurrent'
<1>1. Facts \in SUBSET FactSet /\ Now \in Facts /\ Now' \in FactSet /\ Now' \in Facts'
  BY FactsTyped, FactsTypedNext
<1>2. Fact(client') = Fact(client) /\ (Honest' => Honest) /\ asked \in Nat /\ asked' \in Nat
  BY DEF ClientKept, Fact, Honest, TypeOK
<1>3. \A m \in Elements(toClient') :
        m \in Elements(toClient) \/ (m \notin SnapshotAnswers /\ (Told(m) => Fact(m) \in Facts \cup {Now'}))
  <2>1. CASE toClient' = toClient
    BY <2>1
  <2>2. ASSUME NEW m, Tells(m), toClient' = Append(toClient, m)
        PROVE  Elements(toClient') = Elements(toClient) \cup {m}
    BY <2>2, Extended DEF Tells, TypeOK
  <2> QED
    BY <2>1, <2>2 DEF ToldMore, Tells
<1>4. Facts' \in SUBSET (Facts \cup {Now'})
  <2> SUFFICES ASSUME NEW p \in Facts' PROVE p \in Facts \cup {Now'}
    OBVIOUS
  <2>1. CASE p = Now'
    BY <2>1
  <2>2. ASSUME NEW m \in Elements(queue'), p = Fact(m) PROVE p \in Facts \cup {Now'}
    BY <2>2, FactsAre DEF QueuedMore
  <2>3. ASSUME NEW m \in Elements(toClient'), Told(m), p = Fact(m) PROVE p \in Facts \cup {Now'}
    BY <1>3, <2>3, FactsAre
  <2>4. CASE Honest' /\ p = Fact(client')
    BY <1>2, <2>4, FactsAre
  <2> QED
    BY <2>1, <2>2, <2>3, <2>4, FactsTypedNext
<1>5. FactsInOrder'
  BY <1>1, <1>4, ChainGrows DEF FactsInOrder
<1>6. \A w \in FactSet : w.seq <= table.seq /\ NotNewer(w, Facts) =>
        w.seq <= table'.seq /\ NotNewer(w, Facts')
  BY <1>1, <1>4, StaysNotNewer, FactsTyped, FactsTypedNext
<1>7. ClientNotNewer'
  <2>1. Fact(client).seq = client.seq /\ Fact(client) \in FactSet
    BY FactsTyped DEF Fact
  <2> QED
    BY <1>2, <1>6, <2>1 DEF ClientNotNewer, ClientKept
<1>8. AnswersNotNewer'
  <2> SUFFICES ASSUME NEW m \in Elements(toClient') \cap SnapshotAnswers
               PROVE  /\ asked' > 0 /\ m.seq <= table'.seq
                      /\ client'.snap.rev <= m.snap.rev /\ NotNewer(Fact(m), Facts')
    BY DEF AnswersNotNewer
  <2>1. m \in Elements(toClient) \cap SnapshotAnswers
    BY <1>3
  <2>2. Fact(m).seq = m.seq /\ Fact(m) \in FactSet
    BY <2>1, FactsTyped DEF Fact
  <2>3. asked > 0 /\ m.seq <= table.seq /\ client.snap.rev <= m.snap.rev /\ NotNewer(Fact(m), Facts)
    BY <2>1 DEF AnswersNotNewer
  <2> QED
    BY <1>2, <1>6, <2>2, <2>3 DEF ClientKept
<1>9. AnswersCurrent'
  <2>1. CASE toClient' = toClient
    BY <2>1 DEF AnswersCurrent
  <2>2. ASSUME NEW m, Tells(m), toClient' = Append(toClient, m) PROVE AnswersCurrent'
    <3>1. /\ DOMAIN toClient' = 1 .. Len(toClient) + 1 /\ DOMAIN toClient = 1 .. Len(toClient)
          /\ Len(toClient) \in Nat /\ toClient'[Len(toClient) + 1] = m
          /\ \A i \in DOMAIN toClient : toClient'[i] = toClient[i]
      BY <2>2, Extended DEF Tells, TypeOK
    <3>2. m \notin SnapshotAnswers
      BY <2>2 DEF Tells
    <3> SUFFICES ASSUME NEW i \in DOMAIN toClient', NEW j \in DOMAIN toClient', i < j,
                        toClient'[j] \in SnapshotAnswers,
                        toClient'[i] \in SnapshotAnswers \cup Broadcasts \cup Responses
                 PROVE  toClient'[i].snap.rev <= toClient'[j].snap.rev
      BY DEF AnswersCurrent
    <3>3. j \in DOMAIN toClient /\ i \in DOMAIN toClient
      BY <3>1, <3>2
    <3> QED
      BY <3>1, <3>3 DEF AnswersCurrent
  <2> QED
    BY <2>1, <2>2 DEF ToldMore
<1> QED
  BY <1>5, <1>7, <1>8, <1>9

(* Such a step while no answer to a snapshot request is half done, or one that
   writes nothing while one is. *)
LEMMA AuthorityKeepsSync ==
  ASSUME TypeOK, TypeOK', InSync,
         Follows(Now, Now'), ToldMore, QueuedMore, ClientKept,
         \/ server'.phase # "metrics"
         \/ server.phase = "metrics" /\ server'.held = server.held /\ toClient' = toClient
  PROVE  InSync'
<1>1. FactsInOrder' /\ ClientNotNewer' /\ AnswersNotNewer' /\ AnswersCurrent'
  BY AuthorityKeepsChain DEF InSync
<1>2. HeldCurrent'
  <2>1. CASE server'.phase # "metrics"
    BY <2>1 DEF HeldCurrent
  <2>2. CASE server.phase = "metrics" /\ server'.held = server.held /\ toClient' = toClient
    <3>1. table.rev \in Nat /\ table'.rev \in Nat /\ server.held.rev \in Nat
          /\ asked \in Nat /\ asked' \in Nat
      BY <2>2 DEF TypeOK, Table, Snaps
    <3>2. table'.rev >= table.rev
      BY <3>1, FactsTyped, FactsTypedNext DEF Follows
    <3>3. /\ asked > 0 /\ client.snap.rev <= server.held.rev /\ server.held.rev <= table.rev
          /\ \A m \in Elements(toClient) \cap (SnapshotAnswers \cup Broadcasts \cup Responses) :
               m.snap.rev <= server.held.rev
      BY <2>2 DEF InSync, HeldCurrent
    <3> QED
      BY <2>2, <3>1, <3>2, <3>3 DEF HeldCurrent, ClientKept
  <2> QED
    BY <2>1, <2>2
<1> QED
  BY <1>1, <1>2 DEF InSync

-----------------------------------------------------------------------------
(* The stream, as long as the subscription stands. *)

(* The places of what is on its way are no later than the table's. *)
LEMMA PlacesPast ==
  ASSUME TypeOK, FactsInOrder
  PROVE  /\ \A i \in DOMAIN queue : queue[i] \in Broadcasts /\ queue[i].seq \in Nat /\ queue[i].seq <= table.seq
         /\ \A i \in DOMAIN toClient : toClient[i] \in Broadcasts =>
              toClient[i].seq \in Nat /\ toClient[i].seq <= table.seq
         /\ table.seq \in Nat /\ client.seq \in Nat
<1>1. \A m \in Elements(queue) : m \in Broadcasts /\ m.seq \in Nat /\ m.seq <= table.seq
  <2> SUFFICES ASSUME NEW m \in Elements(queue) PROVE m \in Broadcasts /\ m.seq \in Nat /\ m.seq <= table.seq
    OBVIOUS
  <2>1. m \in Broadcasts /\ Fact(m) \in Facts
    BY FactsTyped, FactsAre
  <2>2. Fact(m).seq = m.seq
    BY DEF Fact
  <2> QED
    BY <2>1, <2>2, FactsTyped, UpdateKinds DEF FactsInOrder, InOrder
<1>2. \A m \in Elements(toClient) : m \in Broadcasts => m.seq \in Nat /\ m.seq <= table.seq
  <2> SUFFICES ASSUME NEW m \in Elements(toClient), m \in Broadcasts PROVE m.seq \in Nat /\ m.seq <= table.seq
    OBVIOUS
  <2>1. Fact(m) \in Facts
    BY FactsAre DEF Told
  <2>2. Fact(m).seq = m.seq
    BY DEF Fact
  <2> QED
    BY <2>1, <2>2, FactsTyped, UpdateKinds DEF FactsInOrder, InOrder
<1>3. table.seq \in Nat /\ client.seq \in Nat
  BY ClientFields DEF TypeOK, Table
<1> QED
  BY <1>1, <1>2, <1>3 DEF Elements

(* The buffer gains the next place of the stream, or nothing happened. *)
QueuedNext ==
  \/ queue' = queue /\ table'.seq = table.seq
  \/ \E u \in Broadcasts : /\ queue' = Append(queue, u)
                           /\ u.seq = table.seq + 1 /\ table'.seq = table.seq + 1
WroteNoBroadcast ==
  \/ toClient' = toClient
  \/ \E m \in Replies \ Broadcasts : toClient' = Append(toClient, m)

(* A write that is no broadcast leaves the broadcasts on the wire. *)
LEMMA WireKept ==
  ASSUME TypeOK, WroteNoBroadcast
  PROVE  /\ \A i \in DOMAIN toClient : i \in DOMAIN toClient' /\ toClient'[i] = toClient[i]
         /\ \A i \in DOMAIN toClient' : toClient'[i] \in Broadcasts => i \in DOMAIN toClient
<1>1. CASE toClient' = toClient
  BY <1>1
<1>2. ASSUME NEW m \in Replies \ Broadcasts, toClient' = Append(toClient, m)
      PROVE  /\ \A i \in DOMAIN toClient : i \in DOMAIN toClient' /\ toClient'[i] = toClient[i]
             /\ \A i \in DOMAIN toClient' : toClient'[i] \in Broadcasts => i \in DOMAIN toClient
  BY <1>2, Extended DEF TypeOK
<1> QED
  BY <1>1, <1>2 DEF WroteNoBroadcast

(* The stream grows at the end of the buffer. *)
LEMMA StreamGrows ==
  ASSUME TypeOK, FactsInOrder, NothingMissed, StreamInOrder,
         QueuedNext, WroteNoBroadcast, client'.seq = client.seq
  PROVE  NothingMissed' /\ StreamInOrder'
<1>1. /\ \A i \in DOMAIN toClient : i \in DOMAIN toClient' /\ toClient'[i] = toClient[i]
      /\ \A i \in DOMAIN toClient' : toClient'[i] \in Broadcasts => i \in DOMAIN toClient
  BY WireKept
<1>2. CASE queue' = queue /\ table'.seq = table.seq
  <2>1. \A n \in Nat : OnItsWay(n) => OnItsWay(n)'
    BY <1>1, <1>2 DEF OnItsWay
  <2>2. NothingMissed'
    BY <1>2, <2>1 DEF NothingMissed
  <2>3. StreamInOrder'
    BY <1>1, <1>2 DEF StreamInOrder
  <2> QED
    BY <2>2, <2>3
<1>3. ASSUME NEW u \in Broadcasts, queue' = Append(queue, u), u.seq = table.seq + 1,
             table'.seq = table.seq + 1
      PROVE  NothingMissed' /\ StreamInOrder'
  <2>1. /\ DOMAIN queue' = 1 .. Len(queue) + 1 /\ DOMAIN queue = 1 .. Len(queue) /\ Len(queue) \in Nat
        /\ \A i \in DOMAIN queue : i \in DOMAIN queue' /\ queue'[i] = queue[i]
        /\ \A i \in DOMAIN queue' : i \in DOMAIN queue \/ i = Len(queue) + 1
        /\ queue'[Len(queue) + 1] = u
    BY <1>3, Extended DEF TypeOK
  <2>2. \A n \in Nat : OnItsWay(n) => OnItsWay(n)'
    BY <1>1, <2>1 DEF OnItsWay
  <2>3. \A n \in Nat : n = table.seq + 1 => OnItsWay(n)'
    <3>1. Len(queue) + 1 \in DOMAIN queue' /\ queue'[Len(queue) + 1].seq = table.seq + 1
      BY <1>3, <2>1
    <3> QED
      BY <3>1 DEF OnItsWay
  <2>4. NothingMissed'
    <3> SUFFICES ASSUME NEW n \in Nat, client'.seq < n, n <= table'.seq PROVE OnItsWay(n)'
      BY DEF NothingMissed
    <3>1. n <= table.seq \/ n = table.seq + 1
      BY <1>3, PlacesPast
    <3>2. n <= table.seq => OnItsWay(n)
      BY DEF NothingMissed
    <3> QED
      BY <2>2, <2>3, <3>1, <3>2
  <2>5. \A i, j \in DOMAIN toClient' :
          i < j /\ toClient'[i] \in Broadcasts /\ toClient'[j] \in Broadcasts
            => toClient'[i].seq < toClient'[j].seq
    BY <1>1 DEF StreamInOrder
  <2>6. \A i, j \in DOMAIN queue' : i < j => queue'[i].seq < queue'[j].seq
    BY <1>3, <2>1, PlacesPast DEF StreamInOrder
  <2>7. \A i \in DOMAIN toClient', j \in DOMAIN queue' :
          toClient'[i] \in Broadcasts => toClient'[i].seq < queue'[j].seq
    BY <1>1, <1>3, <2>1, PlacesPast DEF StreamInOrder
  <2> QED
    BY <2>4, <2>5, <2>6, <2>7 DEF StreamInOrder
<1> QED
  BY <1>2, <1>3 DEF QueuedNext

(* The connection thread moves the first update of the buffer to the wire. *)
LEMMA StreamDrains ==
  ASSUME TypeOK, FactsInOrder, NothingMissed, StreamInOrder, queue # <<>>,
         toClient' = Append(toClient, Head(queue)), queue' = Tail(queue),
         client' = client, table' = table
  PROVE  NothingMissed' /\ StreamInOrder'
<1>1. /\ 1 \in DOMAIN queue /\ Head(queue) = queue[1] /\ Head(queue) \in Broadcasts
      /\ \A i \in DOMAIN queue' : i + 1 \in DOMAIN queue /\ i >= 1 /\ i \in Nat /\ queue'[i] = queue[i + 1]
      /\ \A i \in DOMAIN queue : i # 1 => i - 1 \in DOMAIN queue' /\ queue'[i - 1] = queue[i]
  BY Trimmed DEF TypeOK
<1>2. /\ DOMAIN toClient' = 1 .. Len(toClient) + 1 /\ DOMAIN toClient = 1 .. Len(toClient)
      /\ Len(toClient) \in Nat /\ toClient'[Len(toClient) + 1] = queue[1]
      /\ \A i \in DOMAIN toClient : i \in DOMAIN toClient' /\ toClient'[i] = toClient[i]
      /\ \A i \in DOMAIN toClient' : i \in DOMAIN toClient \/ i = Len(toClient) + 1
  BY <1>1, Extended DEF TypeOK, Replies
<1>3. \A n \in Nat : OnItsWay(n) => OnItsWay(n)'
  <2> SUFFICES ASSUME NEW n \in Nat, OnItsWay(n) PROVE OnItsWay(n)'
    OBVIOUS
  <2>1. CASE \E i \in DOMAIN toClient : toClient[i] \in Broadcasts /\ toClient[i].seq = n
    BY <1>2, <2>1 DEF OnItsWay
  <2>2. ASSUME NEW i \in DOMAIN queue, queue[i].seq = n PROVE OnItsWay(n)'
    <3>1. CASE i = 1
      <4>1. Len(toClient) + 1 \in DOMAIN toClient'
        BY <1>2
      <4> QED
        BY <1>1, <1>2, <2>2, <3>1, <4>1 DEF OnItsWay
    <3>2. CASE i # 1
      BY <1>1, <2>2, <3>2 DEF OnItsWay
    <3> QED
      BY <3>1, <3>2
  <2> QED
    BY <2>1, <2>2 DEF OnItsWay
<1>4. NothingMissed'
  BY <1>3 DEF NothingMissed
<1>5. \A i, j \in DOMAIN toClient' :
        i < j /\ toClient'[i] \in Broadcasts /\ toClient'[j] \in Broadcasts
          => toClient'[i].seq < toClient'[j].seq
  <2> SUFFICES ASSUME NEW i \in DOMAIN toClient', NEW j \in DOMAIN toClient', i < j,
                      toClient'[i] \in Broadcasts, toClient'[j] \in Broadcasts
               PROVE  toClient'[i].seq < toClient'[j].seq
    OBVIOUS
  <2>1. i \in DOMAIN toClient
    BY <1>2
  <2>2. CASE j \in DOMAIN toClient
    BY <1>2, <2>1, <2>2 DEF StreamInOrder
  <2>3. CASE j = Len(toClient) + 1
    BY <1>1, <1>2, <2>1, <2>3 DEF StreamInOrder
  <2> QED
    BY <1>2, <2>2, <2>3
<1>6. \A i, j \in DOMAIN queue' : i < j => queue'[i].seq < queue'[j].seq
  BY <1>1 DEF StreamInOrder
<1>7. \A i \in DOMAIN toClient', j \in DOMAIN queue' :
        toClient'[i] \in Broadcasts => toClient'[i].seq < queue'[j].seq
  <2> SUFFICES ASSUME NEW i \in DOMAIN toClient', NEW j \in DOMAIN queue', toClient'[i] \in Broadcasts
               PROVE  toClient'[i].seq < queue'[j].seq
    OBVIOUS
  <2>1. j + 1 \in DOMAIN queue /\ 1 < j + 1 /\ queue'[j] = queue[j + 1]
    BY <1>1
  <2>2. CASE i \in DOMAIN toClient
    BY <1>2, <2>1, <2>2 DEF StreamInOrder
  <2>3. CASE i = Len(toClient) + 1
    BY <1>1, <1>2, <2>1, <2>3 DEF StreamInOrder
  <2> QED
    BY <1>2, <2>2, <2>3
<1> QED
  BY <1>4, <1>5, <1>6, <1>7 DEF StreamInOrder

(* The client reads a message: a broadcast it reads is one it had, or the next. *)
LEMMA StreamDelivered ==
  ASSUME TypeOK, FactsInOrder, NothingMissed, StreamInOrder, Attached', Deliver
  PROVE  NothingMissed' /\ StreamInOrder'
<1> DEFINE m == Head(toClient)
<1>1. /\ toClient # <<>> /\ client' = ApplyMessage(client, m) /\ toClient' = Tail(toClient)
      /\ queue' = queue /\ table' = table
  BY DEF Deliver
<1>2. /\ 1 \in DOMAIN toClient /\ m = toClient[1] /\ m \in Replies
      /\ \A i \in DOMAIN toClient' : i + 1 \in DOMAIN toClient /\ i >= 1 /\ i \in Nat /\ toClient'[i] = toClient[i + 1]
      /\ \A i \in DOMAIN toClient : i # 1 => i - 1 \in DOMAIN toClient' /\ toClient'[i - 1] = toClient[i]
      /\ \A i \in DOMAIN toClient : i >= 1 /\ i \in Nat
  BY <1>1, Trimmed DEF TypeOK
<1>3. client \in Clients /\ client'.conn \notin {"Disconnected", "Failed"}
  BY DEF Attached, TypeOK
<1> HIDE DEF m
<1>4. /\ client'.seq >= client.seq /\ client'.seq \in Nat /\ client.seq \in Nat
      /\ m \in Broadcasts => client'.seq >= m.seq
  <2>0. client.seq \in Nat
    BY <1>3, ClientFields
  <2>1. CASE m \in Responses
    <3>1. m.seq \in Nat /\ m \notin Broadcasts
      BY <2>1, UpdateKinds
    <3>2. client'.seq = IF m.seq > client.seq THEN m.seq ELSE client.seq
      BY <1>1, <1>2, <1>3, <2>1, MessageApplied, ResponseApplied
    <3> QED
      BY <2>0, <3>1, <3>2
  <2>2. CASE m \in Broadcasts \cup SnapshotAnswers
    <3>1. m.seq \in Nat
      BY <2>2, UpdateKinds
    <3>2. client' = ApplyUpdate(client, m)
      BY <1>1, <1>2, <1>3, <2>2, MessageApplied
    <3>3. \/ m.seq <= client.seq /\ client'.seq = client.seq
          \/ m.seq > client.seq /\ m.seq # client.seq + 1 /\ client'.seq = client.seq
          \/ m.seq > client.seq /\ client'.seq = m.seq
      BY <1>3, <2>2, <3>2, UpdateApplied
    <3>4. ASSUME m \in Broadcasts, m.seq > client.seq PROVE m.seq = client.seq + 1
      <4>1. m.seq <= table.seq /\ client.seq + 1 \in Nat /\ table.seq \in Nat
        BY <1>2, <2>0, <3>4, PlacesPast
      <4>2. OnItsWay(client.seq + 1)
        BY <2>0, <3>1, <3>4, <4>1 DEF NothingMissed
      <4>3. CASE \E i \in DOMAIN toClient : toClient[i] \in Broadcasts /\ toClient[i].seq = client.seq + 1
        <5>1. PICK i \in DOMAIN toClient : toClient[i] \in Broadcasts /\ toClient[i].seq = client.seq + 1
          BY <4>3
        <5>2. i = 1 \/ m.seq < client.seq + 1
          BY <1>2, <3>4, <5>1 DEF StreamInOrder
        <5> QED
          BY <1>2, <2>0, <3>1, <3>4, <5>1, <5>2
      <4>4. CASE \E i \in DOMAIN queue : queue[i].seq = client.seq + 1
        <5>1. m.seq < client.seq + 1
          BY <1>2, <3>4, <4>4 DEF StreamInOrder
        <5> QED
          BY <2>0, <3>1, <3>4, <5>1
      <4> QED
        BY <4>2, <4>3, <4>4 DEF OnItsWay
    <3> QED
      BY <2>0, <3>1, <3>3, <3>4
  <2>3. CASE m \notin Broadcasts \cup SnapshotAnswers \cup Responses
    BY <1>1, <1>2, <1>3, <2>0, <2>3, MessageApplied
  <2> QED
    BY <2>1, <2>2, <2>3
<1>5. NothingMissed'
  <2> SUFFICES ASSUME NEW n \in Nat, client'.seq < n, n <= table'.seq PROVE OnItsWay(n)'
    BY DEF NothingMissed
  <2>1. client.seq < n /\ n <= table.seq
    BY <1>1, <1>4
  <2>2. OnItsWay(n)
    BY <2>1 DEF NothingMissed
  <2>3. CASE \E i \in DOMAIN toClient : toClient[i] \in Broadcasts /\ toClient[i].seq = n
    <3>1. PICK i \in DOMAIN toClient : toClient[i] \in Broadcasts /\ toClient[i].seq = n
      BY <2>3
    <3>2. i # 1
      BY <1>2, <1>4, <3>1
    <3> QED
      BY <1>2, <3>1, <3>2 DEF OnItsWay
  <2>4. CASE \E i \in DOMAIN queue : queue[i].seq = n
    BY <1>1, <2>4 DEF OnItsWay
  <2> QED
    BY <2>2, <2>3, <2>4 DEF OnItsWay
<1>6. \A i, j \in DOMAIN toClient' :
        i < j /\ toClient'[i] \in Broadcasts /\ toClient'[j] \in Broadcasts
          => toClient'[i].seq < toClient'[j].seq
  <2> SUFFICES ASSUME NEW i \in DOMAIN toClient', NEW j \in DOMAIN toClient', i < j,
                      toClient'[i] \in Broadcasts, toClient'[j] \in Broadcasts
               PROVE  toClient'[i].seq < toClient'[j].seq
    OBVIOUS
  <2>1. i + 1 \in DOMAIN toClient /\ j + 1 \in DOMAIN toClient /\ i + 1 < j + 1
    BY <1>2
  <2> QED
    BY <1>2, <2>1 DEF StreamInOrder
<1>7. \A i \in DOMAIN toClient', j \in DOMAIN queue' :
        toClient'[i] \in Broadcasts => toClient'[i].seq < queue'[j].seq
  BY <1>1, <1>2 DEF StreamInOrder
<1>8. \A i, j \in DOMAIN queue' : i < j => queue'[i].seq < queue'[j].seq
  BY <1>1 DEF StreamInOrder
<1> QED
  BY <1>5, <1>6, <1>7, <1>8 DEF StreamInOrder

-----------------------------------------------------------------------------
(* The client reads a message. *)

(* What a client shows after a message is its own or the message's snapshot, it
   is not newer than its place, and it is a fact if the client is to vouch for
   it: a broadcast was applied last. *)
LEMMA DeliveredClient ==
  ASSUME TypeOK, InSync, Attached', Deliver
  PROVE  /\ client' \in Clients
         /\ \/ client'.snap = client.snap
            \/ /\ client'.snap = Head(toClient).snap
               /\ Head(toClient) \in SnapshotAnswers \cup Broadcasts \cup Responses
         /\ Honest' => Fact(client') \in Facts
         /\ client'.seq <= table.seq /\ NotNewer(Fact(client'), Facts)
<1> DEFINE m == Head(toClient)
<1>1. /\ toClient # <<>> /\ client' = ApplyMessage(client, m) /\ UNCHANGED asked
  BY DEF Deliver
<1>2. m \in Replies /\ m \in Elements(toClient)
  BY <1>1, Trimmed DEF TypeOK
<1>3. client \in Clients /\ client'.conn \notin {"Disconnected", "Failed"}
  BY DEF Attached, TypeOK
<1>4. client' \in Clients
  BY <1>1, <1>2, <1>3, MessageApplied
<1>5. /\ client.seq \in Nat /\ client.snap.rev \in Nat /\ client'.seq \in Nat /\ client'.snap.rev \in Nat
      /\ table.seq \in Nat
  BY <1>3, <1>4, ClientFields DEF TypeOK, Table
<1>6. /\ client.seq <= table.seq /\ NotNewer(Fact(client), Facts)
      /\ Honest => Fact(client) \in Facts
  BY FactsAre DEF InSync, ClientNotNewer
<1>7. \A p \in Facts : p.seq \in Nat /\ p.snap.rev \in Nat /\ p.seq <= table.seq
  BY FactsTyped DEF FactSet, Snaps, InSync, FactsInOrder, InOrder
<1>8. /\ \A p, q \in Facts : p.seq <= q.seq => p.snap.rev <= q.snap.rev
      /\ \A p, q \in Facts : p.snap.rev = q.snap.rev => p.snap = q.snap
  BY DEF InSync, FactsInOrder, InOrder
<1>9. \A x : Fact(x).seq = x.seq /\ Fact(x).snap = x.snap
  BY DEF Fact
<1>10. \A x, y : x.seq = y.seq /\ x.snap = y.snap => Fact(x) = Fact(y)
  BY DEF Fact
<1> DEFINE Claim == /\ \/ client'.snap = client.snap
                       \/ client'.snap = m.snap /\ m \in SnapshotAnswers \cup Broadcasts \cup Responses
                    /\ Honest' => Fact(client') \in Facts
                    /\ client'.seq <= table.seq /\ NotNewer(Fact(client'), Facts)
<1> SUFFICES Claim
  BY <1>4
<1> HIDE DEF m
<1>11. ASSUME client'.seq = client.seq, client'.snap = client.snap, client'.broadcast = client.broadcast
       PROVE  Claim
  <2>1. Fact(client') = Fact(client)
    BY <1>11, <1>10
  <2>2. Honest' => Honest
    BY <1>1, <1>11 DEF Honest
  <2> QED
    BY <1>6, <1>11, <2>1, <2>2
<1>12. ASSUME m \in Broadcasts \cup Responses, client'.seq = m.seq, client'.snap = m.snap PROVE Claim
  <2>1. Fact(m) \in Facts
    BY <1>2, <1>12, FactsAre DEF Told
  <2>2. Fact(client') = Fact(m)
    BY <1>10, <1>12
  <2>3. NotNewer(Fact(m), Facts) /\ m.seq <= table.seq
    BY <1>7, <1>8, <1>9, <2>1 DEF NotNewer
  <2> QED
    BY <1>12, <2>1, <2>2, <2>3
<1>13. CASE m \in Responses
  <2>1. m.seq \in Nat /\ m.snap.rev \in Nat /\ Fact(m) \in Facts
    BY <1>2, <1>13, UpdateKinds, FactsAre DEF Told, Snaps
  <2>2. /\ client'.snap = IF m.snap.rev >= client.snap.rev THEN m.snap ELSE client.snap
        /\ client'.seq = IF m.seq > client.seq THEN m.seq ELSE client.seq
        /\ client'.broadcast = client.broadcast
    BY <1>1, <1>2, <1>3, <1>13, MessageApplied, ResponseApplied
  <2>3. CASE m.seq > client.seq
    <3>1. m.snap.rev >= client.snap.rev
      BY <1>5, <1>6, <1>9, <2>1, <2>3 DEF NotNewer
    <3> QED
      BY <1>12, <1>13, <2>2, <2>3, <3>1
  <2>4. CASE m.seq <= client.seq /\ m.snap.rev >= client.snap.rev
    <3>1. client'.seq = client.seq /\ client'.snap = m.snap
      BY <1>5, <2>1, <2>2, <2>4
    <3>2. CASE Honest
      <4>1. m.snap.rev <= client.snap.rev
        BY <1>6, <1>8, <1>9, <2>1, <2>4, <3>2
      <4>2. m.snap.rev = client.snap.rev
        BY <1>5, <2>1, <2>4, <4>1
      <4>3. m.snap = client.snap
        BY <1>6, <1>8, <1>9, <2>1, <3>2, <4>2
      <4> QED
        BY <1>11, <2>2, <3>1, <4>3
    <3>3. CASE ~Honest
      <4>1. ~Honest'
        BY <1>1, <2>2, <3>3 DEF Honest
      <4>2. NotNewer(Fact(client'), Facts)
        <5> SUFFICES ASSUME NEW p \in Facts, p.seq >= client'.seq PROVE p.snap.rev >= client'.snap.rev
          BY <1>9 DEF NotNewer
        <5>1. m.seq <= p.seq
          BY <1>5, <1>7, <2>1, <2>4, <3>1
        <5>2. m.snap.rev <= p.snap.rev
          BY <1>8, <1>9, <2>1, <5>1
        <5> QED
          BY <1>7, <2>1, <3>1, <5>2
      <4> QED
        BY <1>6, <1>13, <3>1, <4>1, <4>2
    <3> QED
      BY <3>2, <3>3
  <2>5. CASE m.seq <= client.seq /\ m.snap.rev < client.snap.rev
    <3>1. client'.seq = client.seq /\ client'.snap = client.snap
      BY <1>5, <2>1, <2>2, <2>5
    <3> QED
      BY <1>11, <2>2, <3>1
  <2> QED
    BY <1>5, <2>1, <2>3, <2>4, <2>5
<1>14. CASE m \in Broadcasts \cup SnapshotAnswers
  <2>1. m.seq \in Nat /\ m.snap.rev \in Nat
    BY <1>14, UpdateKinds DEF Snaps
  <2>2. client' = ApplyUpdate(client, m)
    BY <1>1, <1>2, <1>3, <1>14, MessageApplied
  <2>3. m.seq > client.seq => m.snap.rev >= client.snap.rev
    <3>1. CASE m \in SnapshotAnswers
      BY <1>2, <1>5, <2>1, <3>1 DEF InSync, AnswersNotNewer
    <3>2. CASE m \in Broadcasts
      <4>1. Fact(m) \in Facts
        BY <1>2, <3>2, FactsAre DEF Told
      <4> QED
        BY <1>5, <1>6, <1>9, <2>1, <4>1 DEF NotNewer
    <3> QED
      BY <1>14, <3>1, <3>2
  <2>4. \/ client'.seq = client.seq /\ client'.snap = client.snap /\ client'.broadcast = client.broadcast
        \/ client'.seq = m.seq /\ client'.snap = m.snap /\ client'.broadcast = (m.reason # "Initial")
    <3>1. \/ client' = client
          \/ client'.snap = client.snap /\ client'.seq = client.seq /\ client'.broadcast = client.broadcast
          \/ m.seq > client.seq /\ m.snap.rev < client.snap.rev
          \/ client'.snap = m.snap /\ client'.seq = m.seq /\ client'.broadcast = (m.reason # "Initial")
      BY <1>3, <1>14, <2>2, UpdateApplied
    <3>2. ~(m.seq > client.seq /\ m.snap.rev < client.snap.rev)
      BY <1>5, <2>1, <2>3
    <3> QED
      BY <3>1, <3>2
  <2>5. CASE client'.seq = m.seq /\ client'.snap = m.snap /\ client'.broadcast = (m.reason # "Initial")
    <3>1. CASE m \in Broadcasts
      BY <1>12, <2>5, <3>1
    <3>2. CASE m \in SnapshotAnswers
      <4>1. asked > 0 /\ m.seq <= table.seq /\ NotNewer(Fact(m), Facts)
        BY <1>2, <3>2 DEF InSync, AnswersNotNewer
      <4>2. m.reason = "Initial"
        BY <3>2, UpdateKinds
      <4>3. ~Honest'
        <5>1. client'.broadcast = FALSE
          BY <2>5, <4>2
        <5>2. asked' # 0
          BY <1>1, <4>1 DEF TypeOK
        <5> QED
          BY <5>1, <5>2 DEF Honest
      <4>4. Fact(client') = Fact(m)
        BY <1>10, <2>5
      <4> QED
        BY <2>5, <3>2, <4>1, <4>3, <4>4
    <3> QED
      BY <1>14, <3>1, <3>2
  <2> QED
    BY <1>11, <2>4, <2>5
<1>15. CASE m \notin Broadcasts \cup SnapshotAnswers \cup Responses
  BY <1>1, <1>2, <1>3, <1>11, <1>15, MessageApplied
<1> QED
  BY <1>13, <1>14, <1>15

(* The facts are fewer, and the answers that follow are no older. *)
LEMMA DeliveredSync ==
  ASSUME TypeOK, TypeOK', InSync, Attached', Deliver
  PROVE  InSync'
<1> DEFINE m == Head(toClient)
<1>1. /\ toClient # <<>> /\ toClient' = Tail(toClient)
      /\ UNCHANGED <<table, queue, server, asked>>
  BY DEF Deliver
<1>2. /\ 1 \in DOMAIN toClient /\ m = toClient[1]
      /\ \A i \in DOMAIN toClient' : i + 1 \in DOMAIN toClient /\ i >= 1 /\ i \in Nat /\ toClient'[i] = toClient[i + 1]
      /\ Elements(toClient) = {m} \cup Elements(toClient')
  BY <1>1, Trimmed DEF TypeOK
<1>3. Now' = Now
  BY <1>1 DEF Now
<1>4. Facts' \subseteq Facts
  <2> SUFFICES ASSUME NEW p \in Facts' PROVE p \in Facts
    OBVIOUS
  <2>1. CASE Honest' /\ p = Fact(client')
    BY <2>1, DeliveredClient
  <2> QED
    BY <1>1, <1>2, <1>3, <2>1, FactsAre, FactsTypedNext
<1>5. client.snap.rev \in Nat /\ client'.snap.rev \in Nat
  BY ClientFields DEF TypeOK
<1>6. FactsInOrder'
  BY <1>1, <1>3, <1>4 DEF InSync, FactsInOrder, InOrder
<1>7. ClientNotNewer'
  BY <1>1, <1>4, DeliveredClient DEF ClientNotNewer, NotNewer
<1>8. AnswersNotNewer'
  <2> SUFFICES ASSUME NEW a \in Elements(toClient') \cap SnapshotAnswers
               PROVE  /\ asked' > 0 /\ a.seq <= table'.seq
                      /\ client'.snap.rev <= a.snap.rev /\ NotNewer(Fact(a), Facts')
    BY DEF AnswersNotNewer
  <2>1. a \in Elements(toClient)
    BY <1>2
  <2>2. /\ asked > 0 /\ a.seq <= table.seq /\ client.snap.rev <= a.snap.rev
        /\ NotNewer(Fact(a), Facts)
    BY <2>1 DEF InSync, AnswersNotNewer
  <2>3. m \in SnapshotAnswers \cup Broadcasts \cup Responses => m.snap.rev <= a.snap.rev
    <3>1. PICK i \in DOMAIN toClient' : a = toClient'[i]
      BY DEF Elements
    <3>2. i + 1 \in DOMAIN toClient /\ 1 < i + 1 /\ a = toClient[i + 1]
      BY <1>2, <3>1
    <3> QED
      BY <1>2, <3>2 DEF InSync, AnswersCurrent
  <2>4. client'.snap.rev <= a.snap.rev
    BY <2>2, <2>3, DeliveredClient
  <2> QED
    BY <1>1, <1>4, <2>2, <2>4 DEF NotNewer
<1>9. AnswersCurrent'
  <2> SUFFICES ASSUME NEW i \in DOMAIN toClient', NEW j \in DOMAIN toClient', i < j,
                      toClient'[j] \in SnapshotAnswers,
                      toClient'[i] \in SnapshotAnswers \cup Broadcasts \cup Responses
               PROVE  toClient'[i].snap.rev <= toClient'[j].snap.rev
    BY DEF AnswersCurrent
  <2>1. i + 1 \in DOMAIN toClient /\ j + 1 \in DOMAIN toClient /\ i + 1 < j + 1
    BY <1>2
  <2> QED
    BY <1>2, <2>1 DEF InSync, AnswersCurrent
<1>10. HeldCurrent'
  <2> SUFFICES ASSUME server.phase = "metrics"
               PROVE  /\ asked' > 0
                      /\ client'.snap.rev <= server'.held.rev /\ server'.held.rev <= table'.rev
                      /\ \A a \in Elements(toClient') \cap (SnapshotAnswers \cup Broadcasts \cup Responses) :
                           a.snap.rev <= server'.held.rev
    BY <1>1 DEF HeldCurrent
  <2>1. /\ asked > 0
        /\ client.snap.rev <= server.held.rev /\ server.held.rev <= table.rev
        /\ \A a \in Elements(toClient) \cap (SnapshotAnswers \cup Broadcasts \cup Responses) :
             a.snap.rev <= server.held.rev
    BY DEF InSync, HeldCurrent
  <2>2. m \in Elements(toClient)
    BY <1>2
  <2>3. client'.snap.rev <= server.held.rev
    BY <2>1, <2>2, DeliveredClient
  <2> QED
    BY <1>1, <1>2, <2>1, <2>3
<1> QED
  BY <1>6, <1>7, <1>8, <1>9, <1>10 DEF InSync

-----------------------------------------------------------------------------
(* The steps, one by one. *)

(* A broadcast, with or without the response to the command it is the event of. *)
LEMMA BroadcastKeeps ==
  ASSUME TypeOK, TypeOK', InSync, Streaming,
         NEW reason \in Reasons, NEW event \in Nat \cup {Null},
         Broadcast(table.seq + 1, reason, event, table'),
         table'.seq = table.seq + 1, Follows(Now, Now'),
         UNCHANGED <<client, asked>>, ToldMore, WroteNoBroadcast,
         \/ server'.phase # "metrics"
         \/ server.phase = "metrics" /\ server'.held = server.held /\ toClient' = toClient
  PROVE  InSync' /\ Streaming'
<1> DEFINE u == UpdateOf(table.seq + 1, reason, event, TableSnapshot(table'))
<1>1. table.seq + 1 \in Nat /\ TableSnapshot(table') \in Snaps
  BY TableSnapshots DEF TypeOK, Table
<1>2. u \in Broadcasts /\ u.seq = table.seq + 1 /\ u.snap = TableSnapshot(table')
  BY <1>1 DEF UpdateOf, Broadcasts, UpdatesFor
<1>3. queue' = queue \/ queue' = Append(queue, u)
  BY DEF Broadcast
<1>4. subscribed' => subscribed /\ queue' = Append(queue, u)
  BY DEF Broadcast, TypeOK
<1> HIDE DEF u
<1>5. Fact(u) = Now'
  BY <1>2 DEF Fact, Now
<1>6. QueuedMore
  <2>1. CASE queue' = queue
    BY <2>1 DEF QueuedMore
  <2>2. CASE queue' = Append(queue, u)
    <3>1. Elements(queue') = Elements(queue) \cup {u}
      BY <1>2, <2>2, Extended DEF TypeOK
    <3> QED
      BY <1>5, <3>1 DEF QueuedMore
  <2> QED
    BY <1>3, <2>1, <2>2
<1>7. ClientKept
  BY DEF ClientKept, TypeOK
<1>8. InSync'
  BY <1>6, <1>7, AuthorityKeepsSync
<1>9. Streaming'
  <2> SUFFICES ASSUME subscribed' PROVE NothingMissed' /\ StreamInOrder'
    BY DEF Streaming
  <2>1. QueuedNext
    BY <1>2, <1>4 DEF QueuedNext
  <2> QED
    BY <1>4, <2>1, StreamGrows DEF Streaming, InSync
<1> QED
  BY <1>8, <1>9

(* A step that leaves the table and the buffer alone. *)
LEMMA QuietKeeps ==
  ASSUME TypeOK, TypeOK', InSync, Streaming,
         UNCHANGED <<table, queue, subscribed>>, ClientKept, ToldMore, WroteNoBroadcast,
         \/ server'.phase # "metrics"
         \/ server.phase = "metrics" /\ server'.held = server.held /\ toClient' = toClient
  PROVE  InSync' /\ Streaming'
<1>1. Follows(Now, Now') /\ QueuedMore /\ QueuedNext
  BY DEF Follows, Now, QueuedMore, QueuedNext
<1>2. InSync'
  BY <1>1, AuthorityKeepsSync
<1>3. Streaming'
  BY <1>1, StreamGrows DEF Streaming, InSync, ClientKept
<1> QED
  BY <1>2, <1>3

(* The runtime's own steps. *)
LEMMA RuntimeKeepsSync ==
  ASSUME TypeOK, TypeOK', Attached => InSync /\ Streaming, Attached', ServesKnownHand,
         \/ \E turn \in Turns : OtherEvent(turn)
         \/ QuietBroadcast
         \/ \E turn \in {"me", "other"} : RollOver(turn)
  PROVE  InSync' /\ Streaming'
<1>0. /\ table \in Table /\ table.quiet + 1 \in Nat /\ 0 \in Nat \cup {Null} /\ Null \in Nat \cup {Null}
      /\ {"TimeoutAction", "DeadlineWarning"} \subseteq Reasons
  <2>1. table \in Table
    BY DEF TypeOK
  <2>2. table.quiet + 1 \in Nat
    BY <2>1 DEF Table
  <2> QED
    BY <2>1, <2>2 DEF Reasons
<1>1. ASSUME NEW turn \in Turns, OtherEvent(turn) PROVE InSync' /\ Streaming'
  <2>1. /\ table' = Advanced(table, turn) /\ Broadcast(table.seq + 1, "TimeoutAction", 0, table')
        /\ UNCHANGED <<server, toClient, client, asked>>
    BY <1>1 DEF OtherEvent, wires
  <2>2. table'.hand = table.hand /\ table'.rev = table.rev + 1 /\ table'.seq = table.seq + 1
    BY <1>0, <2>1, AdvancedFields
  <2>3. InSync /\ Streaming
    BY <2>1, <2>2 DEF Attached, Alive
  <2>4. Follows(Now, Now')
    BY <2>2, FactsTyped, FactsTypedNext DEF Follows
  <2> QED
    BY <1>0, <2>1, <2>2, <2>3, <2>4, BroadcastKeeps DEF ToldMore, WroteNoBroadcast
<1>2. CASE QuietBroadcast
  <2>1. /\ table' = [table EXCEPT !.seq = @ + 1, !.quiet = table.quiet + 1]
        /\ Broadcast(table.seq + 1, "DeadlineWarning", Null, table')
        /\ UNCHANGED <<server, toClient, client, asked>>
    BY <1>2 DEF QuietBroadcast, wires
  <2>2. /\ table'.hand = table.hand /\ table'.rev = table.rev /\ table'.turn = table.turn
        /\ table'.seq = table.seq + 1
    BY <1>0, <2>1, QuietFields
  <2>3. InSync /\ Streaming
    BY <2>1, <2>2 DEF Attached, Alive
  <2>4. Follows(Now, Now')
    BY <2>2, FactsTyped, FactsTypedNext DEF Follows, TableSnapshot
  <2> QED
    BY <1>0, <2>1, <2>2, <2>3, <2>4, BroadcastKeeps DEF ToldMore, WroteNoBroadcast
<1>3. ASSUME NEW turn \in {"me", "other"}, RollOver(turn) PROVE InSync' /\ Streaming'
  <2>1. table.hand \in Nat /\ server.hand \in Nat /\ server.hand <= table.hand
    BY ServerFields DEF ServesKnownHand
  <2>2. table'.hand = table.hand + 1 /\ server' = server
    BY <1>3 DEF RollOver, NewTable
  <2>3. server.hand = table.hand + 1
    BY <2>2 DEF Attached, Alive
  <2> QED
    BY <2>1, <2>3
<1> QED
  BY <1>1, <1>2, <1>3

(* The client that took the answer to its snapshot request to the wire: what the
   thread held is no newer than the table. *)
LEMMA AnswerKeepsSync ==
  ASSUME TypeOK, TypeOK', InSync, Streaming, Attached', AnswerSnapshot
  PROVE  InSync' /\ Streaming'
<1> DEFINE a == UpdateOf(table.seq, "Initial", Null, server.held)
<1>1. server.phase = "metrics" /\ server.held \in Snaps /\ server.inbox # <<>>
  BY DEF AnswerSnapshot, TypeOK
<1>2. Alive
  BY DEF AnswerSnapshot, Attached, Alive, Gone
<1>3. /\ toClient' = Append(toClient, a) /\ server' = [Served(server) EXCEPT !.held = Null]
      /\ UNCHANGED <<table, subscribed, queue, client, asked>>
  BY <1>2 DEF AnswerSnapshot, Attached, Sent
<1>4. server'.phase # "metrics"
  BY <1>1, <1>3, ServedTyped DEF Servers
<1>5. table.seq \in Nat /\ Null \in Nat \cup {Null}
  BY DEF TypeOK, Table
<1>6. a \in SnapshotAnswers /\ a.seq = table.seq /\ a.snap = server.held
  BY <1>1, <1>5 DEF UpdateOf, SnapshotAnswers, UpdatesFor
<1> HIDE DEF a
<1>7. a \in Replies \ Broadcasts /\ a \notin Responses
  BY <1>6, UpdateKinds DEF Replies
<1>8. Elements(toClient') = Elements(toClient) \cup {a}
  BY <1>3, <1>7, Extended DEF TypeOK
<1>9. /\ DOMAIN toClient' = 1 .. Len(toClient) + 1 /\ DOMAIN toClient = 1 .. Len(toClient)
      /\ Len(toClient) \in Nat /\ toClient'[Len(toClient) + 1] = a
      /\ \A i \in DOMAIN toClient : toClient'[i] = toClient[i]
  BY <1>3, <1>7, Extended DEF TypeOK
<1>10. Now' = Now /\ (Honest' <=> Honest) /\ Fact(client') = Fact(client)
  BY <1>3 DEF Now, Honest
<1>11. Facts' = Facts
  <2>1. \A p : p \in Facts' <=> p \in Facts
    BY <1>3, <1>7, <1>8, <1>10, FactsAre, FactsTypedNext DEF Told
  <2> QED
    BY <2>1
<1>12. FactsInOrder'
  BY <1>10, <1>11 DEF InSync, FactsInOrder
<1>13. ClientNotNewer'
  BY <1>3, <1>10, <1>11 DEF InSync, ClientNotNewer
<1>14. /\ asked > 0 /\ client.snap.rev <= a.snap.rev /\ a.snap.rev <= table.rev
       /\ \A m \in Elements(toClient) \cap (SnapshotAnswers \cup Broadcasts \cup Responses) :
            m.snap.rev <= a.snap.rev
  BY <1>1, <1>6 DEF InSync, HeldCurrent
<1>15. NotNewer(Fact(a), Facts)
  <2> SUFFICES ASSUME NEW p \in Facts, p.seq >= a.seq PROVE p.snap.rev >= a.snap.rev
    BY DEF NotNewer, Fact
  <2>1. p.seq \in Nat /\ p.snap.rev \in Nat /\ table.rev \in Nat /\ a.snap.rev \in Nat
    BY <1>1, <1>6, FactsTyped DEF FactSet, Snaps, TypeOK, Table
  <2>2. Now \in Facts /\ Now.seq <= p.seq /\ Now.snap.rev = table.rev
    BY <1>6, FactsTyped
  <2>3. table.rev <= p.snap.rev
    BY <2>2 DEF InSync, FactsInOrder, InOrder
  <2> QED
    BY <1>14, <2>1, <2>3
<1>16. AnswersNotNewer'
  <2> SUFFICES ASSUME NEW m \in Elements(toClient') \cap SnapshotAnswers
               PROVE  /\ asked' > 0 /\ m.seq <= table'.seq
                      /\ client'.snap.rev <= m.snap.rev /\ NotNewer(Fact(m), Facts')
    BY DEF AnswersNotNewer
  <2>1. CASE m = a
    BY <1>3, <1>5, <1>6, <1>11, <1>14, <1>15, <2>1
  <2>2. CASE m \in Elements(toClient)
    BY <1>3, <1>11, <2>2 DEF InSync, AnswersNotNewer
  <2> QED
    BY <1>8, <2>1, <2>2
<1>17. AnswersCurrent'
  <2> SUFFICES ASSUME NEW i \in DOMAIN toClient', NEW j \in DOMAIN toClient', i < j,
                      toClient'[j] \in SnapshotAnswers,
                      toClient'[i] \in SnapshotAnswers \cup Broadcasts \cup Responses
               PROVE  toClient'[i].snap.rev <= toClient'[j].snap.rev
    BY DEF AnswersCurrent
  <2>1. i \in DOMAIN toClient /\ toClient'[i] = toClient[i]
    BY <1>9
  <2>2. CASE j \in DOMAIN toClient
    BY <1>9, <2>1, <2>2 DEF InSync, AnswersCurrent
  <2>3. CASE j = Len(toClient) + 1
    BY <1>9, <1>14, <2>1, <2>3 DEF Elements
  <2> QED
    BY <1>9, <2>2, <2>3
<1>18. InSync'
  BY <1>4, <1>12, <1>13, <1>16, <1>17 DEF InSync, HeldCurrent
<1>19. QueuedNext /\ WroteNoBroadcast
  BY <1>3, <1>7 DEF QueuedNext, WroteNoBroadcast
<1>20. Streaming'
  BY <1>3, <1>19, StreamGrows DEF Streaming, InSync
<1> QED
  BY <1>18, <1>20

(* The first half of that answer: what the thread takes is as new as anything. *)
LEMMA TakeKeepsSync ==
  ASSUME TypeOK, TypeOK', RequestsCounted, Attached => InSync /\ Streaming, Attached', TakeSnapshot
  PROVE  InSync' /\ Streaming'
<1>1. server.inbox # <<>> /\ Head(server.inbox).kind = "SnapshotRequest" /\ server.phase = "serve"
  BY DEF TakeSnapshot, Serving
<1>2. Alive
  <2>1. ~Alive => server'.hand = server.hand
    BY <1>1, ServedTyped DEF TakeSnapshot
  <2>2. table' = table
    BY DEF TakeSnapshot
  <2> QED
    BY <1>1, <2>1, <2>2 DEF Attached, Alive
<1>3. /\ server' = [server EXCEPT !.phase = "metrics", !.held = TableSnapshot(table)]
      /\ UNCHANGED <<toClient, table, subscribed, queue, client, asked>>
  BY <1>2 DEF TakeSnapshot
<1>4. InSync /\ Streaming
  BY <1>2, <1>3 DEF Attached
<1>5. server'.held = TableSnapshot(table) /\ server'.held.rev = table.rev
  BY <1>3, ServerFields, TableSnapshots DEF TypeOK, Servers
<1>6. ToldMore /\ QueuedMore /\ ClientKept /\ Follows(Now, Now') /\ QueuedNext /\ WroteNoBroadcast
  BY <1>3 DEF ToldMore, QueuedMore, ClientKept, Follows, Now, QueuedNext, WroteNoBroadcast, TypeOK
<1>7. FactsInOrder' /\ ClientNotNewer' /\ AnswersNotNewer' /\ AnswersCurrent'
  BY <1>4, <1>6, AuthorityKeepsChain DEF InSync
<1>8. asked > 0
  <2>1. Head(server.inbox) \in Elements(server.inbox)
    BY <1>1, ServerFields, Trimmed
  <2> QED
    BY <1>1, <2>1 DEF RequestsCounted
<1>9. Now \in Facts /\ Now.seq = table.seq /\ Now.snap.rev = table.rev /\ table.rev \in Nat
  BY FactsTyped, ServerFields
<1>10. client.snap.rev <= table.rev
  BY <1>4, <1>9 DEF InSync, ClientNotNewer, NotNewer, Fact
<1>11. \A m \in Elements(toClient) \cap (SnapshotAnswers \cup Broadcasts \cup Responses) :
         m.snap.rev <= table.rev
  <2> SUFFICES ASSUME NEW m \in Elements(toClient) \cap (SnapshotAnswers \cup Broadcasts \cup Responses)
               PROVE  m.snap.rev <= table.rev
    OBVIOUS
  <2>1. CASE m \in SnapshotAnswers
    BY <1>4, <1>9, <2>1 DEF InSync, AnswersNotNewer, NotNewer, Fact
  <2>2. CASE m \in Broadcasts \cup Responses
    <3>1. Fact(m) \in Facts /\ Fact(m).snap = m.snap
      BY <2>2, FactsAre DEF Told, Fact
    <3>2. Fact(m).seq <= Now.seq
      BY <1>4, <1>9, <3>1 DEF InSync, FactsInOrder, InOrder
    <3> QED
      BY <1>4, <1>9, <3>1, <3>2 DEF InSync, FactsInOrder, InOrder
  <2> QED
    BY <2>1, <2>2
<1>12. HeldCurrent'
  BY <1>3, <1>5, <1>8, <1>9, <1>10, <1>11 DEF HeldCurrent
<1>13. Streaming'
  BY <1>3, <1>4, <1>6, StreamGrows DEF Streaming, InSync
<1> QED
  BY <1>7, <1>12, <1>13 DEF InSync

(* The connection thread. *)
LEMMA ThreadKeepsSync ==
  ASSUME TypeOK, TypeOK', RequestsCounted, Attached => InSync /\ Streaming, Attached',
         \/ ServerDrain \/ ServerRead \/ SubmitRefused \/ TakeSnapshot \/ AnswerSnapshot \/ ServerEnds
         \/ \E turn \in Turns : SubmitApplied(turn)
  PROVE  InSync' /\ Streaming'
<1>0. /\ table \in Table /\ TableSnapshot(table) \in Snaps /\ table.seq \in Nat
      /\ server \in Servers /\ server.inbox \in Seq(Asks)
  BY ServerFields, TableSnapshots DEF TypeOK
<1>1. CASE ServerDrain
  <2>1. queue # <<>> /\ queue' = Tail(queue) /\ toClient' = Sent(Head(queue))
        /\ UNCHANGED <<table, subscribed, server, client, asked>> /\ server.phase = "drain"
    BY <1>1 DEF ServerDrain
  <2>2. InSync /\ Streaming /\ toClient' = Append(toClient, Head(queue))
    BY <2>1 DEF Attached, Alive, Sent
  <2>3. Head(queue) \in Broadcasts /\ Elements(queue) = {Head(queue)} \cup Elements(queue')
    BY <2>1, Trimmed DEF TypeOK
  <2>4. Tells(Head(queue))
    <3>1. Head(queue) \in Replies \ SnapshotAnswers
      BY <2>3, UpdateKinds DEF Replies
    <3>2. Fact(Head(queue)) \in Facts
      BY <2>3, FactsAre
    <3> QED
      BY <3>1, <3>2 DEF Tells
  <2>5. ToldMore /\ QueuedMore /\ ClientKept /\ Follows(Now, Now')
    BY <2>1, <2>2, <2>3, <2>4 DEF ToldMore, QueuedMore, ClientKept, Follows, Now, TypeOK
  <2>6. InSync'
    BY <2>1, <2>2, <2>5, AuthorityKeepsSync
  <2>7. Streaming'
    BY <2>1, <2>2, StreamDrains DEF Streaming, InSync
  <2> QED
    BY <2>6, <2>7
<1>2. CASE ServerRead
  <2>1. /\ server'.phase = "serve" /\ server'.hand = server.hand /\ server.phase = "drain"
        /\ UNCHANGED <<table, subscribed, queue, toClient, client, asked>>
    BY <1>0, <1>2 DEF ServerRead, Servers
  <2>2. InSync /\ Streaming
    BY <2>1 DEF Attached, Alive
  <2> QED
    BY <2>1, <2>2, QuietKeeps DEF ToldMore, ClientKept, WroteNoBroadcast, TypeOK
<1>3. CASE SubmitRefused
  <2> DEFINE m == Head(server.inbox)
  <2>1. /\ server.inbox # <<>> /\ m.kind = "Command" /\ server.phase = "serve"
        /\ UNCHANGED <<table, subscribed, queue, client, asked>> /\ server' = Served(server)
    BY <1>3 DEF SubmitRefused, Serving
  <2>2. server'.hand = server.hand /\ server'.phase \in {"drain", "serve"}
    BY <2>1, ServedTyped
  <2>3. Attached /\ Alive
    BY <2>1, <2>2 DEF Attached, Alive
  <2>4. toClient' = Append(toClient, Answer(m))
    BY <1>3, <2>3 DEF SubmitRefused, Sent, Attached
  <2>5. m \in Commands
    <3>1. m \in Asks
      BY <1>0, <2>1, Trimmed
    <3> QED
      BY <2>1, <3>1 DEF Asks
  <2>6. Answer(m) \in Responses /\ Fact(Answer(m)) = Now'
    BY <1>0, <2>1, <2>5 DEF Answer, Responses, Commands, Fact, Now
  <2>7. Answer(m) \in Replies \ SnapshotAnswers /\ Answer(m) \notin Broadcasts
    BY <2>6, UpdateKinds DEF Replies
  <2>8. ToldMore /\ ClientKept /\ WroteNoBroadcast
    BY <2>1, <2>4, <2>6, <2>7 DEF ToldMore, Tells, ClientKept, WroteNoBroadcast, TypeOK
  <2> QED
    BY <2>1, <2>2, <2>3, <2>8, QuietKeeps
<1>4. CASE TakeSnapshot
  BY <1>4, TakeKeepsSync
<1>5. CASE AnswerSnapshot
  <2>1. Alive
    BY <1>5 DEF AnswerSnapshot, Attached, Alive, Gone
  <2>2. Attached
    BY <1>5, <2>1 DEF AnswerSnapshot, Attached
  <2> QED
    BY <1>5, <2>2, AnswerKeepsSync
<1>6. CASE ServerEnds
  BY <1>6 DEF ServerEnds, Attached, Alive, Gone
<1>7. ASSUME NEW turn \in Turns, SubmitApplied(turn) PROVE InSync' /\ Streaming'
  <2> DEFINE m == Head(server.inbox)
  <2>1. /\ server.inbox # <<>> /\ m.kind = "Command" /\ server.phase = "serve" /\ Alive
        /\ UNCHANGED <<client, asked>> /\ server' = Served(server)
        /\ table' = Advanced(table, turn) /\ Broadcast(table.seq + 1, "ActionAccepted", m.id, table')
        /\ toClient' = Sent(Answer(m))
    BY <1>7 DEF SubmitApplied, Serving
  <2>2. server'.phase \in {"drain", "serve"}
    BY <2>1, ServedTyped
  <2>3. table'.hand = table.hand /\ table'.rev = table.rev + 1 /\ table'.seq = table.seq + 1
    BY <1>0, <2>1, AdvancedFields
  <2>4. Attached
    BY <2>1 DEF Attached
  <2>5. m \in Commands
    <3>1. m \in Asks
      BY <1>0, <2>1, Trimmed
    <3> QED
      BY <2>1, <3>1 DEF Asks
  <2>6. table'.seq \in Nat /\ TableSnapshot(table') \in Snaps /\ m.id \in Nat \cup {Null}
    BY <2>5, TableSnapshots DEF TypeOK, Table, Commands
  <2>7. Answer(m) \in Responses /\ Fact(Answer(m)) = Now'
    BY <2>5, <2>6 DEF Answer, Responses, Commands, Fact, Now
  <2>8. Answer(m) \in Replies \ SnapshotAnswers /\ Answer(m) \notin Broadcasts
    BY <2>7, UpdateKinds DEF Replies
  <2>9. toClient' = Append(toClient, Answer(m))
    BY <2>1, <2>4 DEF Sent, Attached
  <2>10. ToldMore /\ WroteNoBroadcast
    BY <2>7, <2>8, <2>9 DEF ToldMore, Tells, WroteNoBroadcast
  <2>11. Follows(Now, Now')
    BY <2>3, FactsTyped, FactsTypedNext DEF Follows
  <2>12. "ActionAccepted" \in Reasons
    BY DEF Reasons
  <2> HIDE DEF m
  <2> QED
    BY <2>1, <2>2, <2>3, <2>4, <2>6, <2>10, <2>11, <2>12, BroadcastKeeps
<1> QED
  BY <1>1, <1>2, <1>3, <1>4, <1>5, <1>6, <1>7

(* A connection that begins: the client shows the snapshot of its Welcome, and
   nothing is on its way. *)
LEMMA FreshSync ==
  TypeOK /\ queue = <<>> /\ toClient = <<>> /\ server.phase = "drain"
         /\ client.seq = table.seq /\ client.snap = TableSnapshot(table)
    => InSync /\ Streaming
<1> SUFFICES ASSUME TypeOK, queue = <<>>, toClient = <<>>, server.phase = "drain",
                    client.seq = table.seq, client.snap = TableSnapshot(table)
             PROVE  InSync /\ Streaming
  OBVIOUS
<1>1. Elements(queue) = {} /\ Elements(toClient) = {} /\ DOMAIN toClient = {} /\ DOMAIN queue = {}
  BY DEF Elements
<1>2. Fact(client) = Now
  BY DEF Fact, Now
<1>3. \A p \in Facts : p = Now
  BY <1>1, <1>2, FactsAre
<1>4. Now.seq = table.seq /\ table.seq \in Nat /\ Now.snap.rev = table.rev /\ table.rev \in Nat
  BY FactsTyped, ServerFields
<1>5. FactsInOrder
  BY <1>3, <1>4 DEF FactsInOrder, InOrder
<1>6. ClientNotNewer
  BY <1>2, <1>3, <1>4 DEF ClientNotNewer, NotNewer
<1>7. AnswersNotNewer /\ AnswersCurrent /\ HeldCurrent
  BY <1>1 DEF AnswersNotNewer, AnswersCurrent, HeldCurrent
<1>8. NothingMissed /\ StreamInOrder
  BY <1>1, <1>4 DEF NothingMissed, StreamInOrder
<1> QED
  BY <1>5, <1>6, <1>7, <1>8 DEF InSync, Streaming

(* The terminal. *)
LEMMA TerminalKeepsSync ==
  ASSUME TypeOK, TypeOK', Attached => InSync /\ Streaming, Attached',
         \/ Welcome \/ RouteTimeout \/ Deliver \/ RequestSnapshot \/ Leave \/ ConnectionLost
         \/ \E acts \in BOOLEAN : Command(acts)
  PROVE  InSync' /\ Streaming'
<1>0. /\ table \in Table /\ table.hand \in Nat /\ table.seq \in Nat /\ table.seq + 1 \in Nat
      /\ client \in Clients
  BY SMTT(40) DEF TypeOK, Table
<1>1. CASE Welcome
  <2>1. PICK seq \in Nat :
          /\ table' = [table EXCEPT !.seq = seq]
          /\ client' \in {Bootstrap(UpdateOf(seq, "Initial", Null, TableSnapshot(table'))),
                          ApplyMessage(client, [UpdateOf(seq, "Initial", Null, TableSnapshot(table'))
                                                  EXCEPT !.kind = "Welcome"])}
    <3>1. (IF online THEN table.seq ELSE table.seq + 1) \in Nat
      BY <1>0
    <3> QED
      BY <1>1, <3>1 DEF Welcome
  <2>2. table'.seq = seq /\ TableSnapshot(table') \in Snaps
    BY <1>0, <2>1, PlaceFields, TableSnapshots DEF Table
  <2>3. client'.seq = seq /\ client'.snap = TableSnapshot(table')
    BY <1>0, <2>1, <2>2, Bootstrapped, Resynchronized DEF Attached
  <2>4. server'.phase = "drain" /\ queue' = <<>> /\ toClient' = <<>>
    BY <1>0, <1>1, NewServers DEF Welcome
  <2>5. (TypeOK /\ queue = <<>> /\ toClient = <<>> /\ server.phase = "drain"
          /\ client.seq = table.seq /\ client.snap = TableSnapshot(table)
           => InSync /\ Streaming)'
    BY FreshSync, PTL
  <2> QED
    BY <2>2, <2>3, <2>4, <2>5
<1>2. CASE RouteTimeout
  BY <1>0, <1>2, ClientsLeave DEF RouteTimeout, Attached
<1>3. CASE Deliver
  <2>1. InSync /\ Streaming
    BY <1>3 DEF Deliver, Attached, Alive
  <2>2. Streaming'
    <3>1. subscribed' = subscribed
      BY <1>3 DEF Deliver
    <3> QED
      BY <1>3, <2>1, <3>1, StreamDelivered DEF Streaming, InSync
  <2> QED
    BY <1>3, <2>1, <2>2, DeliveredSync
<1>4. CASE RequestSnapshot
  <2>1. /\ UNCHANGED <<table, subscribed, queue, server, toClient, client>> /\ asked' = asked + 1
    BY <1>4 DEF RequestSnapshot
  <2>2. InSync /\ Streaming
    BY <2>1 DEF Attached, Alive
  <2> QED
    BY <2>1, <2>2, QuietKeeps DEF ToldMore, ClientKept, WroteNoBroadcast, TypeOK
<1>5. CASE Leave
  BY <1>0, <1>5, ClientsLeave DEF Leave, Attached
<1>6. CASE ConnectionLost
  BY <1>0, <1>6, ClientsLeave DEF ConnectionLost, Attached
<1>7. ASSUME NEW acts \in BOOLEAN, Command(acts) PROVE InSync' /\ Streaming'
  <2>1. /\ UNCHANGED <<table, subscribed, queue, server, toClient, asked>>
        /\ client' = Prepared(client, nextId, acts)
    BY <1>7 DEF Command
  <2>2. client'.seq = client.seq /\ client'.snap = client.snap /\ client'.broadcast = client.broadcast
        /\ client'.conn = client.conn
    BY <1>0, <2>1 DEF Prepared, Clients
  <2>3. InSync /\ Streaming
    BY <2>1, <2>2 DEF Attached, Alive
  <2> QED
    BY <2>1, <2>2, <2>3, QuietKeeps DEF ToldMore, ClientKept, WroteNoBroadcast, TypeOK
<1> QED
  BY <1>1, <1>2, <1>3, <1>4, <1>5, <1>6, <1>7

(* The requests in flight are counted, and a thread serves a hand that was dealt. *)
LEMMA BindingKept ==
  ASSUME TypeOK, RequestsCounted, ServesKnownHand, RemoteNext
  PROVE  RequestsCounted' /\ ServesKnownHand'
<1>0. /\ table \in Table /\ table.hand \in Nat /\ server.hand \in Nat /\ server \in Servers
      /\ server.inbox \in Seq(Asks) /\ toServer \in Seq(Asks) /\ asked \in Nat
      /\ server.hand <= table.hand /\ client \in Clients /\ nextId \in Nat
  BY ServerFields DEF TypeOK, ServesKnownHand
<1> DEFINE E == Elements(toServer) \cup Elements(server.inbox)
<1>1. ASSUME UNCHANGED toServer, Elements(server'.inbox) \subseteq E, UNCHANGED asked
      PROVE  RequestsCounted'
  BY <1>1 DEF RequestsCounted
<1>2. Elements(<<>>) = {}
  BY DEF Elements
<1>3. server.inbox # <<>> =>
        /\ Elements(Tail(server.inbox)) \subseteq Elements(server.inbox)
        /\ Served(server).hand = server.hand /\ Served(server).inbox = Tail(server.inbox)
        /\ Served(server) \in Servers
  BY <1>0, Trimmed, ServedTyped
<1>4. ASSUME NEW turn \in Turns, OtherEvent(turn) \/ QuietBroadcast \/ SubmitApplied(turn)
      PROVE  RequestsCounted' /\ ServesKnownHand'
  <2>1. table'.hand = table.hand
    <3>1. table.quiet + 1 \in Nat
      BY <1>0 DEF Table
    <3>2. \/ table' = Advanced(table, turn)
          \/ table' = [table EXCEPT !.seq = @ + 1, !.quiet = table.quiet + 1]
      BY <1>4 DEF OtherEvent, QuietBroadcast, SubmitApplied
    <3>3. CASE table' = Advanced(table, turn)
      BY <1>0, <3>3, AdvancedFields
    <3>4. CASE table' = [table EXCEPT !.seq = @ + 1, !.quiet = table.quiet + 1]
      BY <1>0, <3>1, <3>4, QuietFields
    <3> QED
      BY <3>2, <3>3, <3>4
  <2>2. /\ UNCHANGED <<toServer, asked>>
        /\ server' = server \/ (server.inbox # <<>> /\ server' = Served(server))
    BY <1>4 DEF OtherEvent, QuietBroadcast, SubmitApplied, Serving, wires
  <2> QED
    BY <1>0, <1>1, <1>3, <2>1, <2>2 DEF ServesKnownHand
<1>5. ASSUME NEW turn \in {"me", "other"}, RollOver(turn) PROVE RequestsCounted' /\ ServesKnownHand'
  <2>1. table'.hand = table.hand + 1 /\ UNCHANGED <<server, toServer, asked>>
    BY <1>5 DEF RollOver, NewTable, wires
  <2> QED
    BY <1>0, <1>1, <2>1 DEF ServesKnownHand
<1>6. CASE ServerDrain \/ RouteTimeout \/ Deliver \/ ConnectionLost
  <2>1. UNCHANGED <<table, server, toServer, asked>>
    BY <1>6 DEF ServerDrain, RouteTimeout, Deliver, ConnectionLost, wires
  <2> QED
    BY <1>0, <1>1, <2>1 DEF ServesKnownHand
<1>7. CASE ServerRead
  <2>1. /\ server'.inbox = toServer /\ server'.hand = server.hand /\ toServer' = <<>>
        /\ UNCHANGED <<table, asked>>
    BY <1>0, <1>7 DEF ServerRead, Servers
  <2> QED
    BY <1>0, <1>2, <2>1 DEF ServesKnownHand, RequestsCounted
<1>8. CASE SubmitRefused \/ TakeSnapshot \/ AnswerSnapshot
  <2>1. UNCHANGED <<table, toServer, asked>> /\ server.inbox # <<>>
    BY <1>8 DEF SubmitRefused, TakeSnapshot, AnswerSnapshot, Serving, TypeOK
  <2>2. \/ server' = Served(server)
        \/ server' = [Served(server) EXCEPT !.held = Null]
        \/ server' = [server EXCEPT !.phase = "metrics", !.held = TableSnapshot(table)]
        \/ server' = Gone
    BY <1>8 DEF SubmitRefused, TakeSnapshot, AnswerSnapshot
  <2>3. \/ server'.inbox = Tail(server.inbox) /\ server'.hand = server.hand
        \/ server'.inbox = server.inbox /\ server'.hand = server.hand
        \/ server'.inbox = <<>> /\ server'.hand = 0
    <3>1. CASE server' = Served(server)
      BY <1>3, <2>1, <3>1
    <3>2. CASE server' = [Served(server) EXCEPT !.held = Null]
      BY <1>3, <2>1, <3>2 DEF Servers
    <3>3. CASE server' = [server EXCEPT !.phase = "metrics", !.held = TableSnapshot(table)]
      BY <1>0, <3>3 DEF Servers
    <3>4. CASE server' = Gone
      BY <3>4 DEF Gone
    <3> QED
      BY <2>2, <3>1, <3>2, <3>3, <3>4
  <2>4. Elements(server'.inbox) \subseteq E
    BY <1>2, <1>3, <2>1, <2>3
  <2> QED
    BY <1>0, <1>1, <2>1, <2>3, <2>4 DEF ServesKnownHand
<1>9. CASE ServerEnds
  <2>1. server'.inbox = <<>> /\ server'.hand = 0 /\ UNCHANGED <<toServer, asked>>
    BY <1>9 DEF ServerEnds, Gone
  <2>2. table'.hand = table.hand
    BY <1>0, <1>9 DEF ServerEnds, Table
  <2> QED
    BY <1>0, <1>1, <1>2, <2>1, <2>2 DEF ServesKnownHand
<1>10. CASE Welcome
  <2>1. server'.inbox = <<>> /\ server'.hand = table.hand /\ toServer' = <<>>
    BY <1>0, <1>10, NewServers DEF Welcome
  <2>2. table'.hand = table.hand
    BY <1>0, <1>10 DEF Welcome, Table
  <2> QED
    BY <1>0, <1>2, <2>1, <2>2 DEF ServesKnownHand, RequestsCounted
<1>11. CASE RequestSnapshot
  <2>1. UNCHANGED <<table, server>> /\ asked' = asked + 1
    BY <1>11 DEF RequestSnapshot
  <2> QED
    BY <1>0, <2>1 DEF ServesKnownHand, RequestsCounted
<1>12. ASSUME NEW acts \in BOOLEAN, Command(acts) \/ Leave PROVE RequestsCounted' /\ ServesKnownHand'
  <2>1. UNCHANGED <<table, server, asked>>
    BY <1>12 DEF Command, Leave
  <2>2. toServer' = toServer \/ \E m \in Asks : m.kind # "SnapshotRequest" /\ toServer' = Append(toServer, m)
    <3>1. [kind |-> "Close"] \in Asks
      BY DEF Asks
    <3>2. [kind |-> "Command", id |-> nextId, expected |-> client.snap.rev, acts |-> acts] \in Asks
      BY <1>0, ClientFields DEF Asks, Commands
    <3> QED
      BY <1>12, <3>1, <3>2 DEF Command, Leave
  <2>3. \A m \in Elements(toServer') : m \in Elements(toServer) \/ m.kind # "SnapshotRequest"
    <3>1. CASE toServer' = toServer
      BY <3>1
    <3>2. ASSUME NEW a \in Asks, a.kind # "SnapshotRequest", toServer' = Append(toServer, a)
          PROVE  \A m \in Elements(toServer') : m \in Elements(toServer) \/ m.kind # "SnapshotRequest"
      <4>1. Elements(toServer') = Elements(toServer) \cup {a}
        BY <1>0, <3>2, Extended
      <4> QED
        BY <3>2, <4>1
    <3> QED
      BY <2>2, <3>1, <3>2
  <2> QED
    BY <1>0, <2>1, <2>3 DEF ServesKnownHand, RequestsCounted
<1> QED
  BY <1>4, <1>5, <1>6, <1>7, <1>8, <1>9, <1>10, <1>11, <1>12 DEF RemoteNext, Turns

-----------------------------------------------------------------------------
(* The invariant. *)

(* It holds when the client has just been welcomed to the first hand. *)
LEMMA SyncBegins == RemoteInit => SyncInv
<1> SUFFICES ASSUME RemoteInit PROVE SyncInv
  OBVIOUS
<1>1. TypeOK
  BY TypesBegin
<1>2. PICK turn \in {"me", "other"} : table = NewTable(1, turn, 0)
  BY DEF RemoteInit
<1>3. table.seq = 0 /\ table.hand = 1 /\ TableSnapshot(table) \in Snaps
  BY <1>1, <1>2, TableSnapshots DEF NewTable, TypeOK, Table
<1>4. client.seq = 0 /\ client.snap = TableSnapshot(table)
  <2>1. client = Bootstrap(UpdateOf(0, "Initial", Null, TableSnapshot(table)))
    BY DEF RemoteInit
  <2> QED
    BY <2>1 DEF Bootstrap, UpdateOf
<1>5. server.phase = "drain" /\ server.hand = 1 /\ server.inbox = <<>>
  BY 1 \in Nat, NewServers DEF RemoteInit
<1>6. queue = <<>> /\ toClient = <<>> /\ toServer = <<>>
  BY DEF RemoteInit
<1>7. InSync /\ Streaming
  BY <1>1, <1>3, <1>4, <1>5, <1>6, FreshSync
<1>8. RequestsCounted /\ ServesKnownHand
  BY <1>3, <1>5, <1>6 DEF RequestsCounted, ServesKnownHand, Elements
<1> QED
  BY <1>1, <1>7, <1>8 DEF SyncInv

(* Every step keeps it. *)
LEMMA SyncStep == SyncInv /\ [RemoteNext]_rvars => SyncInv'
<1> SUFFICES ASSUME SyncInv, [RemoteNext]_rvars PROVE SyncInv'
  OBVIOUS
<1>1. TypeOK /\ RequestsCounted /\ ServesKnownHand /\ (Attached => InSync /\ Streaming) /\ TypeOK'
  BY StepTyped DEF SyncInv
<1>2. CASE RemoteNext
  <2>1. RequestsCounted' /\ ServesKnownHand'
    BY <1>1, <1>2, BindingKept
  <2>2. Attached' => InSync' /\ Streaming'
    BY <1>1, <1>2, RuntimeKeepsSync, ThreadKeepsSync, TerminalKeepsSync DEF RemoteNext
  <2> QED
    BY <1>1, <2>1, <2>2 DEF SyncInv
<1>3. CASE UNCHANGED rvars
  <2>1. RequestsCounted' /\ ServesKnownHand'
    BY <1>1, <1>3 DEF rvars, RequestsCounted, ServesKnownHand
  <2>2. Attached' => Attached
    BY <1>3 DEF rvars, Attached, Alive
  <2>3. ASSUME Attached' PROVE InSync' /\ Streaming'
    <3>1. InSync /\ Streaming
      BY <1>1, <2>2, <2>3
    <3> QED
      BY <1>1, <1>3, <3>1, QuietKeeps DEF rvars, ToldMore, ClientKept, WroteNoBroadcast, TypeOK
  <2> QED
    BY <1>1, <2>1, <2>3 DEF SyncInv
<1> QED
  BY <1>2, <1>3

(* A connected client with nothing on its way shows the table: every place was
   read, so its place is the table's, and a snapshot it vouches for is the one
   of that place. *)
LEMMA SyncShowsTable == SyncInv => CaughtUp
<1> SUFFICES ASSUME SyncInv, client.conn = "Connected", Alive, ~InFlight, subscribed,
                    asked = 0 \/ client.broadcast
             PROVE  client.snap = TableSnapshot(table)
  BY DEF CaughtUp
<1>1. TypeOK /\ InSync /\ NothingMissed /\ toClient = <<>> /\ queue = <<>>
  BY DEF SyncInv, Attached, InFlight, Streaming
<1>2. client.seq \in Nat /\ table.seq \in Nat /\ client.seq <= table.seq
  BY <1>1, PlacesPast DEF InSync, ClientNotNewer
<1>3. ~OnItsWay(table.seq)
  BY <1>1 DEF OnItsWay
<1>4. client.seq = table.seq
  BY <1>1, <1>2, <1>3 DEF NothingMissed
<1>5. Now \in Facts /\ Fact(client) \in Facts /\ Now.seq = table.seq /\ Now.snap = TableSnapshot(table)
  BY <1>1, FactsTyped, FactsAre DEF Honest
<1>6. Fact(client).seq = client.seq /\ Fact(client).snap = client.snap
  BY DEF Fact
<1>7. Now.snap.rev <= client.snap.rev /\ client.snap.rev <= Now.snap.rev
  BY <1>1, <1>2, <1>4, <1>5, <1>6 DEF InSync, FactsInOrder, InOrder
<1>8. Now.snap.rev = client.snap.rev
  BY <1>1, <1>7, ClientFields, FactsTyped DEF TypeOK, FactSet, Snaps
<1> QED
  BY <1>1, <1>5, <1>6, <1>8 DEF InSync, FactsInOrder, InOrder

(* ShowsTheTable: whatever races, drops, full buffers and rollovers there were, a
   client that is connected to the current hand, has nothing on its way, still
   has its subscription, and did not apply the answer to a snapshot request last
   shows the table's own revision and turn (ProjectionClient::apply_message,
   run_multi_bound_connection, broadcast). *)
THEOREM ShowsTheTable == RemoteSpec => []CaughtUp
<1>1. RemoteSpec => []SyncInv
  BY SyncBegins, SyncStep, PTL DEF RemoteSpec
<1> QED
  BY <1>1, SyncShowsTable, PTL

-----------------------------------------------------------------------------
(* Numbers. *)

(* A set of natural numbers has a least element. *)
LEMMA LeastNumber ==
  ASSUME NEW S, S \subseteq Nat, S # {}
  PROVE  \E m \in S : \A y \in S : m <= y
<1> DEFINE R == OpToRel(<, Nat)
<1>1. \A x, y \in Nat : <<y, x>> \in R <=> y < x
  BY DEF OpToRel
<1>2. IsWellFoundedOn(R, Nat)
  BY NatLessThanWellFounded
<1> HIDE DEF R
<1>3. PICK m \in S : \A y \in S : ~ (<<y, m>> \in R)
  BY <1>2, WFMin
<1>4. \A y \in S : ~ (y < m)
  BY <1>1, <1>3, Zenon
<1> QED BY <1>4

-----------------------------------------------------------------------------
(* Updater: select_release. *)

(* What GitHub may answer: releases with a version each. *)
Releases == [version : Nat, stable : BOOLEAN, complete : BOOLEAN]
ReleasesListed == ReleaseLists \subseteq Seq(Releases)

(* Some stable release is as new as every other one: the first bad prefix of
   the list would have one after all. *)
LEMMA NewestExists ==
  ASSUME NEW list \in Seq(Releases),
         Stable(list) # {}
  PROVE  \E i \in Stable(list) : \A j \in Stable(list) : list[j].version <= list[i].version
<1> DEFINE Among(n) == {i \in Stable(list) : i <= n}
           Best(n, i) == i \in Among(n) /\ \A j \in Among(n) : list[j].version <= list[i].version
           Bad == {n \in Nat : Among(n) # {} /\ ~ \E i \in Stable(list) : Best(n, i)}
<1>1. Stable(list) \subseteq 1 .. Len(list) /\ Len(list) \in Nat
  BY DEF Stable
<1>2. \A i \in Stable(list) : i \in Nat \ {0} /\ list[i].version \in Nat
  <2> TAKE i \in Stable(list)
  <2>1. i \in 1 .. Len(list)
    BY <1>1
  <2>2. list[i] \in Releases
    BY <2>1
  <2> QED BY <1>1, <2>1, <2>2 DEF Releases
<1>3. Bad = {}
  <2>1. SUFFICES ASSUME Bad # {} PROVE FALSE
    OBVIOUS
  <2>2. PICK n \in Bad : \A m \in Bad : n <= m
    <3>1. Bad \subseteq Nat
      OBVIOUS
    <3> HIDE DEF Bad
    <3> QED BY <2>1, <3>1, LeastNumber
  <2>3. n \in Nat /\ n # 0
    BY <1>2
  <2>4. n - 1 \in Nat /\ n - 1 \notin Bad
    BY <2>2, <2>3
  <2>5. \A i \in Stable(list) : i \in Among(n) <=> i \in Among(n - 1) \/ i = n
    BY <1>2, <2>3
  <2>6. CASE Among(n - 1) = {}
    <3>1. n \in Stable(list) /\ \A i \in Among(n) : i = n
      BY <2>5, <2>6
    <3>2. Best(n, n)
      BY <1>2, <2>3, <3>1
    <3> QED BY <3>1, <3>2
  <2>7. CASE Among(n - 1) # {}
    <3>1. PICK i \in Stable(list) : Best(n - 1, i)
      BY <2>4, <2>7
    <3>2. CASE n \notin Stable(list)
      BY <2>5, <3>1, <3>2
    <3>3. CASE n \in Stable(list) /\ list[n].version <= list[i].version
      BY <2>5, <3>1, <3>3
    <3>4. CASE n \in Stable(list) /\ list[i].version < list[n].version
      <4>1. \A j \in Among(n) : list[j].version <= list[n].version
        <5> TAKE j \in Among(n)
        <5>1. /\ j \in Stable(list) /\ list[j].version \in Nat
              /\ list[i].version \in Nat /\ list[n].version \in Nat
          BY <1>2, <3>4
        <5>2. j = n \/ list[j].version <= list[i].version
          BY <2>5, <3>1
        <5>3. list[i].version < list[n].version
          BY <3>4
        <5> HIDE DEF Among, Best, Bad
        <5> QED BY <5>1, <5>2, <5>3
      <4>2. Best(n, n)
        BY <2>3, <3>4, <4>1
      <4> QED BY <3>4, <4>2
    <3>5. n \in Stable(list) => list[n].version \in Nat /\ list[i].version \in Nat
      BY <1>2
    <3>6. \/ n \notin Stable(list)
          \/ n \in Stable(list) /\ list[n].version <= list[i].version
          \/ n \in Stable(list) /\ list[i].version < list[n].version
      BY <3>5
    <3> QED BY <3>2, <3>3, <3>4, <3>6
  <2> QED BY <2>6, <2>7
<1>4. Among(Len(list)) = Stable(list)
  BY <1>1
<1> QED BY <1>1, <1>3, <1>4

(* What is offered is newer than what runs. *)
LEMMA OffersAreNewer ==
  ASSUME ReleasesListed, NEW list \in ReleaseLists, running \in Nat, SelectRelease(list) # NoOffer
  PROVE  SelectRelease(list) \in Nat /\ SelectRelease(list) > running
<1>1. list \in Seq(Releases)
  BY DEF ReleasesListed
<1>2. Stable(list) # {}
  BY DEF SelectRelease
<1>3. PICK best \in Stable(list) : \A j \in Stable(list) : list[j].version <= list[best].version
  BY <1>1, <1>2, NewestExists
<1> DEFINE Tied == {i \in Stable(list) : list[i].version = list[best].version}
<1>4. PICK first \in Tied : \A j \in Tied : first <= j
  <2>1. Tied \subseteq Nat /\ Tied # {}
    BY <1>1 DEF Stable
  <2> HIDE DEF Tied
  <2> QED BY <2>1, LeastNumber
<1>5. Newest(list) \in Stable(list)
  <2>1. /\ first \in Stable(list)
        /\ \A j \in Stable(list) : list[j].version <= list[first].version
        /\ \A j \in Stable(list) : list[j].version = list[first].version => first <= j
    BY <1>3, <1>4
  <2> QED BY <2>1 DEF Newest
<1>6. list[Newest(list)].version \in Nat
  <2>1. Newest(list) \in 1 .. Len(list)
    BY <1>1, <1>5 DEF Stable
  <2>2. list[Newest(list)] \in Releases
    BY <1>1, <2>1
  <2> QED BY <2>2 DEF Releases
<1> QED BY <1>2, <1>6 DEF SelectRelease

-----------------------------------------------------------------------------
(* Updater: the installation. *)

Stages == FileSteps \cup {"none", "locate", "download", "verify", "installed", "stopped"}
Installers == [at : Stages, version : Nat, told : BOOLEAN]
AtFiles(w) == installers[w].at \in FileSteps
Whole(file) == Intact(file) /\ file >= running

UpdaterTypes ==
  /\ files \in [Names -> Int] /\ writing \in [Slots -> Names \cup {"gone"}]
  /\ installers \in [Slots -> Installers] /\ running \in Nat \ {0}

(* What is offered and installed is newer than what runs, and no worker
   outlives the process. *)
OnlyNewer ==
  /\ offer # NoOffer => offer \in Nat /\ offer > running
  /\ \A w \in Slots : AtWork(w) => installers[w].version = Foreign \/ installers[w].version > running
  /\ \A w \in Slots : AtFiles(w) => installers[w].version > running
  /\ ~Live => \A w \in Slots : ~AtWork(w)

(* Until two workers cross, one is at the files; and where the path follows
   the rename, until two are alive, one is, and it found the executable. *)
OneAtFiles == "crossed" \notin mishaps => \A v, w \in Slots : AtFiles(v) /\ AtFiles(w) => v = w
OneFollows ==
  follows /\ "crowded" \notin mishaps =>
    /\ \A v, w \in Slots : AtWork(v) /\ AtWork(w) => v = w
    /\ \A w \in Slots : installers[w].at \in {"download", "verify"} => files["current"] = running

(* Where every step of an installation leaves the files. *)
Swapping(w) ==
  /\ installers[w].at = "sync" => files["staged"] = Partial /\ writing[w] = "staged"
  /\ installers[w].at \in {"clear", "retire", "promote"} => files["staged"] = installers[w].version
  /\ installers[w].at \in {"promote", "restore"} => files["current"] = Missing /\ Whole(files["backup"])
  /\ installers[w].at = "clean" => Whole(files["current"])
  /\ installers[w].at \in {"write", "sync", "clear", "retire"} => files["current"] # Missing \/ LastOneInReach
UpdaterInv ==
  /\ UpdaterTypes /\ OnlyNewer /\ OneAtFiles /\ OneFollows /\ ExecutableSurvives
  /\ "crossed" \notin mishaps => \A w \in Slots : Swapping(w)

(* A step of a worker at the files disturbs nobody, as long as it is alone
   there and leaves them as its next step expects them. *)
LEMMA WorkerKeeps ==
  ASSUME UpdaterInv, NEW w \in Slots, NEW from \in FileSteps,
         NEW to \in FileSteps \cup {"installed", "stopped"},
         Advance(w, from, to), UNCHANGED mishaps,
         files' \in [Names -> Int], writing' \in [Slots -> Names \cup {"gone"}],
         "crossed" \notin mishaps => Swapping(w)' /\ ExecutableSurvives'
  PROVE  UpdaterInv'
<1>1. /\ installers[w].at = from /\ UNCHANGED programVars /\ Live
      /\ installers' = [installers EXCEPT ![w].at = to]
  BY DEF Advance
<1>2. /\ installers' \in [Slots -> Installers] /\ installers'[w].at = to
      /\ installers'[w].version = installers[w].version
      /\ \A v \in Slots \ {w} : installers'[v] = installers[v]
  BY <1>1 DEF UpdaterInv, UpdaterTypes, Installers, Stages
<1>3. AtFiles(w) /\ AtWork(w) /\ Live'
  BY <1>1 DEF AtFiles, AtWork, programVars, Live
<1>4. \A v \in Slots : (AtFiles(v)' => AtFiles(v)) /\ (AtWork(v)' => AtWork(v))
  BY <1>2, <1>3 DEF AtFiles, AtWork
<1>5. UpdaterTypes'
  BY <1>1, <1>2 DEF UpdaterInv, UpdaterTypes, programVars
<1>6. OnlyNewer'
  <2>1. \A v \in Slots : installers'[v].version = installers[v].version
    BY <1>2
  <2> QED BY <1>1, <1>3, <1>4, <2>1 DEF UpdaterInv, OnlyNewer, programVars
<1>7. OneAtFiles' 
  BY <1>4 DEF UpdaterInv, OneAtFiles
<1>8. OneFollows'
  <2>1. SUFFICES ASSUME follows, "crowded" \notin mishaps
                 PROVE  /\ \A v, u \in Slots : AtWork(v)' /\ AtWork(u)' => v = u
                        /\ \A v \in Slots : ~ (installers'[v].at \in {"download", "verify"})
    BY <1>1 DEF OneFollows, programVars
  <2>2. \A v, u \in Slots : AtWork(v) /\ AtWork(u) => v = u
    BY <2>1 DEF UpdaterInv, OneFollows
  <2>3. \A v \in Slots \ {w} : ~AtWork(v)
    BY <1>3, <2>2
  <2>4. \A v \in Slots \ {w} : ~ (installers'[v].at \in {"download", "verify"})
    BY <1>2, <2>3 DEF AtWork
  <2>5. ~ (installers'[w].at \in {"download", "verify"})
    BY <1>2 DEF FileSteps
  <2> QED BY <1>4, <2>2, <2>4, <2>5
<1>9. "crossed" \notin mishaps => \A v \in Slots : Swapping(v)'
  <2>1. SUFFICES ASSUME "crossed" \notin mishaps, NEW v \in Slots, v # w PROVE Swapping(v)'
    OBVIOUS
  <2>2. ~AtFiles(v)
    BY <1>3, <2>1 DEF UpdaterInv, OneAtFiles
  <2> QED BY <1>2, <2>1, <2>2 DEF Swapping, AtFiles, FileSteps
<1>10. ExecutableSurvives'
  BY DEF UpdaterInv, ExecutableSurvives
<1> QED BY <1>5, <1>6, <1>7, <1>8, <1>9, <1>10 DEF UpdaterInv

(* Steps that leave the files alone, and whoever is there. *)
LEMMA AsideKeeps ==
  ASSUME UpdaterInv, UNCHANGED <<files, writing, running, follows>>,
         installers' \in [Slots -> Installers],
         \A w \in Slots : AtFiles(w)' => installers'[w].at = installers[w].at
                                         /\ installers'[w].version = installers[w].version,
         \A w \in Slots : AtWork(w)' => installers'[w].version = Foreign \/ installers'[w].version > running,
         mishaps' \in {mishaps, mishaps \cup {"crowded"}},
         OneFollows',
         ~Live' => \A w \in Slots : ~AtWork(w)',
         offer' # NoOffer => offer' \in Nat /\ offer' > running
  PROVE  UpdaterInv'
<1>1. \A w \in Slots : AtFiles(w)' => AtFiles(w)
  BY DEF AtFiles
<1>2. /\ "crossed" \in mishaps' <=> "crossed" \in mishaps
      /\ LastOneInReach => LastOneInReach'
  BY DEF LastOneInReach
<1>3. UpdaterTypes' /\ OneAtFiles'
  BY <1>1, <1>2 DEF UpdaterInv, UpdaterTypes, OneAtFiles
<1>4. OnlyNewer'
  <2>1. \A w \in Slots : AtFiles(w)' => installers'[w].version > running
    BY <1>1 DEF UpdaterInv, OnlyNewer
  <2> QED BY <2>1 DEF OnlyNewer
<1>5. ExecutableSurvives'
  BY <1>2 DEF UpdaterInv, ExecutableSurvives
<1>6. "crossed" \notin mishaps' => \A w \in Slots : Swapping(w)'
  <2>1. SUFFICES ASSUME "crossed" \notin mishaps, NEW w \in Slots PROVE Swapping(w)'
    BY <1>2
  <2>2. Swapping(w)
    BY <2>1 DEF UpdaterInv
  <2>3. CASE AtFiles(w)'
    BY <1>2, <2>2, <2>3 DEF Swapping, Whole
  <2>4. CASE ~AtFiles(w)'
    BY <2>4 DEF Swapping, AtFiles, FileSteps
  <2> QED BY <2>3, <2>4
<1> QED BY <1>3, <1>4, <1>5, <1>6 DEF UpdaterInv

(* An installation begins; where the path follows, it looks for the
   executable first. *)
LEMMA InstallBegins ==
  ASSUME UpdaterInv, MaxInstalls \in Nat, StartInstall
  PROVE  UpdaterInv'
<1> DEFINE n == installs'
           fresh == [at |-> "locate", version |-> offer, told |-> FALSE]
<1>1. /\ installers' = [installers EXCEPT ![n] = fresh] /\ Live'
      /\ UNCHANGED <<files, writing, running, follows, offer>> /\ offer # NoOffer
      /\ mishaps' = mishaps \cup {m \in {"crowded"} : \E w \in Slots : AtWork(w)}
  BY DEF StartInstall, fileVars, Live
<1>2. offer \in Nat /\ offer > running
  BY <1>1 DEF UpdaterInv, OnlyNewer
<1>3. fresh \in Installers
  BY <1>2 DEF Installers, Stages
<1> HIDE DEF n
<1>4. /\ installers' \in [Slots -> Installers]
      /\ \A w \in Slots : installers'[w] = IF w = n THEN fresh ELSE installers[w]
  BY <1>1, <1>3 DEF UpdaterInv, UpdaterTypes
<1>5. \A w \in Slots : AtFiles(w)' => installers'[w].at = installers[w].at
                                      /\ installers'[w].version = installers[w].version
  BY <1>4 DEF AtFiles, FileSteps
<1>6. \A w \in Slots : AtWork(w)' => installers'[w].version = Foreign \/ installers'[w].version > running
  BY <1>2, <1>4 DEF UpdaterInv, OnlyNewer, AtWork
<1>7. mishaps' \in {mishaps, mishaps \cup {"crowded"}}
  BY <1>1
<1>8. OneFollows'
  <2>1. SUFFICES ASSUME follows, "crowded" \notin mishaps'
                 PROVE  /\ \A v, w \in Slots : AtWork(v)' /\ AtWork(w)' => v = w
                        /\ \A w \in Slots : ~ (installers'[w].at \in {"download", "verify"})
    BY <1>1 DEF OneFollows
  <2>2. \A w \in Slots : ~AtWork(w)
    BY <1>1, <2>1
  <2> QED BY <1>4, <2>2 DEF AtWork
<1> QED BY <1>1, <1>2, <1>4, <1>5, <1>6, <1>7, <1>8, AsideKeeps

(* Where no worker is created and none moves towards the files, only its
   end and what it was told can change. *)
LEMMA ProgramKeeps ==
  ASSUME UpdaterInv, UNCHANGED <<files, writing, running, follows, mishaps>>,
         installers' \in [Slots -> Installers],
         \A w \in Slots : AtWork(w)' => installers'[w].at = installers[w].at
                                        /\ installers'[w].version = installers[w].version,
         ~Live' => \A w \in Slots : ~AtWork(w)',
         offer' # NoOffer => offer' \in Nat /\ offer' > running
  PROVE  UpdaterInv'
<1>1. \A w \in Slots : AtWork(w)' => AtWork(w)
  BY DEF AtWork
<1>2. \A w \in Slots : AtFiles(w)' => AtWork(w)'
  BY DEF AtWork, AtFiles
<1>3. OneFollows'
  <2>1. \A w \in Slots : installers'[w].at \in {"download", "verify"} => AtWork(w)'
    BY DEF AtWork
  <2> QED BY <1>1, <2>1 DEF UpdaterInv, OneFollows
<1>4. \A w \in Slots : AtWork(w)' => installers'[w].version = Foreign \/ installers'[w].version > running
  BY <1>1 DEF UpdaterInv, OnlyNewer
<1> QED BY <1>2, <1>3, <1>4, AsideKeeps

(* A worker looks for the executable, downloads, verifies, or breaks off. *)
LEMMA FetchStep ==
  ASSUME UpdaterInv, NEW w \in Slots, Locate(w) \/ Download(w) \/ Verify(w)
  PROVE  UpdaterInv'
<1> DEFINE Away == {"locate", "download", "verify"}
<1>1. /\ UNCHANGED <<files, writing, running, follows, offer>> /\ Live /\ Live'
      /\ installers[w].at \in Away
  BY DEF Locate, Download, Verify, Advance, programVars, fileVars, Live
<1>2. /\ installers \in [Slots -> Installers] /\ AtWork(w)
      /\ installers[w].version = Foreign \/ installers[w].version > running
      /\ offer # NoOffer => offer \in Nat /\ offer > running
  BY <1>1 DEF UpdaterInv, UpdaterTypes, OnlyNewer, AtWork
<1>3. ASSUME NEW to \in Away \cup {"stopped"}, NEW got \in {installers[w].version, Foreign},
             installers' = [installers EXCEPT ![w] = [at |-> to, version |-> got, told |-> installers[w].told]],
             UNCHANGED mishaps, follows /\ to = "download" => files["current"] = running,
             to = "verify" => installers[w].at = "download"
      PROVE  UpdaterInv'
  <2> DEFINE d == [at |-> to, version |-> got, told |-> installers[w].told]
  <2>1. d \in Installers /\ d.at = to /\ d.version = got
    BY <1>2, <1>3 DEF Installers, Stages, Foreign
  <2> HIDE DEF d
  <2>2. installers' = [installers EXCEPT ![w] = d]
    BY <1>3 DEF d
  <2>3. /\ installers' \in [Slots -> Installers] /\ installers'[w] = d
        /\ \A v \in Slots \ {w} : installers'[v] = installers[v]
    BY <1>2, <2>1, <2>2
  <2>4. \A v \in Slots : AtFiles(v)' => v # w
    BY <2>1, <2>3 DEF AtFiles, FileSteps
  <2>5. \A v \in Slots : AtWork(v)' => AtWork(v)
    BY <1>2, <2>3 DEF AtWork
  <2>6. OneFollows'
    <3>1. SUFFICES ASSUME follows, "crowded" \notin mishaps
                   PROVE  /\ \A v, u \in Slots : AtWork(v)' /\ AtWork(u)' => v = u
                          /\ \A v \in Slots : installers'[v].at \in {"download", "verify"} => files["current"] = running
      BY <1>1, <1>3 DEF OneFollows
    <3>2. /\ \A v, u \in Slots : AtWork(v) /\ AtWork(u) => v = u
          /\ \A v \in Slots : installers[v].at \in {"download", "verify"} => files["current"] = running
      BY <3>1 DEF UpdaterInv, OneFollows
    <3>3. \A v \in Slots : installers'[v].at \in {"download", "verify"} => files["current"] = running
      BY <1>3, <2>1, <2>3, <3>1, <3>2
    <3> QED BY <2>5, <3>2, <3>3
  <2>7. \A v \in Slots : AtWork(v)' => installers'[v].version = Foreign \/ installers'[v].version > running
    <3> TAKE v \in Slots
    <3>1. CASE v = w
      BY <1>2, <2>1, <2>3, <3>1
    <3>2. CASE v # w
      BY <2>3, <2>5, <3>2 DEF UpdaterInv, OnlyNewer
    <3> QED BY <3>1, <3>2
  <2> QED BY <1>1, <1>2, <1>3, <2>3, <2>4, <2>6, <2>7, AsideKeeps
<1>4. CASE Verify(w) /\ mishaps' = mishaps \cup Crossing(w) /\ Advance(w, "verify", "write") /\ Matches(installers[w].version)
  <2>1. /\ installers' = [installers EXCEPT ![w].at = "write"] /\ installers[w].at = "verify"
    BY <1>4 DEF Advance
  <2>2. /\ installers' \in [Slots -> Installers] /\ installers'[w].at = "write"
        /\ installers'[w].version = installers[w].version
        /\ \A v \in Slots \ {w} : installers'[v] = installers[v]
    BY <1>2, <2>1 DEF Installers, Stages, FileSteps
  <2>3. installers[w].version > running
    BY <1>2, <1>4 DEF Matches
  <2>4. UpdaterTypes'
    BY <1>1, <2>2 DEF UpdaterInv, UpdaterTypes
  <2>5. /\ \A v \in Slots : AtWork(v)' => AtWork(v)
        /\ \A v \in Slots \ {w} : AtFiles(v)' => AtFiles(v)
    BY <1>2, <2>2 DEF AtWork, AtFiles
  <2>6. OnlyNewer'
    <3>1. \A v \in Slots : AtWork(v)' => installers'[v].version = Foreign \/ installers'[v].version > running
      BY <1>2, <2>2, <2>5 DEF UpdaterInv, OnlyNewer
    <3>2. \A v \in Slots : AtFiles(v)' => installers'[v].version > running
      BY <2>2, <2>3, <2>5 DEF UpdaterInv, OnlyNewer
    <3> QED BY <1>1, <1>2, <3>1, <3>2 DEF OnlyNewer
  <2>7. /\ "crossed" \notin mishaps' => "crossed" \notin mishaps /\ \A v \in Slots \ {w} : ~AtFiles(v)
        /\ files["current"] = Missing => "unrestored" \in mishaps'
        /\ LastOneInReach => LastOneInReach'
        /\ "crowded" \in mishaps' <=> "crowded" \in mishaps
    BY <1>1, <1>4 DEF Crossing, AtFiles, LastOneInReach
  <2>8. OneAtFiles'
    BY <2>5, <2>7 DEF OneAtFiles
  <2>9. OneFollows'
    <3>1. \A v \in Slots : installers'[v].at \in {"download", "verify"} => installers[v].at \in {"download", "verify"}
      BY <2>2
    <3> QED BY <1>1, <2>5, <2>7, <3>1 DEF UpdaterInv, OneFollows
  <2>10. ExecutableSurvives'
    BY <1>1, <2>7 DEF UpdaterInv, ExecutableSurvives
  <2>11. "crossed" \notin mishaps' => \A v \in Slots : Swapping(v)'
    <3>1. SUFFICES ASSUME "crossed" \notin mishaps', NEW v \in Slots PROVE Swapping(v)'
      OBVIOUS
    <3>2. CASE v # w
      BY <2>2, <2>7, <3>1, <3>2 DEF Swapping, AtFiles, FileSteps
    <3>3. CASE v = w
      <4>1. files["current"] # Missing \/ LastOneInReach'
        <5>1. CASE follows /\ "crowded" \notin mishaps
          <6>1. files["current"] = running
            BY <2>1, <5>1 DEF UpdaterInv, OneFollows
          <6> QED BY <6>1 DEF UpdaterInv, UpdaterTypes, Missing
        <5>2. CASE follows => "crowded" \in mishaps
          BY <1>1, <2>7, <5>2 DEF LastOneInReach
        <5> QED BY <5>1, <5>2
      <4> QED BY <1>1, <2>2, <3>3, <4>1 DEF Swapping
    <3> QED BY <3>2, <3>3
  <2> QED BY <2>4, <2>6, <2>8, <2>9, <2>10, <2>11 DEF UpdaterInv
<1>5. ASSUME NEW from, NEW to \in Away \cup {"stopped"}, Advance(w, from, to), UNCHANGED mishaps,
             follows /\ to = "download" => files["current"] = running, to # "verify"
      PROVE  UpdaterInv'
  <2>1. [installers[w] EXCEPT !.at = to] = [at |-> to, version |-> installers[w].version, told |-> installers[w].told]
    BY <1>2 DEF Installers
  <2>2. installers' = [installers EXCEPT ![w] = [at |-> to, version |-> installers[w].version, told |-> installers[w].told]]
    BY <1>5, <2>1 DEF Advance
  <2> QED BY <1>3, <1>5, <2>2
<1>6. CASE Locate(w)
  BY <1>5, <1>6 DEF Locate, MayReplace
<1>7. CASE Download(w)
  <2>1. CASE Advance(w, "download", "stopped")
    BY <1>5, <1>7, <2>1 DEF Download
  <2>2. ASSUME NEW got \in {installers[w].version, Foreign}, installers[w].at = "download", ~installers[w].told,
               installers' = [installers EXCEPT ![w] = [at |-> "verify", version |-> got, told |-> FALSE]]
        PROVE  UpdaterInv'
    <3>1. installers[w].told = FALSE /\ UNCHANGED mishaps
      BY <1>2, <1>7, <2>2 DEF Installers, Download
    <3>2. installers' = [installers EXCEPT ![w] = [at |-> "verify", version |-> got, told |-> installers[w].told]]
      BY <2>2, <3>1
    <3>3. "verify" \in Away \cup {"stopped"} /\ "verify" # "download"
      OBVIOUS
    <3> HIDE DEF Away
    <3> QED BY <1>3, <2>2, <3>1, <3>2, <3>3
  <2> QED BY <1>7, <2>1, <2>2 DEF Download
<1>8. CASE Verify(w)
  BY <1>4, <1>5, <1>8 DEF Verify
<1> QED BY <1>6, <1>7, <1>8

(* One operation at the files: WorkerKeeps for each. *)
LEMMA FilesStep ==
  ASSUME UpdaterInv, NEW w \in Slots,
         \/ CreateStaged(w) \/ WriteStaged(w) \/ ClearBackup(w) \/ RetireCurrent(w)
         \/ Promote(w) \/ Restore(w) \/ CleanUp(w) \/ Discard(w)
  PROVE  UpdaterInv'
<1>1. /\ files \in [Names -> Int] /\ writing \in [Slots -> Names \cup {"gone"}]
      /\ installers \in [Slots -> Installers] /\ running \in Nat \ {0}
      /\ UNCHANGED <<mishaps, running, follows>>
      /\ installers[w].at \in FileSteps /\ AtFiles(w)
      /\ installers[w].version \in Nat /\ installers[w].version > running
  <2>1. UNCHANGED <<mishaps, running, follows>> /\ installers[w].at \in FileSteps
    BY DEF CreateStaged, WriteStaged, ClearBackup, RetireCurrent, Promote, Restore, CleanUp, Discard,
           Advance, programVars, FileSteps
  <2> QED BY <2>1 DEF UpdaterInv, UpdaterTypes, OnlyNewer, AtFiles, Installers
<1>2. LastOneInReach' <=> LastOneInReach
  BY <1>1 DEF LastOneInReach
<1>3. "crossed" \notin mishaps => Swapping(w) /\ ExecutableSurvives
  BY DEF UpdaterInv
<1>4. \A from \in FileSteps, to \in FileSteps \cup {"installed", "stopped"} :
        Advance(w, from, to) => /\ installers[w].at = from /\ installers'[w].at = to
                                /\ installers'[w].version = installers[w].version
  BY <1>1 DEF Advance, Installers, Stages
<1>5. Missing \in Int /\ Partial \in Int /\ Foreign \in Int
  BY DEF Missing, Partial, Foreign
<1>6. \A name \in Names : Removed(name) => /\ files' \in [Names -> Int] /\ writing' \in [Slots -> Names \cup {"gone"}]
                                           /\ files'[name] = Missing
                                           /\ \A other \in Names \ {name} : files'[other] = files[other]
  BY <1>1, <1>5 DEF Removed
<1>7. \A from, to \in Names : Renamed(from, to) /\ from # to =>
        /\ files' \in [Names -> Int] /\ writing' \in [Slots -> Names \cup {"gone"}]
        /\ files[from] # Missing /\ files'[to] = files[from] /\ files'[from] = Missing
        /\ \A other \in Names \ {from, to} : files'[other] = files[other]
  BY <1>1, <1>5 DEF Renamed
<1>8. ASSUME NEW from \in FileSteps, NEW to \in {"discard", "installed", "stopped"}, Advance(w, from, to),
             UNCHANGED fileVars
      PROVE  UpdaterInv'
  <2>1. Swapping(w)'
    BY <1>4, <1>8 DEF Swapping, FileSteps
  <2>2. "crossed" \notin mishaps => ExecutableSurvives'
    BY <1>1, <1>2, <1>3, <1>8 DEF ExecutableSurvives, fileVars
  <2> QED BY <1>1, <1>8, <2>1, <2>2, WorkerKeeps DEF fileVars, FileSteps
<1>9. CASE CreateStaged(w)
  <2>1. CASE Advance(w, "write", "stopped") /\ UNCHANGED fileVars
    BY <1>8, <2>1 DEF FileSteps
  <2>2. CASE Advance(w, "write", "discard") /\ UNCHANGED fileVars
    BY <1>8, <2>2 DEF FileSteps
  <2>3. CASE /\ Advance(w, "write", "sync")
             /\ files' = [files EXCEPT !["staged"] = Partial] /\ writing' = [writing EXCEPT ![w] = "staged"]
    <3>1. /\ files' \in [Names -> Int] /\ files'["staged"] = Partial
          /\ files'["current"] = files["current"] /\ files'["backup"] = files["backup"]
          /\ writing' \in [Slots -> Names \cup {"gone"}] /\ writing'[w] = "staged"
      BY <1>1, <1>5, <2>3 DEF Names
    <3>2. "crossed" \notin mishaps => Swapping(w)' /\ ExecutableSurvives'
      <4>1. installers[w].at = "write" /\ installers'[w].at = "sync"
        BY <1>4, <2>3 DEF FileSteps
      <4> QED BY <1>1, <1>2, <1>3, <3>1, <4>1 DEF Swapping, ExecutableSurvives
    <3> QED BY <1>1, <2>3, <3>1, <3>2, WorkerKeeps DEF FileSteps
  <2> QED BY <1>9, <2>1, <2>2, <2>3 DEF CreateStaged
<1>10. CASE WriteStaged(w)
  <2>1. CASE Advance(w, "sync", "discard") /\ UNCHANGED files
    BY <1>8, <1>10, <2>1 DEF FileSteps, WriteStaged, fileVars
  <2>2. CASE Advance(w, "sync", "clear")
    <3>1. installers[w].at = "sync" /\ installers'[w].at = "clear" /\ installers'[w].version = installers[w].version
      BY <1>4, <2>2 DEF FileSteps
    <3>2. UNCHANGED writing /\ files' \in [Names -> Int]
      BY <1>1, <1>5, <1>10 DEF WriteStaged
    <3>3. ASSUME "crossed" \notin mishaps PROVE Swapping(w)' /\ ExecutableSurvives'
      <4>1. writing[w] = "staged" /\ files["staged"] = Partial
        BY <1>3, <3>1, <3>3 DEF Swapping
      <4>2. \A v \in Slots \ {w} : ~AtFiles(v)
        BY <1>1, <3>3 DEF UpdaterInv, OneAtFiles
      <4>3. ~Shared(w)
        BY <4>1, <4>2 DEF Shared, AtFiles, FileSteps
      <4>4. files' = [files EXCEPT !["staged"] = installers[w].version]
        BY <1>10, <3>1, <4>1, <4>3, <1>4, <2>2 DEF WriteStaged, FileSteps
      <4>5. /\ files'["staged"] = installers[w].version /\ files'["current"] = files["current"]
            /\ files'["backup"] = files["backup"]
        BY <1>1, <4>4 DEF Names
      <4> QED BY <1>1, <1>2, <1>3, <3>1, <3>3, <4>5 DEF Swapping, ExecutableSurvives
    <3> QED BY <1>1, <2>2, <3>2, <3>3, WorkerKeeps DEF FileSteps
  <2> QED BY <1>10, <2>1, <2>2 DEF WriteStaged
<1>11. CASE ClearBackup(w)
  <2>1. CASE Advance(w, "clear", "discard") /\ UNCHANGED fileVars
    BY <1>8, <2>1 DEF FileSteps
  <2>2. CASE Advance(w, "clear", "retire") /\ Removed("backup")
    <3>1. installers[w].at = "clear" /\ installers'[w].at = "retire" /\ installers'[w].version = installers[w].version
      BY <1>4, <2>2 DEF FileSteps
    <3>2. /\ files' \in [Names -> Int] /\ writing' \in [Slots -> Names \cup {"gone"}]
          /\ files'["current"] = files["current"] /\ files'["staged"] = files["staged"]
      BY <1>6, <2>2 DEF Names
    <3>3. "crossed" \notin mishaps => Swapping(w)' /\ ExecutableSurvives'
      BY <1>1, <1>2, <1>3, <3>1, <3>2 DEF Swapping, ExecutableSurvives
    <3> QED BY <1>1, <2>2, <3>2, <3>3, WorkerKeeps DEF FileSteps
  <2> QED BY <1>11, <2>1, <2>2 DEF ClearBackup
<1>12. CASE RetireCurrent(w)
  <2>1. CASE Advance(w, "retire", "discard") /\ UNCHANGED fileVars
    BY <1>8, <2>1 DEF FileSteps
  <2>2. CASE Advance(w, "retire", "promote") /\ Renamed("current", "backup")
    <3>1. installers[w].at = "retire" /\ installers'[w].at = "promote" /\ installers'[w].version = installers[w].version
      BY <1>4, <2>2 DEF FileSteps
    <3>2. /\ files' \in [Names -> Int] /\ writing' \in [Slots -> Names \cup {"gone"}]
          /\ files["current"] # Missing /\ files'["current"] = Missing
          /\ files'["backup"] = files["current"] /\ files'["staged"] = files["staged"]
      BY <1>7, <2>2 DEF Names
    <3>3. "crossed" \notin mishaps => Swapping(w)' /\ ExecutableSurvives'
      BY <1>1, <1>2, <1>3, <3>1, <3>2 DEF Swapping, ExecutableSurvives, Whole
    <3> QED BY <1>1, <2>2, <3>2, <3>3, WorkerKeeps DEF FileSteps
  <2> QED BY <1>12, <2>1, <2>2 DEF RetireCurrent
<1>13. CASE Promote(w)
  <2>1. CASE Advance(w, "promote", "restore") /\ UNCHANGED fileVars
    <3>1. installers[w].at = "promote" /\ installers'[w].at = "restore"
      BY <1>4, <2>1 DEF FileSteps
    <3>2. "crossed" \notin mishaps => Swapping(w)' /\ ExecutableSurvives'
      BY <1>1, <1>2, <1>3, <2>1, <3>1 DEF Swapping, ExecutableSurvives, Whole, fileVars
    <3> QED BY <1>1, <2>1, <3>2, WorkerKeeps DEF FileSteps, fileVars
  <2>2. CASE Advance(w, "promote", "clean") /\ Renamed("staged", "current")
    <3>1. installers[w].at = "promote" /\ installers'[w].at = "clean"
      BY <1>4, <2>2 DEF FileSteps
    <3>2. /\ files' \in [Names -> Int] /\ writing' \in [Slots -> Names \cup {"gone"}]
          /\ files'["current"] = files["staged"]
      BY <1>7, <2>2 DEF Names
    <3>3. "crossed" \notin mishaps => Swapping(w)' /\ ExecutableSurvives'
      <4>1. "crossed" \notin mishaps => files'["current"] = installers[w].version
        BY <1>3, <3>1, <3>2 DEF Swapping
      <4> QED BY <1>1, <3>1, <4>1 DEF Swapping, ExecutableSurvives, Whole, Intact, Missing
    <3> QED BY <1>1, <2>2, <3>2, <3>3, WorkerKeeps DEF FileSteps
  <2> QED BY <1>13, <2>1, <2>2 DEF Promote
<1>14. CASE Restore(w)
  <2>1. CASE UNCHANGED fileVars
    BY <1>8, <1>14, <2>1 DEF FileSteps, Restore
  <2>2. CASE Renamed("backup", "current")
    <3>1. Advance(w, "restore", "discard") /\ installers[w].at = "restore" /\ installers'[w].at = "discard"
      BY <1>4, <1>14 DEF Restore, FileSteps
    <3>2. /\ files' \in [Names -> Int] /\ writing' \in [Slots -> Names \cup {"gone"}]
          /\ files'["current"] = files["backup"]
      BY <1>7, <2>2 DEF Names
    <3>3. "crossed" \notin mishaps => Swapping(w)' /\ ExecutableSurvives'
      BY <1>1, <1>3, <3>1, <3>2 DEF Swapping, ExecutableSurvives, Whole, Intact, Missing
    <3> QED BY <1>1, <3>1, <3>2, <3>3, WorkerKeeps DEF FileSteps
  <2> QED BY <1>14, <2>1, <2>2 DEF Restore
<1>15. CASE CleanUp(w)
  <2>1. CASE UNCHANGED fileVars
    BY <1>8, <1>15, <2>1 DEF FileSteps, CleanUp
  <2>2. CASE Removed("backup")
    <3>1. Advance(w, "clean", "installed") /\ installers[w].at = "clean" /\ installers'[w].at = "installed"
      BY <1>4, <1>15 DEF CleanUp, FileSteps
    <3>2. /\ files' \in [Names -> Int] /\ writing' \in [Slots -> Names \cup {"gone"}]
          /\ files'["current"] = files["current"]
      BY <1>6, <2>2 DEF Names
    <3>3. "crossed" \notin mishaps => Swapping(w)' /\ ExecutableSurvives'
      BY <1>1, <1>2, <1>3, <3>1, <3>2 DEF Swapping, ExecutableSurvives, Whole, Intact, Missing
    <3> QED BY <1>1, <3>1, <3>2, <3>3, WorkerKeeps DEF FileSteps
  <2> QED BY <1>15, <2>1, <2>2 DEF CleanUp
<1>16. CASE Discard(w)
  <2>1. CASE UNCHANGED fileVars
    BY <1>8, <1>16, <2>1 DEF FileSteps, Discard
  <2>2. CASE Removed("staged")
    <3>1. Advance(w, "discard", "stopped") /\ installers[w].at = "discard" /\ installers'[w].at = "stopped"
      BY <1>4, <1>16 DEF Discard, FileSteps
    <3>2. /\ files' \in [Names -> Int] /\ writing' \in [Slots -> Names \cup {"gone"}]
          /\ files'["current"] = files["current"] /\ files'["backup"] = files["backup"]
      BY <1>6, <2>2 DEF Names
    <3>3. "crossed" \notin mishaps => Swapping(w)' /\ ExecutableSurvives'
      BY <1>1, <1>2, <1>3, <3>1, <3>2 DEF Swapping, ExecutableSurvives
    <3> QED BY <1>1, <3>1, <3>2, <3>3, WorkerKeeps DEF FileSteps
  <2> QED BY <1>16, <2>1, <2>2 DEF Discard
<1> QED BY <1>9, <1>10, <1>11, <1>12, <1>13, <1>14, <1>15, <1>16

(* A program that is started again is the one that is in place. *)
LEMMA StartStep ==
  ASSUME UpdaterInv, StartAgain
  PROVE  UpdaterInv'
<1>1. /\ running' = files["current"] /\ Intact(files["current"]) /\ mishaps' = {} /\ ~Live /\ Live'
      /\ UNCHANGED <<files, writing, installers, follows>>
  BY DEF StartAgain, fileVars, Live
<1>2. /\ \A w \in Slots : ~AtWork(w) /\ ~AtWork(w)' /\ ~AtFiles(w)'
      /\ running' \in Nat \ {0}
  BY <1>1 DEF UpdaterInv, UpdaterTypes, OnlyNewer, AtWork, AtFiles, Intact, Names
<1>3. UpdaterTypes' /\ OneAtFiles' /\ ExecutableSurvives'
  BY <1>1, <1>2 DEF UpdaterInv, UpdaterTypes, OneAtFiles, ExecutableSurvives, Intact, Missing
<1>4. offer' = NoOffer
  BY DEF StartAgain
<1>5. OnlyNewer'
  BY <1>1, <1>2, <1>4 DEF OnlyNewer
<1>6. \A w \in Slots : installers'[w].at \notin FileSteps \cup {"locate", "download", "verify"}
  BY <1>2 DEF AtWork
<1>7. OneFollows' /\ \A w \in Slots : Swapping(w)'
  BY <1>2, <1>6 DEF OneFollows, Swapping, FileSteps
<1> QED BY <1>3, <1>5, <1>7 DEF UpdaterInv

(* Every step of the updater keeps its invariant. *)
LEMMA UpdaterStep ==
  ASSUME UpdaterInv, ReleasesListed, MaxInstalls \in Nat, [UpdaterNext]_updaterVars
  PROVE  UpdaterInv'
<1>1. /\ installers \in [Slots -> Installers]
      /\ offer # NoOffer => offer \in Nat /\ offer > running
      /\ ~Live => \A w \in Slots : ~AtWork(w)
  BY DEF UpdaterInv, UpdaterTypes, OnlyNewer
<1>2. CASE Check
  <2>1. PICK list \in ReleaseLists : offer' = SelectRelease(list)
    BY <1>2 DEF Check
  <2>2. offer' # NoOffer => offer' \in Nat /\ offer' > running
    BY <2>1, OffersAreNewer DEF UpdaterInv, UpdaterTypes
  <2> QED BY <1>1, <1>2, <2>2, ProgramKeeps DEF Check, fileVars, Live, AtWork
<1>3. CASE CloseEditor
  <2>1. /\ installers' \in [Slots -> Installers]
        /\ \A w \in Slots : installers'[w].at = installers[w].at /\ installers'[w].version = installers[w].version
    <3>1. CASE installers' = [w \in Slots |-> [installers[w] EXCEPT !.told = @ \/ w = handle]]
      BY <1>1, <3>1 DEF Installers
    <3> QED BY <1>1, <1>3, <3>1 DEF CloseEditor
  <2> QED BY <1>3, <2>1, ProgramKeeps DEF CloseEditor, fileVars, Live
<1>4. CASE OpenEditor \/ Hear
  BY <1>1, <1>4, ProgramKeeps DEF OpenEditor, Hear, fileVars, Live
<1>5. CASE Kill
  <2>1. installers' \in [Slots -> Installers] /\ \A w \in Slots : ~AtWork(w)'
    BY <1>5 DEF Kill, AtWork, NoInstaller, Installers, Stages, FileSteps, Foreign
  <2> QED BY <1>1, <1>5, <2>1, ProgramKeeps DEF Kill, fileVars
<1>6. CASE UNCHANGED updaterVars
  BY <1>1, <1>6, ProgramKeeps DEF updaterVars, fileVars, programVars, Live, AtWork
<1>7. CASE \E w \in Slots :
             \/ Locate(w) \/ Download(w) \/ Verify(w) \/ CreateStaged(w) \/ WriteStaged(w)
             \/ ClearBackup(w) \/ RetireCurrent(w) \/ Promote(w) \/ Restore(w) \/ CleanUp(w) \/ Discard(w)
  BY <1>7, FetchStep, FilesStep
<1> QED BY <1>2, <1>3, <1>4, <1>5, <1>6, <1>7, InstallBegins, StartStep DEF UpdaterNext

(* UpdateSafe: on every system, whatever versions are published and
   installed, however often an installation is tried, however many workers
   are given up with Esc and go on, and wherever an operation fails or the
   process is killed, a whole and verified executable that is no older than
   the running program is in its place or beside it, with the two exceptions
   of ExecutableSurvives (src/trainer/update.rs swap_in_place). *)
THEOREM UpdateSafe ==
  ASSUME Installed \in Nat \ {0}, ReleasesListed, MaxInstalls \in Nat
  PROVE  UpdaterSpec => []ExecutableSurvives
<1>1. UpdaterInit => UpdaterInv
  BY DEF UpdaterInit, UpdaterInv, UpdaterTypes, OnlyNewer, OneAtFiles, OneFollows, ExecutableSurvives, Swapping,
         Installers, Stages, NoInstaller, FileSteps, AtFiles, AtWork, Names, Foreign, Intact, Missing, Live
<1>2. UpdaterInv /\ [UpdaterNext]_updaterVars => UpdaterInv'
  BY UpdaterStep
<1>3. UpdaterInv => ExecutableSurvives
  BY DEF UpdaterInv
<1> QED BY <1>1, <1>2, <1>3, PTL DEF UpdaterSpec

-----------------------------------------------------------------------------
(* TurnAttention: one worker at a time. *)

Workers == [phase : {"none", "waiting", "looking", "attached", "focusing", "refused", "flashing", "ended"},
            cancelled : BOOLEAN, polls : Int]
NoWorker == {"none", "ended"}

(* At most one worker is alive, the gate is shut exactly while one is, and
   without a window that is held for the turn it has been told to stop. *)
WorkerTypes ==
  /\ workers \in [TurnIds -> Workers] /\ activating \in BOOLEAN
  /\ attention \in [active : BOOLEAN, window : [held : BOOLEAN, raised : BOOLEAN]]
  /\ seen \in [wanted : BOOLEAN, begun : 0 .. MaxTurns] /\ (seen.wanted => seen.begun \in TurnIds)
OneWorker ==
  /\ \A t, u \in WorkersAlive : t = u
  /\ activating <=> WorkersAlive # {}
  /\ ~attention.window.held => \A t \in WorkersAlive : workers[t].cancelled
WorkerInv == WorkerTypes /\ OneWorker /\ (~attention.active => ~attention.window.held)

(* A worker goes on to another phase of its life. *)
LEMMA WorkerMoves ==
  ASSUME WorkerInv, NEW t \in TurnIds, workers[t].phase \notin NoWorker, NEW w \in Workers,
         w.phase \notin NoWorker, w.cancelled = workers[t].cancelled,
         workers' = [workers EXCEPT ![t] = w], UNCHANGED <<seen, attention, activating>>
  PROVE  WorkerInv'
<1>1. WorkersAlive' = WorkersAlive
  BY DEF WorkersAlive, WorkerInv, WorkerTypes, NoWorker
<1>2. \A u \in WorkersAlive : workers'[u].cancelled = workers[u].cancelled
  BY DEF WorkersAlive, WorkerInv, WorkerTypes
<1> QED BY <1>1, <1>2 DEF WorkerInv, WorkerTypes, OneWorker

(* A worker ends, and opens the gate. *)
LEMMA WorkerEnds ==
  ASSUME WorkerInv, NEW t \in TurnIds, workers[t].phase \notin NoWorker, End(t), UNCHANGED <<seen, attention>>
  PROVE  WorkerInv'
<1>1. workers' = [workers EXCEPT ![t].phase = "ended"] /\ activating' = FALSE
  BY DEF End, Step
<1>2. workers' \in [TurnIds -> Workers] /\ \A u \in TurnIds \ {t} : workers'[u] = workers[u]
  BY <1>1 DEF WorkerInv, WorkerTypes, Workers
<1>3. workers'[t].phase = "ended"
  BY <1>1 DEF WorkerInv, WorkerTypes, Workers
<1>4. WorkersAlive' = {}
  BY <1>2, <1>3 DEF WorkersAlive, WorkerInv, OneWorker, NoWorker
<1> QED BY <1>1, <1>2, <1>4 DEF WorkerInv, WorkerTypes, OneWorker

(* What the worker does by itself: it looks, tries for the keyboard, or ends. *)
LEMMA WorkerSteps ==
  ASSUME WorkerInv, NEW t \in TurnIds,
         AwaitRestore(t) \/ Attach(t) \/ Proceed(t) \/ TakeKeyboard(t) \/ Refused(t) \/ Flash(t)
  PROVE  WorkerInv'
<1>1. workers[t].phase \notin NoWorker /\ UNCHANGED <<seen, attention>>
  BY DEF AwaitRestore, Attach, Proceed, TakeKeyboard, Refused, Flash, NoWorker
<1>2. workers[t] \in Workers
  BY DEF WorkerInv, WorkerTypes
<1>3. ASSUME NEW p \in {"looking", "attached", "focusing", "refused", "flashing"},
             Step(t, p), UNCHANGED activating
      PROVE  WorkerInv'
  <2> DEFINE w == [workers[t] EXCEPT !.phase = p]
  <2>1. w \in Workers /\ w.phase \notin NoWorker /\ w.cancelled = workers[t].cancelled
    BY <1>2 DEF Workers, NoWorker
  <2>2. workers' = [workers EXCEPT ![t] = w]
    BY <1>3 DEF Step
  <2> HIDE DEF w
  <2> QED BY <1>1, <1>3, <2>1, <2>2, WorkerMoves
<1>4. ASSUME workers' = [workers EXCEPT ![t].polls = @ + 1], UNCHANGED activating
      PROVE  WorkerInv'
  <2> DEFINE w == [workers[t] EXCEPT !.polls = @ + 1]
  <2>1. w \in Workers /\ w.phase \notin NoWorker /\ w.cancelled = workers[t].cancelled
    BY <1>1, <1>2 DEF Workers
  <2>2. workers' = [workers EXCEPT ![t] = w]
    BY <1>4
  <2> HIDE DEF w
  <2> QED BY <1>1, <1>4, <2>1, <2>2, WorkerMoves
<1>5. CASE AwaitRestore(t)
  BY <1>1, <1>3, <1>4, <1>5, WorkerEnds DEF AwaitRestore
<1>6. CASE Attach(t)
  BY <1>3, <1>6 DEF Attach
<1>7. CASE Proceed(t)
  BY <1>3, <1>7 DEF Proceed
<1>8. CASE TakeKeyboard(t)
  BY <1>1, <1>3, <1>8, WorkerEnds DEF TakeKeyboard
<1>9. CASE Refused(t)
  BY <1>1, <1>3, <1>9, WorkerEnds DEF Refused
<1>10. CASE Flash(t)
  BY <1>1, <1>10, WorkerEnds DEF Flash
<1> QED BY <1>5, <1>6, <1>7, <1>8, <1>9, <1>10

(* A turn begins: a worker only when none is alive. *)
LEMMA WorkerBegins ==
  ASSUME WorkerInv, Acquire
  PROVE  WorkerInv'
<1>1. seen.begun \in TurnIds /\ ~attention.window.held /\ UNCHANGED seen
  BY DEF WorkerInv, WorkerTypes, Acquire
<1>2. /\ attention' \in [active : BOOLEAN, window : [held : BOOLEAN, raised : BOOLEAN]]
      /\ attention'.active
  <2>1. NoWindow \in [held : BOOLEAN, raised : BOOLEAN]
    BY DEF NoWindow
  <2>2. RaisedByGame \in BOOLEAN
    BY DEF RaisedByGame
  <2>3. [held |-> TRUE, raised |-> RaisedByGame] \in [held : BOOLEAN, raised : BOOLEAN]
    BY <2>2
  <2>4. \E w \in [held : BOOLEAN, raised : BOOLEAN] : attention' = [active |-> TRUE, window |-> w]
    BY <2>1, <2>3 DEF Acquire
  <2> QED BY <2>4
<1>3. CASE UNCHANGED <<workers, activating>>
  <2>1. WorkersAlive' = WorkersAlive
    BY <1>3 DEF WorkersAlive
  <2>2. WorkerTypes'
    BY <1>1, <1>2, <1>3 DEF WorkerInv, WorkerTypes
  <2>3. \A t \in WorkersAlive : workers[t].cancelled
    BY <1>1 DEF WorkerInv, OneWorker
  <2>4. OneWorker'
    BY <1>3, <2>1, <2>3 DEF WorkerInv, OneWorker
  <2> QED BY <1>2, <2>2, <2>4 DEF WorkerInv
<1>4. CASE /\ ~activating /\ activating' = TRUE /\ attention'.window.held
           /\ workers' = [workers EXCEPT ![seen.begun] = [Idle EXCEPT !.phase = "waiting"]]
  <2> DEFINE begun == [Idle EXCEPT !.phase = "waiting"]
  <2>0. Idle \in Workers
    BY DEF Idle, Workers
  <2>1. begun \in Workers /\ begun.phase = "waiting"
    BY <2>0 DEF Workers
  <2>5. workers' = [workers EXCEPT ![seen.begun] = begun]
    BY <1>4
  <2> HIDE DEF begun
  <2>2. WorkersAlive = {}
    BY <1>4 DEF WorkerInv, OneWorker
  <2>3. WorkersAlive' = {seen.begun}
    BY <1>1, <2>5, <2>1, <2>2 DEF WorkersAlive, WorkerInv, WorkerTypes
  <2>4. workers' \in [TurnIds -> Workers]
    BY <2>5, <2>1 DEF WorkerInv, WorkerTypes
  <2>6. OneWorker'
    BY <1>4, <2>3 DEF OneWorker
  <2> QED BY <1>1, <1>2, <1>4, <2>4, <2>6 DEF WorkerInv, WorkerTypes
<1> QED
  <2>1. \/ UNCHANGED <<workers, activating>>
        \/ /\ ~activating /\ activating' = TRUE
           /\ attention' = [active |-> TRUE, window |-> [held |-> TRUE, raised |-> RaisedByGame]]
           /\ workers' = [workers EXCEPT ![seen.begun] = [Idle EXCEPT !.phase = "waiting"]]
    BY DEF Acquire
  <2>2. ASSUME attention' = [active |-> TRUE, window |-> [held |-> TRUE, raised |-> RaisedByGame]]
        PROVE  attention'.window.held
    BY <2>2
  <2> QED BY <1>3, <1>4, <2>1, <2>2

(* A turn is over: the worker is told. *)
LEMMA WorkerTold ==
  ASSUME WorkerInv, Release
  PROVE  WorkerInv'
<1>1. attention' = [active |-> FALSE, window |-> NoWindow] /\ UNCHANGED <<seen, activating>>
  BY DEF Release
<1>2. /\ attention' \in [active : BOOLEAN, window : [held : BOOLEAN, raised : BOOLEAN]]
      /\ attention'.active = FALSE /\ attention'.window.held = FALSE
  BY <1>1 DEF NoWindow
<1>3. CASE ~attention.window.held /\ UNCHANGED workers
  <2>1. WorkersAlive' = WorkersAlive
    BY <1>3 DEF WorkersAlive
  <2> QED BY <1>1, <1>2, <1>3, <2>1 DEF WorkerInv, WorkerTypes, OneWorker
<1>4. CASE workers' = CancelledWorkers
  <2>1. /\ workers' \in [TurnIds -> Workers]
        /\ \A t \in TurnIds : /\ workers'[t].phase = workers[t].phase
                              /\ t \in WorkersAlive => workers'[t].cancelled = TRUE
    <3>1. ASSUME NEW w \in Workers
          PROVE  LET v == [w EXCEPT !.cancelled = TRUE] IN
                 v \in Workers /\ v.phase = w.phase /\ v.cancelled = TRUE
      BY DEF Workers
    <3> DEFINE told(t) == [workers[t] EXCEPT !.cancelled = TRUE]
    <3>2. \A t \in TurnIds : workers[t] \in Workers
      BY DEF WorkerInv, WorkerTypes
    <3>3. \A t \in TurnIds : told(t) \in Workers /\ told(t).phase = workers[t].phase /\ told(t).cancelled = TRUE
      BY <3>1, <3>2
    <3>4. workers' = [t \in TurnIds |-> IF t \in WorkersAlive THEN told(t) ELSE workers[t]]
      BY <1>4 DEF CancelledWorkers
    <3> HIDE DEF told
    <3> QED BY <3>2, <3>3, <3>4
  <2>2. WorkersAlive' = WorkersAlive
    <3>1. \A t \in TurnIds : workers'[t].phase = workers[t].phase
      BY <2>1
    <3> QED BY <3>1 DEF WorkersAlive
  <2>3. \A t \in WorkersAlive' : workers'[t].cancelled
    <3>1. \A t \in WorkersAlive : t \in TurnIds
      BY DEF WorkersAlive
    <3> QED BY <2>1, <2>2, <3>1
  <2>4. OneWorker'
    BY <1>1, <2>2, <2>3 DEF WorkerInv, OneWorker
  <2> QED BY <1>1, <1>2, <2>1, <2>4 DEF WorkerInv, WorkerTypes
<1> QED BY <1>3, <1>4 DEF Release

(* Every step of the game, the workers and the window system keeps the gate. *)
LEMMA WorkerStep ==
  ASSUME WorkerInv, [AttentionNext]_attentionVars, MaxTurns \in Nat
  PROVE  WorkerInv'
<1>1. CASE /\ UNCHANGED <<attention, workers, activating>>
           /\ seen' \in [wanted : BOOLEAN, begun : 0 .. MaxTurns] /\ (seen'.wanted => seen'.begun \in TurnIds)
  <2>1. WorkersAlive' = WorkersAlive
    BY <1>1 DEF WorkersAlive
  <2> QED BY <1>1, <2>1 DEF WorkerInv, WorkerTypes, OneWorker
<1>2. CASE Decision
  <2>1. seen' \in [wanted : BOOLEAN, begun : 0 .. MaxTurns] /\ (seen'.wanted => seen'.begun \in TurnIds)
    <3>1. seen \in [wanted : BOOLEAN, begun : 0 .. MaxTurns]
      BY DEF WorkerInv, WorkerTypes
    <3>2. CASE seen' = [seen EXCEPT !.wanted = FALSE]
      BY <3>1, <3>2
    <3>3. CASE seen.begun < MaxTurns /\ seen' = [wanted |-> TRUE, begun |-> seen.begun + 1]
      <4>1. seen.begun + 1 \in 0 .. MaxTurns /\ seen.begun + 1 \in TurnIds
        BY <3>1, <3>3 DEF TurnIds
      <4>2. seen'.wanted = TRUE /\ seen'.begun = seen.begun + 1
        BY <3>3
      <4>3. [wanted |-> TRUE, begun |-> seen.begun + 1] \in [wanted : BOOLEAN, begun : 0 .. MaxTurns]
        BY <4>1
      <4> QED BY <3>3, <4>1, <4>2, <4>3
    <3> QED BY <1>2, <3>2, <3>3 DEF Decision
  <2> QED BY <1>1, <1>2, <2>1 DEF Decision
<1>3. CASE CarryOut \/ OtherWindow \/ TerminalCloses \/ UNCHANGED attentionVars
  BY <1>1, <1>3 DEF CarryOut, OtherWindow, TerminalCloses, attentionVars, WorkerInv, WorkerTypes
<1> QED BY <1>2, <1>3, WorkerBegins, WorkerTold, WorkerSteps DEF AttentionNext

-----------------------------------------------------------------------------
(* The window is let down again. *)

Requests == {"restore", "topmost", "not topmost"}
Desktops == [open : BOOLEAN, topmost : BOOLEAN, first : BOOLEAN, minimized : BOOLEAN, asked : Seq(Requests),
             flashing : BOOLEAN, focused : BOOLEAN, overtaken : BOOLEAN]
(* Will the window be on top when everything asked for has been carried out? *)
EndsOnTop == IF desktop.asked = <<>> THEN desktop.topmost ELSE desktop.asked[Len(desktop.asked)] = "topmost"

(* A window held for a turn will be on top, and the game knows whether it
   raised it; a window that is not held will be as it was before the game.
   A window is never asked last to restore itself. *)
Standing ==
  desktop.open /\ ~desktop.overtaken =>
    IF attention.window.held THEN EndsOnTop /\ (attention.window.raised <=> ~desktop.first)
    ELSE EndsOnTop <=> desktop.first
WindowInv ==
  /\ desktop \in Desktops
  /\ desktop.asked # <<>> => desktop.asked[Len(desktop.asked)] # "restore"
  /\ Standing

(* Nothing that the window's place depends on has changed. *)
LEMMA WindowUntouched ==
  ASSUME WindowInv, desktop' \in Desktops, desktop'.asked = desktop.asked, desktop'.open = desktop.open,
         desktop'.topmost = desktop.topmost, desktop'.first = desktop.first,
         desktop'.overtaken = desktop.overtaken, UNCHANGED attention
  PROVE  WindowInv'
<1>1. EndsOnTop' <=> EndsOnTop
  BY DEF EndsOnTop
<1>2. Standing'
  BY <1>1 DEF Standing, WindowInv
<1> QED BY <1>2 DEF WindowInv

(* Flashing, losing the keyboard or having it leaves the rest of the window alone. *)
LEMMA WindowMarks ==
  ASSUME NEW d \in Desktops, NEW e \in BOOLEAN, NEW f \in BOOLEAN, NEW g,
         \/ g = [d EXCEPT !.focused = e]
         \/ g = [d EXCEPT !.flashing = f]
         \/ g = [d EXCEPT !.focused = e, !.flashing = f]
  PROVE  /\ g \in Desktops /\ g.asked = d.asked /\ g.open = d.open /\ g.topmost = d.topmost
         /\ g.first = d.first /\ g.overtaken = d.overtaken /\ g.minimized = d.minimized
BY DEF Desktops

(* One more request, which is the last. *)
LEMMA WindowAsked ==
  ASSUME NEW d \in Desktops, NEW r \in Requests
  PROVE  LET g == Asked(d, r) IN
         /\ g \in Desktops /\ g.asked # <<>> /\ g.asked[Len(g.asked)] = r /\ g.open = d.open
         /\ g.first = d.first /\ g.overtaken = d.overtaken /\ g.minimized = d.minimized
<1> DEFINE s == Append(d.asked, r)
<1>1. s \in Seq(Requests) /\ s # <<>> /\ s[Len(s)] = r
  BY DEF Desktops
<1> HIDE DEF s
<1>2. Asked(d, r) = [d EXCEPT !.asked = s]
  BY DEF Asked, s
<1> QED BY <1>1, <1>2 DEF Desktops

(* The worker's steps move no window. *)
LEMMA WindowWorker ==
  ASSUME WindowInv, NEW t \in TurnIds,
         AwaitRestore(t) \/ Attach(t) \/ Proceed(t) \/ TakeKeyboard(t) \/ Refused(t) \/ Flash(t)
  PROVE  WindowInv'
<1>1. UNCHANGED attention
  BY DEF AwaitRestore, Attach, Proceed, TakeKeyboard, Refused, Flash
<1>2. desktop \in Desktops
  BY DEF WindowInv
<1>3. \/ UNCHANGED desktop
      \/ desktop' = [desktop EXCEPT !.focused = TRUE, !.flashing = FALSE]
      \/ desktop' = [desktop EXCEPT !.flashing = desktop.open /\ ~desktop.focused]
  BY DEF AwaitRestore, Attach, Proceed, TakeKeyboard, Refused, Flash
<1>4. (desktop.open /\ ~desktop.focused) \in BOOLEAN
  OBVIOUS
<1> DEFINE Alike(g) == /\ g \in Desktops /\ g.asked = desktop.asked /\ g.open = desktop.open
                       /\ g.topmost = desktop.topmost /\ g.first = desktop.first
                       /\ g.overtaken = desktop.overtaken
<1>5. Alike(desktop')
  <2>1. CASE UNCHANGED desktop
    BY <1>2, <2>1
  <2>2. CASE desktop' = [desktop EXCEPT !.focused = TRUE, !.flashing = FALSE]
    BY <1>2, <2>2, WindowMarks
  <2>3. CASE desktop' = [desktop EXCEPT !.flashing = desktop.open /\ ~desktop.focused]
    <3> DEFINE f == desktop.open /\ ~desktop.focused
    <3>1. f \in BOOLEAN /\ desktop' = [desktop EXCEPT !.flashing = f]
      BY <2>3
    <3> HIDE DEF f
    <3> QED BY <1>2, <3>1 DEF Desktops
  <2> QED BY <1>3, <2>1, <2>2, <2>3
<1> QED BY <1>1, <1>5, WindowUntouched

(* The window system does what it was asked, in order. *)
LEMMA WindowCarried ==
  ASSUME WindowInv, CarryOut
  PROVE  WindowInv'
<1> DEFINE s == desktop.asked
<1> DEFINE min == IF Head(s) = "restore" THEN FALSE ELSE desktop.minimized
<1> DEFINE top == IF Head(s) = "restore" THEN desktop.topmost ELSE Head(s) = "topmost"
<1>1. desktop \in Desktops /\ s # <<>> /\ UNCHANGED attention
  BY DEF WindowInv, CarryOut
<1>2. s \in Seq(Requests) /\ Head(s) \in Requests /\ Tail(s) \in Seq(Requests)
  BY <1>1 DEF Desktops
<1>3. Tail(s) # <<>> => Tail(s)[Len(Tail(s))] = s[Len(s)]
  BY <1>1, <1>2
<1>4. Tail(s) = <<>> => Head(s) = s[Len(s)]
  <2>1. Len(Tail(s)) = Len(s) - 1 /\ Head(s) = s[1]
    BY <1>1, <1>2
  <2>2. Tail(s) = <<>> => Len(s) = 1
    <3>1. Len(<<>>) = 0 /\ Len(s) \in Nat
      BY <1>2
    <3>2. Tail(s) = <<>> => Len(s) - 1 = 0
      BY <2>1, <3>1
    <3> QED BY <3>1, <3>2
  <2> QED BY <2>1, <2>2
<1>5. /\ desktop' \in Desktops /\ desktop'.asked = Tail(s) /\ (desktop'.topmost <=> top)
      /\ desktop'.open = desktop.open /\ desktop'.first = desktop.first
      /\ desktop'.overtaken = desktop.overtaken
  <2> DEFINE rest == [desktop EXCEPT !.asked = Tail(s)]
  <2>1. /\ rest \in Desktops /\ rest.asked = Tail(s) /\ rest.topmost = desktop.topmost
        /\ rest.open = desktop.open /\ rest.first = desktop.first /\ rest.overtaken = desktop.overtaken
    BY <1>1, <1>2 DEF Desktops
  <2>2. desktop' = IF Head(s) = "restore" THEN [rest EXCEPT !.minimized = FALSE]
                   ELSE IF Head(s) = "topmost" THEN [rest EXCEPT !.topmost = TRUE]
                   ELSE [rest EXCEPT !.topmost = FALSE]
    BY DEF CarryOut
  <2> HIDE DEF rest, s
  <2>3. CASE Head(s) = "restore"
    BY <2>1, <2>2, <2>3 DEF Desktops
  <2>4. CASE Head(s) = "topmost"
    BY <2>1, <2>2, <2>4 DEF Desktops
  <2>5. CASE Head(s) # "restore" /\ Head(s) # "topmost"
    BY <2>1, <2>2, <2>5 DEF Desktops
  <2> QED BY <2>3, <2>4, <2>5
<1>6. s[Len(s)] # "restore"
  BY <1>1 DEF WindowInv
<1>7. EndsOnTop' <=> EndsOnTop
  <2>1. CASE Tail(s) = <<>>
    <3>1. Head(s) # "restore" /\ (top <=> s[Len(s)] = "topmost")
      BY <1>4, <1>6, <2>1
    <3> QED BY <1>1, <1>5, <2>1, <3>1 DEF EndsOnTop
  <2>2. CASE Tail(s) # <<>>
    BY <1>1, <1>3, <1>5, <2>2 DEF EndsOnTop
  <2> QED BY <2>1, <2>2
<1>8. Standing'
  BY <1>1, <1>5, <1>7 DEF Standing, WindowInv
<1> QED BY <1>3, <1>5, <1>6, <1>8 DEF WindowInv

(* A turn begins: the window is asked to stay on top, and the game notes
   whether it was it that raised it. *)
LEMMA WindowRaised ==
  ASSUME WindowInv, ~attention.window.held, Acquire
  PROVE  WindowInv'
<1>1. desktop \in Desktops
  BY DEF WindowInv
<1>2. CASE ~desktop.open
  <2>1. UNCHANGED desktop
    BY <1>2 DEF Acquire
  <2>2. Standing'
    BY <1>2, <2>1 DEF Standing
  <2> QED BY <2>1, <2>2 DEF WindowInv
<1>3. CASE desktop.open
  <2> DEFINE late == desktop.overtaken \/ desktop.asked # <<>>
  <2> DEFINE d == [desktop EXCEPT !.overtaken = late]
  <2> DEFINE e == IF d.minimized THEN Asked(d, "restore") ELSE d
  <2>1. /\ attention' = [active |-> TRUE, window |-> [held |-> TRUE, raised |-> RaisedByGame]]
        /\ desktop' = Asked(e, "topmost")
    BY <1>3 DEF Acquire
  <2>2. attention'.window.held /\ (attention'.window.raised <=> ~desktop.topmost)
    BY <2>1 DEF RaisedByGame
  <2>3. d \in Desktops /\ (d.overtaken <=> late) /\ d.first = desktop.first
    <3>1. late \in BOOLEAN
      OBVIOUS
    <3> HIDE DEF late
    <3> QED BY <1>1, <3>1 DEF Desktops
  <2> HIDE DEF d
  <2>4. Asked(d, "restore") \in Desktops /\ Asked(d, "restore").overtaken = d.overtaken
        /\ Asked(d, "restore").first = d.first
    BY <2>3, WindowAsked DEF Requests
  <2>5. e \in Desktops /\ e.overtaken = d.overtaken /\ e.first = d.first
    BY <2>3, <2>4
  <2> HIDE DEF e
  <2>6. /\ desktop' \in Desktops /\ desktop'.asked # <<>> /\ desktop'.asked[Len(desktop'.asked)] = "topmost"
        /\ desktop'.overtaken = e.overtaken /\ desktop'.first = e.first
    BY <2>1, <2>5, WindowAsked DEF Requests
  <2>7. EndsOnTop'
    BY <2>6 DEF EndsOnTop
  <2>8. ~desktop'.overtaken => (desktop.topmost <=> desktop.first)
    <3>1. ~desktop'.overtaken => ~late
      BY <2>3, <2>5, <2>6
    <3>2. ~late => (EndsOnTop <=> desktop.topmost)
      BY DEF EndsOnTop
    <3> QED BY <1>3, <3>1, <3>2 DEF Standing, WindowInv
  <2>9. desktop'.first = desktop.first
    BY <2>3, <2>5, <2>6
  <2>10. Standing'
    BY <2>2, <2>7, <2>8, <2>9 DEF Standing
  <2> QED BY <2>6, <2>10 DEF WindowInv
<1> QED BY <1>2, <1>3

(* A turn is over: what the game raised, it asks to be let down. *)
LEMMA WindowLowered ==
  ASSUME WindowInv, Release
  PROVE  WindowInv'
<1>1. desktop \in Desktops
  BY DEF WindowInv
<1>2. attention'.window.held = FALSE
  BY DEF Release, NoWindow
<1>3. CASE UNCHANGED desktop /\ (~attention.window.held \/ ~desktop.open)
  <2>1. EndsOnTop' <=> EndsOnTop
    BY <1>3 DEF EndsOnTop
  <2>2. Standing'
    BY <1>2, <1>3, <2>1 DEF Standing, WindowInv
  <2> QED BY <1>3, <2>2 DEF WindowInv
<1>4. CASE attention.window.held /\ desktop.open /\ attention.window.raised
  <2> DEFINE d == Asked(desktop, "not topmost")
  <2>1. desktop' = [d EXCEPT !.flashing = FALSE]
    BY <1>4 DEF Release
  <2>2. /\ d \in Desktops /\ d.asked # <<>> /\ d.asked[Len(d.asked)] = "not topmost"
        /\ d.first = desktop.first /\ d.overtaken = desktop.overtaken
    BY <1>1, WindowAsked DEF Requests
  <2> HIDE DEF d
  <2>3. desktop' \in Desktops /\ desktop'.asked = d.asked /\ desktop'.first = d.first
        /\ desktop'.overtaken = d.overtaken
    BY <2>1, <2>2 DEF Desktops
  <2>4. ~EndsOnTop' /\ (~desktop'.overtaken => ~desktop'.first)
    <3>1. ~EndsOnTop'
      BY <2>2, <2>3 DEF EndsOnTop
    <3> QED BY <1>4, <2>2, <2>3, <3>1 DEF Standing, WindowInv
  <2>5. Standing'
    BY <1>2, <2>4 DEF Standing
  <2> QED BY <2>2, <2>3, <2>5 DEF WindowInv
<1>5. CASE attention.window.held /\ desktop.open /\ ~attention.window.raised
  <2>1. desktop' = [desktop EXCEPT !.flashing = FALSE]
    BY <1>5 DEF Release
  <2>2. /\ desktop' \in Desktops /\ desktop'.asked = desktop.asked /\ desktop'.first = desktop.first
        /\ desktop'.overtaken = desktop.overtaken /\ desktop'.topmost = desktop.topmost
    BY <1>1, <2>1 DEF Desktops
  <2>3. EndsOnTop' <=> EndsOnTop
    BY <2>2 DEF EndsOnTop
  <2>4. Standing'
    BY <1>2, <1>5, <2>2, <2>3 DEF Standing, WindowInv
  <2> QED BY <2>2, <2>4 DEF WindowInv
<1> QED BY <1>3, <1>4, <1>5 DEF Release

(* Every step keeps the window's place. *)
LEMMA WindowStep ==
  ASSUME WindowInv, ~attention.active => ~attention.window.held, [AttentionNext]_attentionVars
  PROVE  WindowInv'
<1>1. desktop \in Desktops
  BY DEF WindowInv
<1>2. CASE Decision \/ UNCHANGED attentionVars
  BY <1>1, <1>2, WindowUntouched DEF Decision, attentionVars
<1>3. CASE Acquire
  BY <1>3, WindowRaised DEF Acquire
<1>4. CASE OtherWindow
  <2>1. desktop' = [desktop EXCEPT !.focused = FALSE] /\ UNCHANGED attention
    BY <1>4 DEF OtherWindow
  <2> QED BY <1>1, <2>1, WindowMarks, WindowUntouched
<1>5. CASE TerminalCloses
  <2>1. desktop' = [desktop EXCEPT !.open = FALSE, !.asked = <<>>, !.focused = FALSE, !.flashing = FALSE]
    BY <1>5 DEF TerminalCloses
  <2>2. desktop' \in Desktops /\ desktop'.asked = <<>> /\ desktop'.open = FALSE
    <3> DEFINE nothing == <<>>
    <3>1. nothing \in Seq(Requests)
      OBVIOUS
    <3>2. desktop' = [desktop EXCEPT !.open = FALSE, !.asked = nothing, !.focused = FALSE, !.flashing = FALSE]
      BY <2>1
    <3> HIDE DEF nothing
    <3>3. desktop' \in Desktops /\ desktop'.asked = nothing /\ desktop'.open = FALSE
      BY <1>1, <3>1, <3>2 DEF Desktops
    <3> QED BY <3>3 DEF nothing
  <2>3. Standing'
    BY <2>2 DEF Standing
  <2> QED BY <2>2, <2>3 DEF WindowInv
<1> QED BY <1>2, <1>3, <1>4, <1>5, WindowLowered, WindowCarried, WindowWorker DEF AttentionNext

(* WindowReleased: however turns begin and end, whatever the window system,
   other programs and the workers do and wherever they block, at most one
   worker is alive and the gate is open when none is; a worker whose turn is
   over knows it; and once the turn is over and every request is carried out
   the window is on top exactly if it was before the game, unless a turn began
   before the window was let down (src/ui/turn_attention.rs). *)
THEOREM WindowReleased ==
  ASSUME MaxTurns \in Nat
  PROVE  AttentionSpec => []WindowLetGo
<1>1. AttentionInit => WorkerInv /\ WindowInv
  <2> SUFFICES ASSUME AttentionInit PROVE WorkerInv /\ WindowInv
    OBVIOUS
  <2>1. Idle \in Workers /\ Idle.phase = "none"
    BY DEF Idle, Workers
  <2>2. workers \in [TurnIds -> Workers] /\ WorkersAlive = {}
    BY <2>1 DEF AttentionInit, WorkersAlive
  <2>3. NoWindow \in [held : BOOLEAN, raised : BOOLEAN] /\ NoWindow.held = FALSE
    BY DEF NoWindow
  <2>4. /\ attention \in [active : BOOLEAN, window : [held : BOOLEAN, raised : BOOLEAN]]
        /\ ~attention.window.held
    BY <2>3 DEF AttentionInit
  <2>5. seen \in [wanted : BOOLEAN, begun : 0 .. MaxTurns] /\ ~seen.wanted
    BY DEF AttentionInit
  <2>6. WorkerInv
    BY <2>2, <2>4, <2>5 DEF AttentionInit, WorkerInv, WorkerTypes, OneWorker
  <2>7. desktop \in Desktops /\ desktop.asked = <<>> /\ desktop.topmost = desktop.first
    BY DEF AttentionInit, Desktops
  <2>8. Standing
    BY <2>4, <2>7 DEF Standing, EndsOnTop
  <2> QED BY <2>6, <2>7, <2>8 DEF WindowInv
<1>2. WorkerInv /\ WindowInv /\ [AttentionNext]_attentionVars => (WorkerInv /\ WindowInv)'
  BY WorkerStep, WindowStep DEF WorkerInv
<1>3. WorkerInv /\ WindowInv => WindowLetGo
  <2> SUFFICES ASSUME WorkerInv, WindowInv PROVE WindowLetGo
    OBVIOUS
  <2>1. Cardinality(WorkersAlive) <= 1
    <3>1. CASE WorkersAlive = {}
      BY <3>1, FS_EmptySet
    <3>2. CASE WorkersAlive # {}
      <4>1. PICK t : WorkersAlive = {t}
        BY <3>2 DEF WorkerInv, OneWorker
      <4> QED BY <4>1, FS_Singleton
    <3> QED BY <3>1, <3>2
  <2>2. ~attention.active => \A t \in WorkersAlive : workers[t].cancelled
    BY DEF WorkerInv, OneWorker
  <2>3. ~attention.active /\ desktop.open /\ desktop.asked = <<>> /\ ~desktop.overtaken
          => desktop.topmost = desktop.first
    <3>1. desktop.topmost \in BOOLEAN /\ desktop.first \in BOOLEAN
      BY DEF WindowInv, Desktops
    <3>2. ~attention.active /\ desktop.open /\ desktop.asked = <<>> /\ ~desktop.overtaken
            => (desktop.topmost <=> desktop.first)
      BY DEF WorkerInv, WindowInv, Standing, EndsOnTop
    <3> QED BY <3>1, <3>2
  <2> QED BY <2>1, <2>2, <2>3 DEF WindowLetGo, WorkerInv, OneWorker
<1> QED BY <1>1, <1>2, <1>3, PTL DEF AttentionSpec

-----------------------------------------------------------------------------
(* The desk of the trainer.  What it handles. *)

(* Decisions, reviews, records and hands of one session, and its cash entries. *)
DecisionsIn(id) == [session : {id}, hand : Nat, revision : Nat]
ReviewsIn(id) == [of : DecisionsIn(id), basis : {"local", "cloud", "solver"}]
FiledIn(id) == {r \in [decision : DecisionsIn(id), feedback : ReviewsIn(id)] : r.feedback.of = r.decision}
HandsIn(id) == [session : {id}, hand : Nat, decisions : Seq(FiledIn(id))]
CashEntries == [hand : Nat, seat : Chairs, chips : Int]

(* What a session is. *)
IsSession(s) ==
  s = [id |-> s.id, hand |-> s.hand, revision |-> s.revision, button |-> s.button,
       stack |-> s.stack, toAct |-> s.toAct, over |-> s.over, coaching |-> s.coaching,
       decisions |-> s.decisions, ready |-> s.ready, events |-> s.events, opening |-> s.opening,
       profit |-> s.profit, completed |-> s.completed, settled |-> s.settled]
NumbersFit(s) ==
  /\ s.id \in Nat /\ s.hand \in Nat /\ s.revision \in Nat /\ s.completed \in Nat
  /\ s.profit \in Int /\ s.opening \in Int /\ s.stack \in [Chairs -> Int]
  /\ s.button \in Chairs /\ s.over \in BOOLEAN /\ s.settled \in BOOLEAN
RecordsFit(s) ==
  /\ s.coaching \in DecisionsIn(s.id) \cup {NoDecision}
  /\ s.decisions \in Seq(FiledIn(s.id)) /\ s.ready \in Seq(HandsIn(s.id))
  /\ s.events \in Seq(CashEntries)
SessionFits(s) == IsSession(s) /\ NumbersFit(s) /\ RecordsFit(s)

(* A new session fits. *)
LEMMA NewSessionFits ==
  ASSUME NEW id \in Nat
  PROVE  LET s == NewSession(id) IN
         SessionFits(s) /\ s.id = id /\ s.coaching = NoDecision
<1> DEFINE s == NewSession(id)
           stack == [c \in Chairs |-> BuyIn]
           actor == FirstActor(stack, Hero)
<1>1. s = [id |-> id, hand |-> 1, revision |-> 0, button |-> Hero, stack |-> stack,
       toAct |-> actor, over |-> FALSE, coaching |-> NoDecision,
       decisions |-> <<>>, ready |-> <<>>, events |-> <<>>, opening |-> BuyIn,
       profit |-> 0, completed |-> 0, settled |-> FALSE]
  BY DEF NewSession
<1>2. stack \in [Chairs -> Int] /\ BuyIn \in Int /\ Hero \in Chairs
  BY SessionAssumption DEF Chairs, Hero
<1> HIDE DEF s, stack, actor
<1>3. IsSession(s)
  BY <1>1 DEF IsSession
<1>4. NumbersFit(s)
  BY <1>1, <1>2 DEF NumbersFit
<1>5. RecordsFit(s)
  BY <1>1 DEF RecordsFit
<1> QED BY <1>1, <1>3, <1>4, <1>5 DEF SessionFits, s

(* A hand ends: settle appends its records to those of the session. *)
LEMMA SettleFits ==
  ASSUME NEW s, SessionFits(s)
  PROVE  /\ SessionFits(Settle(s)) /\ Settle(s).id = s.id /\ Settle(s).coaching = s.coaching
         /\ Settle(s).events = s.events
<1>1. CASE ~ (Finished(s) /\ ~s.settled)
  BY <1>1 DEF Settle
<1>2. CASE Finished(s) /\ ~s.settled
  <2> DEFINE profit == s.profit + s.stack[Hero] - s.opening
             completed == s.completed + 1
             hand == [session |-> s.id, hand |-> s.hand, decisions |-> s.decisions]
             ready == Append(s.ready, hand)
             q == Settle(s)
  <2>1. q = [s EXCEPT !.profit = profit, !.completed = completed, !.ready = ready,
                      !.decisions = <<>>, !.settled = TRUE]
    BY <1>2 DEF Settle
  <2>2. profit \in Int /\ completed \in Nat
    BY DEF SessionFits, NumbersFit, Chairs, Hero
  <2>3. hand \in HandsIn(s.id)
    BY DEF HandsIn, SessionFits, NumbersFit, RecordsFit
  <2>4. ready \in Seq(HandsIn(s.id))
    BY <2>3 DEF SessionFits, RecordsFit
  <2> HIDE DEF profit, completed, hand, ready, q
  <2>5. IsSession(q) /\ q.id = s.id /\ q.hand = s.hand /\ q.revision = s.revision /\ q.button = s.button
        /\ q.stack = s.stack /\ q.over = s.over /\ q.coaching = s.coaching
        /\ q.decisions = <<>> /\ q.ready = ready /\ q.events = s.events /\ q.opening = s.opening
        /\ q.profit = profit /\ q.completed = completed /\ q.settled = TRUE
    BY <2>1 DEF SessionFits, IsSession
  <2>6. NumbersFit(q)
    BY <2>2, <2>5 DEF SessionFits, NumbersFit
  <2>7. RecordsFit(q)
    BY <2>4, <2>5 DEF SessionFits, RecordsFit
  <2> QED BY <2>5, <2>6, <2>7 DEF SessionFits, q
<1> QED BY <1>1, <1>2

(* An accepted action may end the hand, with the chips of both seats as before
   in sum. *)
LEMMA OutcomeFits ==
  ASSUME NEW s, SessionFits(s), NEW outcome \in Outcomes(s)
  PROVE  /\ outcome.stack \in [Chairs -> Int] /\ outcome.over \in BOOLEAN
         /\ outcome.stack[Hero] + outcome.stack[Bot] = s.stack[Hero] + s.stack[Bot]
         /\ outcome.over => outcome.toAct = NoActor
<1> DEFINE risk == Min({s.stack[Hero], s.stack[Bot]})
<1>1. s.stack \in [Chairs -> Int] /\ s.stack[Hero] \in Int /\ s.stack[Bot] \in Int
  BY DEF SessionFits, NumbersFit, Chairs, Hero, Bot
<1>2. risk \in Int
  <2> DEFINE M == {s.stack[Hero], s.stack[Bot]}
  <2>1. \E x \in M : \A y \in M : x <= y
    BY <1>1
  <2>2. Min(M) \in M
    BY <2>1 DEF Min
  <2> QED BY <1>1, <2>2
<1>3. CASE \E chair \in Chairs : outcome = [toAct |-> chair, over |-> FALSE, stack |-> s.stack]
  BY <1>1, <1>3
<1>4. ASSUME NEW won \in {-risk, 0, risk},
             outcome = [toAct |-> NoActor, over |-> TRUE,
                        stack |-> [s.stack EXCEPT ![Hero] = @ + won, ![Bot] = @ - won]]
      PROVE  /\ outcome.stack \in [Chairs -> Int] /\ outcome.over \in BOOLEAN
             /\ outcome.stack[Hero] + outcome.stack[Bot] = s.stack[Hero] + s.stack[Bot]
             /\ outcome.over => outcome.toAct = NoActor
  <2> HIDE DEF risk
  <2>1. won \in Int
    BY <1>2
  <2> DEFINE stack == [s.stack EXCEPT ![Hero] = @ + won, ![Bot] = @ - won]
  <2>2. stack \in [Chairs -> Int] /\ stack[Hero] = s.stack[Hero] + won /\ stack[Bot] = s.stack[Bot] - won
    BY <1>1, <2>1 DEF Chairs, Hero, Bot
  <2>3. stack[Hero] + stack[Bot] = s.stack[Hero] + s.stack[Bot]
    BY <1>1, <2>1, <2>2
  <2> QED BY <1>4, <2>2, <2>3
<1> QED BY <1>3, <1>4 DEF Outcomes

(* What an action changes. *)
LEMMA ApplyFits ==
  ASSUME NEW s, SessionFits(s), NEW outcome \in Outcomes(s)
  PROVE  LET q == Apply(s, outcome) IN
         /\ SessionFits(q) /\ q.id = s.id /\ q.hand = s.hand /\ q.coaching = s.coaching /\ q.decisions = s.decisions
         /\ q.ready = s.ready /\ q.events = s.events /\ q.opening = s.opening
         /\ q.profit = s.profit /\ q.completed = s.completed /\ q.settled = s.settled
         /\ q.over = outcome.over /\ q.toAct = outcome.toAct /\ q.stack = outcome.stack
<1> DEFINE q == Apply(s, outcome)
           revision == s.revision + 1
<1>1. q = [s EXCEPT !.revision = revision, !.toAct = outcome.toAct,
                    !.over = outcome.over, !.stack = outcome.stack]
  BY DEF Apply
<1>2. revision \in Nat
  BY DEF SessionFits, NumbersFit
<1> HIDE DEF q, revision
<1>3. /\ IsSession(q) /\ q.id = s.id /\ q.hand = s.hand /\ q.revision = revision /\ q.button = s.button
      /\ q.coaching = s.coaching /\ q.decisions = s.decisions
      /\ q.ready = s.ready /\ q.events = s.events /\ q.opening = s.opening
      /\ q.profit = s.profit /\ q.completed = s.completed /\ q.settled = s.settled
      /\ q.over = outcome.over /\ q.toAct = outcome.toAct /\ q.stack = outcome.stack
  BY <1>1 DEF SessionFits, IsSession
<1>4. NumbersFit(q)
  BY <1>2, <1>3, OutcomeFits DEF SessionFits, NumbersFit
<1>5. RecordsFit(q)
  BY <1>3 DEF SessionFits, RecordsFit
<1> QED BY <1>3, <1>4, <1>5 DEF SessionFits, q

(* A decision is one of the session, and the advice given at once is about it. *)
LEMMA DecisionFits ==
  ASSUME NEW s, SessionFits(s)
  PROVE  DecisionOf(s) \in DecisionsIn(s.id) /\ DecisionOf(s) # NoDecision
<1>1. DecisionOf(s) = [session |-> s.id, hand |-> s.hand, revision |-> s.revision]
  BY DEF DecisionOf
<1>2. s.id \in Nat /\ s.hand \in Nat /\ s.revision \in Nat
  BY DEF SessionFits, NumbersFit
<1> QED BY <1>1, <1>2, SessionAssumption DEF DecisionsIn

(* The advice of the trainer itself. *)
LEMMA LocalFits ==
  ASSUME NEW id, NEW decision \in DecisionsIn(id)
  PROVE  /\ LocalFeedback(decision) \in ReviewsIn(id) /\ LocalFeedback(decision).of = decision
         /\ LocalFeedback(decision).basis = "local"
BY DEF LocalFeedback, ReviewsIn

(* The learner acts. *)
LEMMA SubmitFits ==
  ASSUME NEW s, SessionFits(s), NEW outcome \in Outcomes(s)
  PROVE  LET q == Submit(s, outcome) IN
         /\ SessionFits(q) /\ q.id = s.id /\ q.hand = s.hand /\ q.coaching = DecisionOf(s)
         /\ q.ready = s.ready /\ q.events = s.events /\ q.opening = s.opening
         /\ q.profit = s.profit /\ q.completed = s.completed /\ q.settled = s.settled
         /\ q.over = outcome.over /\ q.toAct = outcome.toAct /\ q.stack = outcome.stack
<1> DEFINE q == Submit(s, outcome)
           a == Apply(s, outcome)
           decision == DecisionOf(s)
           record == [decision |-> decision, feedback |-> LocalFeedback(decision)]
           decisions == Append(a.decisions, record)
<1>1. q = [a EXCEPT !.coaching = decision, !.decisions = decisions]
  BY DEF Submit
<1>2. /\ SessionFits(a) /\ a.id = s.id /\ a.hand = s.hand /\ a.decisions = s.decisions
      /\ a.ready = s.ready /\ a.events = s.events /\ a.opening = s.opening
      /\ a.profit = s.profit /\ a.completed = s.completed /\ a.settled = s.settled
      /\ a.over = outcome.over /\ a.toAct = outcome.toAct /\ a.stack = outcome.stack
  BY ApplyFits
<1>3. decision \in DecisionsIn(s.id)
  BY DecisionFits
<1>4. record \in FiledIn(s.id)
  BY <1>3, LocalFits DEF FiledIn
<1> HIDE DEF record, decision, a
<1>5. decisions \in Seq(FiledIn(s.id))
  BY <1>2, <1>4 DEF SessionFits, RecordsFit
<1> HIDE DEF decisions, q
<1>6. /\ IsSession(q) /\ q.id = a.id /\ q.hand = a.hand /\ q.revision = a.revision /\ q.button = a.button
      /\ q.coaching = decision /\ q.decisions = decisions
      /\ q.ready = a.ready /\ q.events = a.events /\ q.opening = a.opening
      /\ q.profit = a.profit /\ q.completed = a.completed /\ q.settled = a.settled
      /\ q.over = a.over /\ q.toAct = a.toAct /\ q.stack = a.stack
  BY <1>1, <1>2 DEF SessionFits, IsSession
<1>7. NumbersFit(q)
  BY <1>2, <1>6 DEF SessionFits, NumbersFit
<1>8. RecordsFit(q)
  BY <1>2, <1>3, <1>5, <1>6 DEF SessionFits, RecordsFit
<1> QED BY <1>2, <1>6, <1>7, <1>8 DEF SessionFits, q, decision

(* The pause ends. *)
LEMMA UnpausedFits ==
  ASSUME NEW s, SessionFits(s)
  PROVE  LET q == [s EXCEPT !.coaching = NoDecision] IN
         /\ SessionFits(q) /\ q.id = s.id /\ q.hand = s.hand /\ q.coaching = NoDecision /\ q.decisions = s.decisions
         /\ q.ready = s.ready /\ q.events = s.events /\ q.opening = s.opening
         /\ q.profit = s.profit /\ q.completed = s.completed /\ q.settled = s.settled
         /\ q.over = s.over /\ q.toAct = s.toAct /\ q.stack = s.stack
<1> DEFINE q == [s EXCEPT !.coaching = NoDecision]
<1>1. q = [s EXCEPT !.coaching = NoDecision]
  OBVIOUS
<1> HIDE DEF q
<1>2. /\ IsSession(q) /\ q.id = s.id /\ q.hand = s.hand /\ q.revision = s.revision /\ q.button = s.button
      /\ q.coaching = NoDecision /\ q.decisions = s.decisions
      /\ q.ready = s.ready /\ q.events = s.events /\ q.opening = s.opening
      /\ q.profit = s.profit /\ q.completed = s.completed /\ q.settled = s.settled
      /\ q.over = s.over /\ q.toAct = s.toAct /\ q.stack = s.stack
  BY <1>1 DEF SessionFits, IsSession
<1>3. NumbersFit(q)
  BY <1>2 DEF SessionFits, NumbersFit
<1>4. RecordsFit(q)
  BY <1>2 DEF SessionFits, RecordsFit
<1> QED BY <1>2, <1>3, <1>4 DEF SessionFits, q

(* The hand goes on, or ends. *)
LEMMA ContinueFits ==
  ASSUME NEW s, SessionFits(s)
  PROVE  LET q == ContinueHand(s) IN
         SessionFits(q) /\ q.id = s.id /\ q.coaching = NoDecision /\ q.events = s.events
<1> DEFINE q == [s EXCEPT !.coaching = NoDecision]
<1>1. SessionFits(q) /\ q.id = s.id /\ q.coaching = NoDecision /\ q.events = s.events
  BY UnpausedFits
<1>2. ContinueHand(s) = Settle(q)
  BY DEF ContinueHand
<1> HIDE DEF q
<1> QED BY <1>1, <1>2, SettleFits

(* The bot acts. *)
LEMMA StepFits ==
  ASSUME NEW s, SessionFits(s), NEW outcome \in Outcomes(s)
  PROVE  LET q == StepBot(s, outcome) IN
         SessionFits(q) /\ q.id = s.id /\ q.coaching = s.coaching /\ q.events = s.events
BY ApplyFits, SettleFits DEF StepBot

-----------------------------------------------------------------------------
(* Reviews. *)

(* A set of positions that is not empty has a first. *)
LEMMA FirstOf ==
  ASSUME NEW n \in Nat, NEW S \in SUBSET (1 .. n), S # {}
  PROVE  Min(S) \in S
<1>1. \E x \in S : \A y \in S : x <= y
  BY LeastOf, S \subseteq Nat
<1> QED BY <1>1 DEF Min

(* Sequences joined one after the other, as FlattenSeq joins them. *)
Joined(parts, n, f) ==
  f = [i \in 1 .. n |-> IF i = 1 THEN parts[i] ELSE f[i - 1] \o parts[i]]
JoinedIn(T, parts, n) == \E f : Joined(parts, n, f) /\ \A i \in 1 .. n : f[i] \in Seq(T)

(* Joining works: there is no least number of sequences from which on it does not. *)
LEMMA JoinedExists ==
  ASSUME NEW T, NEW parts \in Seq(Seq(T)), NEW n \in 0 .. Len(parts)
  PROVE  JoinedIn(T, parts, n)
<1> DEFINE Bad == {k \in 0 .. Len(parts) : ~JoinedIn(T, parts, k)}
<1>0. Len(parts) \in Nat /\ Bad \subseteq Nat
  OBVIOUS
<1>1. SUFFICES ASSUME Bad # {} PROVE FALSE
  OBVIOUS
<1>2. PICK m \in Bad : \A k \in Bad : m <= k
  BY <1>0, <1>1, LeastOf
<1>3. m \in 0 .. Len(parts) /\ m \in Nat /\ ~JoinedIn(T, parts, m)
  BY <1>0, <1>2
<1>4. CASE m = 0
  <2> DEFINE f == [i \in 1 .. 0 |-> parts[i]]
  <2>1. Joined(parts, 0, f) /\ \A i \in 1 .. 0 : f[i] \in Seq(T)
    BY DEF Joined
  <2> HIDE DEF f
  <2> QED BY <1>3, <1>4, <2>1 DEF JoinedIn
<1>5. CASE m # 0
  <2>1. m - 1 \in 0 .. Len(parts) /\ ~(m <= m - 1)
    BY <1>0, <1>3, <1>5
  <2>2. JoinedIn(T, parts, m - 1)
    BY <1>2, <2>1
  <2>3. PICK f : Joined(parts, m - 1, f) /\ \A i \in 1 .. m - 1 : f[i] \in Seq(T)
    BY <2>2 DEF JoinedIn
  <2> DEFINE last == IF m = 1 THEN parts[m] ELSE f[m - 1] \o parts[m]
             g == [i \in 1 .. m |-> IF i = m THEN last ELSE f[i]]
  <2>4. m \in 1 .. Len(parts) /\ parts[m] \in Seq(T)
    BY <1>0, <1>3, <1>5
  <2>5. last \in Seq(T)
    <3>1. CASE m = 1
      BY <2>4, <3>1
    <3>2. CASE m # 1
      <4>1. f[m - 1] \in Seq(T)
        BY <2>3, <1>3, <1>5, <3>2
      <4> QED BY <2>4, <3>2, <4>1
    <3> QED BY <3>1, <3>2
  <2>6. ASSUME NEW i \in 1 .. m
        PROVE  g[i] = IF i = 1 THEN parts[i] ELSE g[i - 1] \o parts[i]
    <3>1. CASE i = m
      <4>1. i # 1 => g[i - 1] = f[i - 1]
        BY <1>3, <3>1
      <4> QED BY <3>1, <4>1
    <3>2. CASE i # m
      <4>1. i \in 1 .. m - 1 /\ g[i] = f[i]
        BY <1>3, <3>2
      <4>2. i # 1 => g[i - 1] = f[i - 1]
        BY <1>3, <3>2
      <4>3. f[i] = IF i = 1 THEN parts[i] ELSE f[i - 1] \o parts[i]
        BY <2>3, <4>1 DEF Joined
      <4> QED BY <4>1, <4>2, <4>3
    <3> QED BY <3>1, <3>2
  <2> HIDE DEF last
  <2>7. Joined(parts, m, g)
    BY <2>6 DEF Joined
  <2>8. \A i \in 1 .. m : g[i] \in Seq(T)
    BY <1>3, <2>3, <2>5
  <2> HIDE DEF g
  <2> QED BY <1>3, <2>7, <2>8 DEF JoinedIn
<1> QED BY <1>4, <1>5

(* There is one way to join them. *)
LEMMA JoinedOnce ==
  ASSUME NEW parts, NEW n \in Nat, NEW f, Joined(parts, n, f), NEW g, Joined(parts, n, g)
  PROVE  \A i \in 1 .. n : f[i] = g[i]
<1> DEFINE Bad == {i \in 1 .. n : f[i] # g[i]}
<1>0. Bad \subseteq Nat
  OBVIOUS
<1>1. SUFFICES ASSUME Bad # {} PROVE FALSE
  OBVIOUS
<1>2. PICK i \in Bad : \A j \in Bad : i <= j
  BY <1>0, <1>1, LeastOf
<1>3. i \in 1 .. n /\ f[i] # g[i]
  BY <1>2
<1>4. /\ f[i] = IF i = 1 THEN parts[i] ELSE f[i - 1] \o parts[i]
      /\ g[i] = IF i = 1 THEN parts[i] ELSE g[i - 1] \o parts[i]
  BY <1>3 DEF Joined
<1>5. i # 1
  BY <1>3, <1>4
<1>6. i - 1 \in 1 .. n /\ ~(i <= i - 1)
  BY <1>3, <1>5
<1>7. f[i - 1] = g[i - 1]
  BY <1>2, <1>6
<1> QED BY <1>3, <1>4, <1>5, <1>7

(* What is joined consists of elements of the sequences. *)
LEMMA FlattenedTyped ==
  ASSUME NEW T, NEW parts \in Seq(Seq(T))
  PROVE  FlattenSeq(parts) \in Seq(T)
<1>1. CASE Len(parts) = 0
  BY <1>1 DEF FlattenSeq
<1>2. CASE Len(parts) # 0
  <2> DEFINE n == Len(parts)
             F == CHOOSE f : Joined(parts, n, f)
  <2>1. n \in Nat /\ n \in 1 .. n /\ n \in 0 .. n
    BY <1>2
  <2>2. PICK f : Joined(parts, n, f) /\ \A i \in 1 .. n : f[i] \in Seq(T)
    BY <2>1, JoinedExists DEF JoinedIn
  <2>3. Joined(parts, n, F)
    BY <2>2
  <2>4. FlattenSeq(parts) = F[n]
    BY <1>2 DEF FlattenSeq, Joined
  <2> HIDE DEF F
  <2>5. F[n] = f[n]
    BY <2>1, <2>2, <2>3, JoinedOnce
  <2> QED BY <2>1, <2>2, <2>4, <2>5
<1> QED BY <1>1, <1>2

(* All records of a session are filed under their decisions. *)
LEMMA RecordsFiled ==
  ASSUME NEW s, SessionFits(s)
  PROVE  RecordsOf(s) \in Seq(FiledIn(s.id))
<1> DEFINE parts == [i \in DOMAIN s.ready |-> s.ready[i].decisions]
<1>1. parts \in Seq(Seq(FiledIn(s.id)))
  <2>1. s.ready \in Seq(HandsIn(s.id))
    BY DEF SessionFits, RecordsFit
  <2>2. ASSUME NEW i \in DOMAIN s.ready PROVE s.ready[i].decisions \in Seq(FiledIn(s.id))
    <3>1. s.ready[i] \in HandsIn(s.id)
      BY <2>1
    <3> QED BY <3>1 DEF HandsIn
  <2>3. Len(s.ready) \in Nat /\ DOMAIN s.ready = 1 .. Len(s.ready)
    BY <2>1
  <2> DEFINE S == Seq(FiledIn(s.id))
  <2>4. parts = [i \in 1 .. Len(s.ready) |-> s.ready[i].decisions]
    BY <2>3
  <2>5. \A i \in 1 .. Len(s.ready) : s.ready[i].decisions \in S
    BY <2>2, <2>3
  <2> HIDE DEF S, parts
  <2>6. parts \in Seq(S)
    BY <2>3, <2>4, <2>5
  <2> QED BY <2>6 DEF S
<1>2. FlattenSeq(parts) \in Seq(FiledIn(s.id))
  BY <1>1, FlattenedTyped
<1> HIDE DEF parts
<1> QED BY <1>2 DEF SessionFits, RecordsFit, RecordsOf, parts

(* A review is filed under its own decision. *)
LEMMA AmendFits ==
  ASSUME NEW id, NEW records \in Seq(FiledIn(id)), NEW review \in ReviewsIn(id)
  PROVE  Amend(records, review) \in Seq(FiledIn(id))
<1> DEFINE hits == {i \in DOMAIN records : SameDecision(records[i], review)}
           first == Min(hits)
<1>1. CASE hits = {}
  BY <1>1 DEF Amend
<1>2. CASE hits # {}
  <2>1. first \in hits
    BY <1>2, FirstOf, Len(records) \in Nat, hits \in SUBSET (1 .. Len(records))
  <2>2. Amend(records, review) = [records EXCEPT ![first].feedback = review]
    BY <1>2 DEF Amend
  <2>3. first \in DOMAIN records /\ SameDecision(records[first], review) /\ records[first] \in FiledIn(id)
    BY <2>1
  <2> HIDE DEF first
  <2> DEFINE record == [records[first] EXCEPT !.feedback = review]
  <2>4. record \in FiledIn(id)
    <3>1. records[first].decision = review.of
      <4>1. records[first].decision.hand = review.of.hand /\ records[first].decision.revision = review.of.revision
        BY <2>3 DEF SameDecision
      <4>2. records[first].decision \in DecisionsIn(id) /\ review.of \in DecisionsIn(id)
        BY <2>3 DEF FiledIn, ReviewsIn
      <4> DEFINE x == records[first].decision
                 y == review.of
      <4> HIDE DEF x, y
      <4>3. x.hand = y.hand /\ x.revision = y.revision /\ x \in DecisionsIn(id) /\ y \in DecisionsIn(id)
        BY <4>1, <4>2 DEF x, y
      <4>4. x = y
        BY <4>3 DEF DecisionsIn
      <4> QED BY <4>4 DEF x, y
    <3> QED BY <2>3, <3>1 DEF FiledIn
  <2>5. Amend(records, review) = [records EXCEPT ![first] = record]
    BY <2>2
  <2> QED BY <2>3, <2>4, <2>5
<1> QED BY <1>1, <1>2

(* A review that arrives changes records, and nothing else of the session. *)
LEMMA ReviewFits ==
  ASSUME NEW s, SessionFits(s), NEW review \in ReviewsIn(s.id)
  PROVE  LET q == RecordReview(s, review) IN
         /\ SessionFits(q) /\ q.id = s.id /\ q.hand = s.hand /\ q.coaching = s.coaching
         /\ q.events = s.events /\ q.opening = s.opening
         /\ q.profit = s.profit /\ q.completed = s.completed /\ q.settled = s.settled
         /\ q.over = s.over /\ q.toAct = s.toAct /\ q.stack = s.stack
         /\ DOMAIN q.ready = DOMAIN s.ready
         /\ \A i \in DOMAIN s.ready : q.ready[i].hand = s.ready[i].hand
<1> DEFINE q == RecordReview(s, review)
<1>0. IsSession(s) /\ NumbersFit(s) /\ RecordsFit(s)
  BY DEF SessionFits
<1>1. CASE q = s
  BY <1>0, <1>1 DEF SessionFits
<1>2. CASE q = [s EXCEPT !.decisions = Amend(s.decisions, review)]
  <2> DEFINE decisions == Amend(s.decisions, review)
  <2>1. decisions \in Seq(FiledIn(s.id))
    BY <1>0, AmendFits DEF RecordsFit
  <2>2. q = [s EXCEPT !.decisions = decisions]
    BY <1>2
  <2> HIDE DEF q, decisions
  <2>3. /\ IsSession(q) /\ q.id = s.id /\ q.hand = s.hand /\ q.revision = s.revision /\ q.button = s.button
        /\ q.coaching = s.coaching /\ q.decisions = decisions
        /\ q.ready = s.ready /\ q.events = s.events /\ q.opening = s.opening
        /\ q.profit = s.profit /\ q.completed = s.completed /\ q.settled = s.settled
        /\ q.over = s.over /\ q.toAct = s.toAct /\ q.stack = s.stack
    BY <1>0, <2>2 DEF IsSession
  <2>4. NumbersFit(q)
    BY <1>0, <2>3 DEF NumbersFit
  <2>5. RecordsFit(q)
    BY <1>0, <2>1, <2>3 DEF RecordsFit
  <2> QED BY <2>3, <2>4, <2>5 DEF SessionFits, q
<1>3. ASSUME NEW holder, q = [s EXCEPT !.ready[holder].decisions = Amend(@, review)]
      PROVE  /\ SessionFits(q) /\ q.id = s.id /\ q.hand = s.hand /\ q.coaching = s.coaching
             /\ q.events = s.events /\ q.opening = s.opening
             /\ q.profit = s.profit /\ q.completed = s.completed /\ q.settled = s.settled
             /\ q.over = s.over /\ q.toAct = s.toAct /\ q.stack = s.stack
             /\ DOMAIN q.ready = DOMAIN s.ready
             /\ \A i \in DOMAIN s.ready : q.ready[i].hand = s.ready[i].hand
  <2> DEFINE amended == Amend(s.ready[holder].decisions, review)
             ready == [s.ready EXCEPT ![holder].decisions = amended]
  <2>1. q = [s EXCEPT !.ready = ready]
    BY <1>3
  <2>2. /\ ready \in Seq(HandsIn(s.id)) /\ DOMAIN ready = DOMAIN s.ready
        /\ \A i \in DOMAIN s.ready : ready[i].hand = s.ready[i].hand
    <3>1. CASE holder \in DOMAIN s.ready
      <4>1. s.ready[holder] \in HandsIn(s.id) /\ s.ready \in Seq(HandsIn(s.id))
        BY <1>0, <3>1 DEF RecordsFit
      <4>2. s.ready[holder].decisions \in Seq(FiledIn(s.id))
        BY <4>1 DEF HandsIn
      <4>3. amended \in Seq(FiledIn(s.id))
        BY <4>2, AmendFits
      <4> HIDE DEF amended
      <4> DEFINE hand == [s.ready[holder] EXCEPT !.decisions = amended]
      <4>4. hand \in HandsIn(s.id) /\ hand.hand = s.ready[holder].hand
        BY <4>1, <4>3 DEF HandsIn
      <4>5. ready = [s.ready EXCEPT ![holder] = hand]
        OBVIOUS
      <4> HIDE DEF hand, ready
      <4> QED BY <3>1, <4>1, <4>4, <4>5
    <3>2. CASE holder \notin DOMAIN s.ready
      <4>1. ready = s.ready
        BY <1>0, <3>2 DEF RecordsFit
      <4> QED BY <1>0, <4>1 DEF RecordsFit
    <3> QED BY <3>1, <3>2
  <2> HIDE DEF q, ready
  <2>3. /\ IsSession(q) /\ q.id = s.id /\ q.hand = s.hand /\ q.revision = s.revision /\ q.button = s.button
        /\ q.coaching = s.coaching /\ q.decisions = s.decisions
        /\ q.ready = ready /\ q.events = s.events /\ q.opening = s.opening
        /\ q.profit = s.profit /\ q.completed = s.completed /\ q.settled = s.settled
        /\ q.over = s.over /\ q.toAct = s.toAct /\ q.stack = s.stack
    BY <1>0, <2>1 DEF IsSession
  <2>4. NumbersFit(q)
    BY <1>0, <2>3 DEF NumbersFit
  <2>5. RecordsFit(q)
    BY <1>0, <2>2, <2>3 DEF RecordsFit
  <2> QED BY <2>2, <2>3, <2>4, <2>5 DEF SessionFits, q
<1> HIDE DEF q
<1>4. \/ q = s
      \/ q = [s EXCEPT !.decisions = Amend(s.decisions, review)]
      \/ \E holder : q = [s EXCEPT !.ready[holder].decisions = Amend(@, review)]
  BY DEF RecordReview, q
<1> QED BY <1>1, <1>2, <1>3, <1>4 DEF q

(* Cash between hands. *)

(* A cash event in the log, and other chips in front of the learner. *)
WithCash(s, stack, events) == [s EXCEPT !.stack = stack, !.events = events]

(* Nothing else of the session changes with them. *)
LEMMA CashFits ==
  ASSUME NEW s, SessionFits(s), NEW stack \in [Chairs -> Int], NEW events \in Seq(CashEntries),
         NEW q, q = WithCash(s, stack, events)
  PROVE  /\ SessionFits(q) /\ q.id = s.id /\ q.hand = s.hand /\ q.coaching = s.coaching
         /\ q.decisions = s.decisions /\ q.ready = s.ready /\ q.events = events /\ q.opening = s.opening
         /\ q.profit = s.profit /\ q.completed = s.completed /\ q.settled = s.settled
         /\ q.over = s.over /\ q.toAct = s.toAct /\ q.stack = stack
<1>1. /\ IsSession(q) /\ q.id = s.id /\ q.hand = s.hand /\ q.revision = s.revision /\ q.button = s.button
      /\ q.coaching = s.coaching /\ q.decisions = s.decisions
      /\ q.ready = s.ready /\ q.events = events /\ q.opening = s.opening
      /\ q.profit = s.profit /\ q.completed = s.completed /\ q.settled = s.settled
      /\ q.over = s.over /\ q.toAct = s.toAct /\ q.stack = stack
  BY DEF SessionFits, IsSession, WithCash
<1>2. NumbersFit(q)
  BY <1>1 DEF SessionFits, NumbersFit
<1>3. RecordsFit(q)
  BY <1>1 DEF SessionFits, RecordsFit
<1> QED BY <1>1, <1>2, <1>3 DEF SessionFits

(* A cash event is one. *)
LEMMA EventFits ==
  ASSUME NEW s, SessionFits(s), NEW seat \in Chairs, NEW chips \in Int
  PROVE  /\ Event(s, seat, chips) \in CashEntries
         /\ Event(s, seat, chips).seat = seat /\ Event(s, seat, chips).chips = chips
<1>1. s.hand \in Nat
  BY DEF SessionFits, NumbersFit
<1> QED BY <1>1 DEF Event, CashEntries

(* What the session is after the learner has added or taken chips: an entry more,
   of the chips that were added, or nothing at all. *)
Paid(s, q, seat, chips) ==
  /\ SessionFits(q) /\ q.id = s.id /\ q.hand = s.hand /\ q.coaching = s.coaching
  /\ q.decisions = s.decisions /\ q.ready = s.ready
  /\ q.profit = s.profit /\ q.completed = s.completed
  /\ q.stack[seat] = s.stack[seat] + chips /\ q.stack[Other(seat)] = s.stack[Other(seat)]
  /\ \/ chips = 0 /\ q.events = s.events
     \/ \E entry \in CashEntries : entry.seat = seat /\ entry.chips = chips
                                   /\ q.events = Append(s.events, entry)
StillOver(s, q) ==
  q.opening = s.opening /\ q.settled = s.settled /\ q.over = s.over /\ q.toAct = s.toAct

(* The learner tops up to the buy-in. *)
LEMMA TopUpPaid ==
  ASSUME NEW s, SessionFits(s)
  PROVE  \E chips \in Int : Paid(s, TopUp(s), Hero, chips) /\ StillOver(s, TopUp(s))
<1> DEFINE added == Max({BuyIn - s.stack[Hero], 0})
           entry == Event(s, Hero, added)
           events == IF added > 0 THEN Append(s.events, entry) ELSE s.events
           stack == [s.stack EXCEPT ![Hero] = @ + added]
           q == TopUp(s)
<1>1. s.stack \in [Chairs -> Int] /\ s.stack[Hero] \in Int /\ s.events \in Seq(CashEntries)
  BY DEF SessionFits, NumbersFit, RecordsFit, Chairs, Hero
<1>2. added \in Int /\ added >= 0
  <2> DEFINE M == {BuyIn - s.stack[Hero], 0}
  <2>1. BuyIn - s.stack[Hero] \in Int
    BY <1>1, SessionAssumption
  <2>2. \E x \in M : \A y \in M : x >= y
    BY <2>1
  <2>3. Max(M) \in M /\ \A y \in M : Max(M) >= y
    BY <2>2 DEF Max
  <2> QED BY <2>1, <2>3
<1>3. q = WithCash(s, stack, events)
  BY DEF TopUp, WithCash
<1> HIDE DEF added, q
<1>4. Hero \in Chairs /\ Other(Hero) \in Chairs /\ Other(Hero) # Hero
  BY DEF Chairs, Hero, Bot, Other
<1>5. entry \in CashEntries /\ entry.seat = Hero /\ entry.chips = added
  BY <1>2, <1>4, EventFits
<1> HIDE DEF entry
<1>6. stack \in [Chairs -> Int] /\ stack[Hero] = s.stack[Hero] + added
      /\ stack[Other(Hero)] = s.stack[Other(Hero)]
  BY <1>1, <1>2, <1>4
<1>7. events \in Seq(CashEntries) /\ (added = 0 => events = s.events)
      /\ (added # 0 => events = Append(s.events, entry))
  BY <1>1, <1>2, <1>5
<1> HIDE DEF stack, events
<1>8. /\ SessionFits(q) /\ q.id = s.id /\ q.hand = s.hand /\ q.coaching = s.coaching
      /\ q.decisions = s.decisions /\ q.ready = s.ready /\ q.events = events /\ q.opening = s.opening
      /\ q.profit = s.profit /\ q.completed = s.completed /\ q.settled = s.settled
      /\ q.over = s.over /\ q.toAct = s.toAct /\ q.stack = stack
  BY <1>3, <1>6, <1>7, CashFits
<1>9. Paid(s, q, Hero, added)
  BY <1>5, <1>6, <1>7, <1>8 DEF Paid
<1> QED BY <1>2, <1>8, <1>9 DEF StillOver, q

(* The learner takes chips out. *)
LEMMA WithdrawPaid ==
  ASSUME NEW s, SessionFits(s), NEW chips \in Nat
  PROVE  Paid(s, Withdraw(s, chips), Hero, -chips) /\ StillOver(s, Withdraw(s, chips))
<1> DEFINE entry == Event(s, Hero, -chips)
           events == Append(s.events, entry)
           stack == [s.stack EXCEPT ![Hero] = @ - chips]
           q == Withdraw(s, chips)
<1>1. s.stack \in [Chairs -> Int] /\ s.stack[Hero] \in Int /\ s.events \in Seq(CashEntries)
  BY DEF SessionFits, NumbersFit, RecordsFit, Chairs, Hero
<1>3. q = WithCash(s, stack, events)
  BY DEF Withdraw, WithCash
<1> HIDE DEF q
<1>4. Hero \in Chairs /\ Other(Hero) \in Chairs /\ Other(Hero) # Hero
  BY DEF Chairs, Hero, Bot, Other
<1>5. entry \in CashEntries /\ entry.seat = Hero /\ entry.chips = -chips
  BY <1>4, EventFits, -chips \in Int
<1> HIDE DEF entry
<1>6. stack \in [Chairs -> Int] /\ stack[Hero] = s.stack[Hero] + (-chips)
      /\ stack[Other(Hero)] = s.stack[Other(Hero)]
  BY <1>1, <1>4
<1>7. events \in Seq(CashEntries)
  BY <1>1, <1>5
<1> HIDE DEF stack, events
<1>8. /\ SessionFits(q) /\ q.id = s.id /\ q.hand = s.hand /\ q.coaching = s.coaching
      /\ q.decisions = s.decisions /\ q.ready = s.ready /\ q.events = events /\ q.opening = s.opening
      /\ q.profit = s.profit /\ q.completed = s.completed /\ q.settled = s.settled
      /\ q.over = s.over /\ q.toAct = s.toAct /\ q.stack = stack
  BY <1>3, <1>6, <1>7, CashFits
<1>9. Paid(s, q, Hero, -chips)
  BY <1>5, <1>6, <1>8 DEF Paid, events
<1> QED BY <1>8, <1>9 DEF StillOver, q

(* The bot buys in again when it is broke, and the opening stack is taken. *)
Logged(s) ==
  LET rebuy == IF s.stack[Bot] = 0 THEN BuyIn ELSE 0
  IN  [s EXCEPT !.events = IF rebuy > 0 THEN Append(@, Event(s, Bot, rebuy)) ELSE @,
                !.opening = OpeningStack(s)]

(* The session with the rebuy in its log. *)
LEMMA LoggedFits ==
  ASSUME NEW s, SessionFits(s)
  PROVE  LET q == Logged(s)
             rebuy == IF s.stack[Bot] = 0 THEN BuyIn ELSE 0 IN
         /\ SessionFits(q) /\ q.id = s.id /\ q.hand = s.hand /\ q.coaching = s.coaching
         /\ q.ready = s.ready /\ q.opening = s.stack[Hero]
         /\ q.profit = s.profit /\ q.completed = s.completed /\ q.settled = s.settled
         /\ q.over = s.over /\ q.toAct = s.toAct /\ q.stack = s.stack
         /\ \/ q.events = s.events /\ rebuy = 0
            \/ \E entry \in CashEntries : entry.seat = Bot /\ entry.chips = rebuy
                                          /\ q.events = Append(s.events, entry)
<1> DEFINE rebuy == IF s.stack[Bot] = 0 THEN BuyIn ELSE 0
           entry == Event(s, Bot, rebuy)
           events == IF rebuy > 0 THEN Append(s.events, entry) ELSE s.events
           opening == s.stack[Hero]
           q == Logged(s)
<1>1. s.events \in Seq(CashEntries) /\ opening \in Int
  BY DEF SessionFits, NumbersFit, RecordsFit, Chairs, Hero
<1>2. rebuy \in Nat
  BY SessionAssumption
<1>3. q = [s EXCEPT !.events = events, !.opening = opening]
  BY DEF Logged, OpeningStack
<1> HIDE DEF q, rebuy
<1>4. Bot \in Chairs /\ rebuy \in Int
  BY <1>2 DEF Chairs, Bot
<1>5. entry \in CashEntries /\ entry.seat = Bot /\ entry.chips = rebuy
  BY <1>4, EventFits
<1> HIDE DEF entry, opening
<1>6. events \in Seq(CashEntries)
  BY <1>1, <1>5
<1>7. \/ rebuy = 0 /\ events = s.events
      \/ events = Append(s.events, entry)
  BY <1>2
<1> HIDE DEF events
<1>8. /\ IsSession(q) /\ q.id = s.id /\ q.hand = s.hand /\ q.revision = s.revision /\ q.button = s.button
      /\ q.coaching = s.coaching /\ q.decisions = s.decisions
      /\ q.ready = s.ready /\ q.events = events /\ q.opening = opening
      /\ q.profit = s.profit /\ q.completed = s.completed /\ q.settled = s.settled
      /\ q.over = s.over /\ q.toAct = s.toAct /\ q.stack = s.stack
  BY <1>3 DEF SessionFits, IsSession
<1>9. NumbersFit(q)
  BY <1>1, <1>8 DEF SessionFits, NumbersFit
<1>10. RecordsFit(q)
  BY <1>6, <1>8 DEF SessionFits, RecordsFit
<1> QED BY <1>5, <1>7, <1>8, <1>9, <1>10 DEF SessionFits, q, rebuy, opening

(* The hand that is dealt. *)
Dealt(s, logged, seats) ==
  LET rebuy  == IF s.stack[Bot] = 0 THEN BuyIn ELSE 0
      button == (s.button + 1) % seats
      stack  == [s.stack EXCEPT ![Bot] = @ + rebuy]
  IN  [logged EXCEPT !.stack = stack, !.button = button, !.hand = @ + 1, !.revision = 0,
                     !.toAct = FirstActor(stack, button), !.over = FALSE,
                     !.decisions = <<>>, !.settled = FALSE]

(* Dealing keeps the log and the account. *)
LEMMA DealtFits ==
  ASSUME NEW s, SessionFits(s), NEW logged, SessionFits(logged), logged.id = s.id,
         NEW seats, (s.button + 1) % seats \in Chairs
  PROVE  LET q == Dealt(s, logged, seats)
             rebuy == IF s.stack[Bot] = 0 THEN BuyIn ELSE 0 IN
         /\ SessionFits(q) /\ q.id = s.id /\ q.hand = logged.hand + 1 /\ q.coaching = logged.coaching
         /\ q.ready = logged.ready /\ q.events = logged.events /\ q.opening = logged.opening
         /\ q.profit = logged.profit /\ q.completed = logged.completed
         /\ ~q.settled /\ ~q.over
         /\ q.stack[Hero] = s.stack[Hero] /\ q.stack[Bot] = s.stack[Bot] + rebuy
<1> DEFINE rebuy == IF s.stack[Bot] = 0 THEN BuyIn ELSE 0
           button == (s.button + 1) % seats
           stack  == [s.stack EXCEPT ![Bot] = @ + rebuy]
           hand == logged.hand + 1
           actor == FirstActor(stack, button)
           q == Dealt(s, logged, seats)
<1>1. q = [logged EXCEPT !.stack = stack, !.button = button, !.hand = hand, !.revision = 0,
                         !.toAct = actor, !.over = FALSE, !.decisions = <<>>, !.settled = FALSE]
  BY DEF Dealt
<1>2. rebuy \in Int
  BY SessionAssumption
<1> HIDE DEF q, rebuy
<1>3. stack \in [Chairs -> Int] /\ stack[Hero] = s.stack[Hero] /\ stack[Bot] = s.stack[Bot] + rebuy
  BY <1>2 DEF SessionFits, NumbersFit, Chairs, Hero, Bot
<1>4. button \in Chairs /\ hand \in Nat
  BY DEF SessionFits, NumbersFit
<1> HIDE DEF stack, button, hand, actor
<1>5. /\ IsSession(q) /\ q.id = logged.id /\ q.hand = hand /\ q.revision = 0 /\ q.button = button
      /\ q.coaching = logged.coaching /\ q.decisions = <<>>
      /\ q.ready = logged.ready /\ q.events = logged.events /\ q.opening = logged.opening
      /\ q.profit = logged.profit /\ q.completed = logged.completed /\ q.settled = FALSE
      /\ q.over = FALSE /\ q.toAct = actor /\ q.stack = stack
  BY <1>1 DEF SessionFits, IsSession
<1>6. NumbersFit(q)
  <2>1. q.id \in Nat /\ q.hand \in Nat /\ q.revision \in Nat /\ q.completed \in Nat
    BY <1>4, <1>5 DEF SessionFits, NumbersFit
  <2>2. q.profit \in Int /\ q.opening \in Int /\ q.stack \in [Chairs -> Int] /\ q.button \in Chairs
    BY <1>3, <1>4, <1>5 DEF SessionFits, NumbersFit
  <2>3. q.over \in BOOLEAN /\ q.settled \in BOOLEAN
    BY <1>5
  <2> QED BY <2>1, <2>2, <2>3 DEF NumbersFit
<1>7. RecordsFit(q)
  BY <1>5 DEF SessionFits, RecordsFit
<1> QED BY <1>3, <1>5, <1>6, <1>7 DEF SessionFits, q, hand, rebuy

(* Which of the two happens. *)
LEMMA NextHandIs ==
  ASSUME NEW s, NEW seats
  PROVE  /\ (s.button + 1) % seats \notin Chairs => NextHand(s, seats) = Logged(s)
         /\ (s.button + 1) % seats \in Chairs => NextHand(s, seats) = Dealt(s, Logged(s), seats)
BY DEF NextHand, Logged, Dealt

(* The next hand keeps the session a session, whatever the settings say. *)
LEMMA NextHandFits ==
  ASSUME NEW s, SessionFits(s), NEW seats
  PROVE  LET q == NextHand(s, seats) IN
         SessionFits(q) /\ q.id = s.id /\ q.coaching = s.coaching
<1>1. SessionFits(Logged(s)) /\ Logged(s).id = s.id /\ Logged(s).coaching = s.coaching
  BY LoggedFits
<1>2. CASE (s.button + 1) % seats \notin Chairs
  BY <1>1, <1>2, NextHandIs
<1>3. CASE (s.button + 1) % seats \in Chairs
  <2>1. LET q == Dealt(s, Logged(s), seats) IN
        SessionFits(q) /\ q.id = s.id /\ q.coaching = Logged(s).coaching
    BY <1>1, <1>3, DealtFits
  <2> QED BY <1>1, <1>3, <2>1, NextHandIs
<1> QED BY <1>2, <1>3

-----------------------------------------------------------------------------
(* The invariants of the desk. *)

(* Jobs and panel are about decisions of the session. *)

JobsIn(id) == [current : DecisionsIn(id) \cup {Never}, retired : Seq(DecisionsIn(id))]
IsPanel(u) ==
  /\ u = [feedback |-> u.feedback, baseline |-> u.baseline, bySolver |-> u.bySolver, byCloud |-> u.byCloud]
  /\ u.bySolver \in BOOLEAN /\ u.byCloud \in BOOLEAN
ShownTruly(u, decision, id) ==
  /\ u.feedback \in ReviewsIn(id) /\ u.feedback.of = decision
  /\ u.bySolver <=> u.feedback.basis = "solver"
  /\ u.baseline \in ReviewsIn(id) /\ u.baseline.of = decision /\ u.baseline.basis # "solver"
  /\ u.byCloud <=> u.baseline.basis = "cloud"
PanelFits(u, s) ==
  /\ IsPanel(u)
  /\ s.coaching = NoDecision => ~u.byCloud
  /\ s.coaching # NoDecision => ShownTruly(u, s.coaching, s.id)
JobsFit(s, jobs, others) == jobs \in JobsIn(s.id) /\ others \in JobsIn(s.id)

(* The invariant behind ReviewsBelong. *)
ReviewInv == SessionFits(session) /\ JobsFit(session, cloud, solvers) /\ PanelFits(ui, session)

(* The hand that is settled is over, and nobody acts in it any more. *)
InTurn(s) ==
  /\ s.settled => s.over
  /\ s.over => s.toAct = NoActor
(* The learner's chips: the opening stack until the hand is settled, then those
   in front of the seat. *)
MoneyFits(s, unpaid) ==
  /\ (IF s.settled THEN s.stack[Hero] ELSE s.opening) = BuyIn + s.profit + CashOf(s, {Hero})
  /\ s.stack[Hero] + s.stack[Bot] + unpaid = 2 * BuyIn + CashOf(s, Chairs)
(* Every hand is filed once. *)
HandsFit(s) ==
  /\ \A i, j \in DOMAIN s.ready : s.ready[i].hand = s.ready[j].hand => i = j
  /\ \A i \in DOMAIN s.ready : s.ready[i].hand <= s.hand /\ (~s.settled => s.ready[i].hand # s.hand)
(* A hand that has ended is settled at once. *)
OpenAccount(s, unpaid) == InTurn(s) /\ MoneyFits(s, unpaid) /\ HandsFit(s)
AccountFits(s, unpaid) == OpenAccount(s, unpaid) /\ (Finished(s) => s.settled)

(* The log on disk goes on with the session's, after the entries that were there
   when the session was begun anew. *)
LogFits(s, b, d, p) ==
  /\ b.cash \in Nat /\ Len(p.cash) <= b.cash
  /\ b.cash = Len(p.cash) \/ b.cash <= Len(s.events)
  /\ d.cash = p.cash \o SubSeq(s.events, Len(p.cash) + 1, b.cash)
(* What was added to the total is what was accounted for. *)
TotalsIn == [hands : Int, profit : Int]
TotalFits(b) == b.accounted \in TotalsIn /\ b.progress = b.accounted
(* The archive has the session's hands that were saved, as they were saved; hands
   of an earlier session hold places only until a hand more than those is saved. *)
FiledHands == UNION {HandsIn(id) : id \in Nat}
KeyOf(s, hand) == <<s.id, hand.hand>>
Filed(s, b, d, i) ==
  /\ i \in DOMAIN s.ready /\ b.snapshots[i].hand = s.ready[i].hand
  /\ KeyOf(s, s.ready[i]) \in DOMAIN d.archive
  /\ d.archive[KeyOf(s, s.ready[i])] = b.snapshots[i].decisions
  /\ ~b.changed => b.snapshots[i] = s.ready[i]
ArchiveFits(s, b, d, p) ==
  /\ b.snapshots \in Seq(FiledHands) /\ p.hands <= Len(b.snapshots)
  /\ Len(b.snapshots) <= Len(s.ready) \/ Len(b.snapshots) = p.hands
  /\ \A i \in DOMAIN b.snapshots :
       /\ b.snapshots[i].session <= s.id
       /\ p.hands < Len(b.snapshots) => b.snapshots[i].session = s.id
       /\ b.snapshots[i].session = s.id => Filed(s, b, d, i)
AreBooks(b, d) ==
  /\ b = [progress |-> b.progress, accounted |-> b.accounted, cash |-> b.cash, snapshots |-> b.snapshots,
          changed |-> b.changed, firstRun |-> b.firstRun]
  /\ b.changed \in BOOLEAN /\ b.firstRun \in BOOLEAN
  /\ d = [cash |-> d.cash, archive |-> d.archive]
IsPast(p) ==
  /\ p = [unpaid |-> p.unpaid, cash |-> p.cash, hands |-> p.hands]
  /\ p.unpaid \in Int /\ p.cash \in Seq(CashEntries) /\ p.hands \in Nat
BooksFit(s, b, d, p) ==
  AreBooks(b, d) /\ IsPast(p) /\ LogFits(s, b, d, p) /\ TotalFits(b) /\ ArchiveFits(s, b, d, p)

(* The invariant behind BooksBalance. *)
BooksInv ==
  /\ AccountFits(session, past.unpaid) /\ BooksFit(session, books, disk, past)
  /\ phase = "key" => books.accounted = [hands |-> session.completed, profit |-> session.profit]

(* Jobs. *)

(* Retiring the current job. *)
LEMMA RetireFits ==
  ASSUME NEW id, NEW jobs \in JobsIn(id)
  PROVE  Retire(jobs) \in JobsIn(id)
<1>1. CASE jobs.current = Never
  BY <1>1 DEF Retire
<1>2. CASE jobs.current # Never
  <2>1. jobs.current \in DecisionsIn(id) /\ jobs.retired \in Seq(DecisionsIn(id))
    BY <1>2 DEF JobsIn
  <2>2. Append(jobs.retired, jobs.current) \in Seq(DecisionsIn(id))
    BY <2>1
  <2> QED BY <1>2, <2>2 DEF Retire, JobsIn
<1> QED BY <1>1, <1>2

(* The current job ends. *)
LEMMA IdleFits ==
  ASSUME NEW id, NEW jobs \in JobsIn(id)
  PROVE  [jobs EXCEPT !.current = Never] \in JobsIn(id)
BY DEF JobsIn

(* A retired job ends. *)
LEMMA TakenFits ==
  ASSUME NEW id, NEW jobs \in JobsIn(id), NEW i \in DOMAIN jobs.retired
  PROVE  [jobs EXCEPT !.retired = RemoveAt(@, i)] \in JobsIn(id) /\ jobs.retired[i] \in DecisionsIn(id)
<1> DEFINE retired == jobs.retired
<1>1. retired \in Seq(DecisionsIn(id)) /\ i \in 1 .. Len(retired)
  BY DEF JobsIn
<1> HIDE DEF retired
<1>2. SubSeq(retired, 1, i - 1) \in Seq(DecisionsIn(id)) /\ SubSeq(retired, i + 1, Len(retired)) \in Seq(DecisionsIn(id))
  BY <1>1
<1>3. RemoveAt(retired, i) \in Seq(DecisionsIn(id)) /\ retired[i] \in DecisionsIn(id)
  BY <1>1, <1>2 DEF RemoveAt
<1> QED BY <1>3 DEF JobsIn, retired

(* A job begins. *)
LEMMA BegunFits ==
  ASSUME NEW id, NEW jobs \in JobsIn(id), NEW decision \in DecisionsIn(id)
  PROVE  [jobs EXCEPT !.current = decision] \in JobsIn(id)
BY DEF JobsIn

(* A solver job begins, or none. *)
LEMMA BeginSolverFits ==
  ASSUME NEW id, NEW jobs \in JobsIn(id), NEW decision \in DecisionsIn(id), NEW chosen
  PROVE  BeginSolver(decision, chosen, jobs) \in JobsIn(id)
<1>1. [jobs EXCEPT !.current = Never] \in JobsIn(id)
  BY IdleFits
<1>2. [[jobs EXCEPT !.current = Never] EXCEPT !.current = decision] \in JobsIn(id)
  BY <1>1, BegunFits
<1> QED BY <1>1, <1>2 DEF BeginSolver

(* A coaching request begins a job of its decision, or none. *)
LEMMA RequestFits ==
  ASSUME NEW id, NEW jobs \in JobsIn(id), NEW decision \in DecisionsIn(id), NEW chosen,
         Request(decision, chosen, jobs)
  PROVE  cloud' \in JobsIn(id)
<1>1. cloud' = jobs \/ cloud' = [jobs EXCEPT !.current = decision]
  BY DEF Request
<1> QED BY <1>1, BegunFits

(* No jobs. *)
LEMMA NoJobsFit ==
  ASSUME NEW id
  PROVE  NoJobs \in JobsIn(id)
<1>1. <<>> \in Seq(DecisionsIn(id))
  OBVIOUS
<1> QED BY <1>1 DEF NoJobs, JobsIn

(* The panel. *)

(* A decision that is under review on the panel is the one of the pause. *)
LEMMA PausedOn ==
  ASSUME NEW s, SessionFits(s), NEW decision \in DecisionsIn(s.id), IsPausedOn(s, decision)
  PROVE  s.coaching = decision /\ s.coaching # NoDecision
<1>1. s.coaching # NoDecision /\ s.coaching.hand = decision.hand /\ s.coaching.revision = decision.revision
  BY DEF IsPausedOn
<1>2. s.coaching \in DecisionsIn(s.id)
  BY <1>1 DEF SessionFits, RecordsFit
<1> QED BY <1>1, <1>2 DEF DecisionsIn

(* A review is a review. *)
LEMMA NotNever ==
  ASSUME NEW id \in Nat, NEW review \in ReviewsIn(id)
  PROVE  review # Never
<1>1. review \in [of : [session : Nat, hand : Nat, revision : Nat], basis : {"local", "cloud", "solver"}]
  BY DEF ReviewsIn, DecisionsIn
<1> QED BY <1>1, DeskAssumption

(* An answer of the coach. *)
LEMMA AcceptCloudFits ==
  ASSUME ReviewInv, NEW decision \in DecisionsIn(session.id), AcceptCloud(decision)
  PROVE  SessionFits(session') /\ session'.id = session.id /\ PanelFits(ui', session')
<1> DEFINE review == [of |-> decision, basis |-> "cloud"]
<1>1. SessionFits(session) /\ PanelFits(ui, session)
  BY DEF ReviewInv
<1>2. review \in ReviewsIn(session.id) /\ review.of = decision /\ review.basis = "cloud"
  BY DEF ReviewsIn
<1>3. session' = RecordReview(session, review)
  BY DEF AcceptCloud
<1>4. ui' = IF ~IsPausedOn(session, decision) THEN ui
            ELSE [ui EXCEPT !.baseline = review, !.byCloud = TRUE,
                            !.feedback = IF ui.bySolver THEN @ ELSE review]
  BY DEF AcceptCloud
<1> HIDE DEF review
<1>5. SessionFits(session') /\ session'.id = session.id /\ session'.coaching = session.coaching
  BY <1>1, <1>2, <1>3, ReviewFits
<1>6. CASE ~IsPausedOn(session, decision)
  BY <1>1, <1>4, <1>5, <1>6 DEF PanelFits
<1>7. CASE IsPausedOn(session, decision)
  <2>1. session.coaching = decision /\ session.coaching # NoDecision
    BY <1>1, <1>7, PausedOn
  <2>2. ShownTruly(ui, decision, session.id) /\ IsPanel(ui)
    BY <1>1, <2>1 DEF PanelFits
  <2> DEFINE feedback == IF ui.bySolver THEN ui.feedback ELSE review
  <2>3. ui' = [ui EXCEPT !.baseline = review, !.byCloud = TRUE, !.feedback = feedback]
    BY <1>4, <1>7
  <2>4. /\ feedback \in ReviewsIn(session.id) /\ feedback.of = decision
        /\ ui.bySolver <=> feedback.basis = "solver"
    BY <1>2, <2>2 DEF ShownTruly
  <2> HIDE DEF feedback
  <2>5. ui'.feedback = feedback /\ ui'.baseline = review /\ ui'.bySolver = ui.bySolver /\ ui'.byCloud /\ IsPanel(ui')
    BY <2>2, <2>3 DEF IsPanel
  <2>6. ShownTruly(ui', decision, session.id)
    BY <1>2, <2>4, <2>5 DEF ShownTruly
  <2> QED BY <1>5, <2>1, <2>5, <2>6 DEF PanelFits
<1> QED BY <1>5, <1>6, <1>7

(* An answer of the solver. *)
LEMMA AcceptSolverFits ==
  ASSUME ReviewInv, NEW decision \in DecisionsIn(session.id), AcceptSolver(decision)
  PROVE  SessionFits(session') /\ session'.id = session.id /\ PanelFits(ui', session')
<1> DEFINE review == [of |-> decision, basis |-> "solver"]
<1>1. SessionFits(session) /\ PanelFits(ui, session)
  BY DEF ReviewInv
<1>2. review \in ReviewsIn(session.id) /\ review.of = decision /\ review.basis = "solver"
  BY DEF ReviewsIn
<1>3. \/ session' = session /\ ui' = ui
      \/ /\ session' = RecordReview(session, review)
         /\ ui' = IF ~IsPausedOn(session, decision) THEN ui
                  ELSE [ui EXCEPT !.bySolver = TRUE, !.feedback = review]
  BY DEF AcceptSolver
<1> HIDE DEF review
<1>4. CASE session' = session /\ ui' = ui
  BY <1>1, <1>4
<1>5. CASE /\ session' = RecordReview(session, review)
           /\ ui' = IF ~IsPausedOn(session, decision) THEN ui
                    ELSE [ui EXCEPT !.bySolver = TRUE, !.feedback = review]
  <2>1. SessionFits(session') /\ session'.id = session.id /\ session'.coaching = session.coaching
    BY <1>1, <1>2, <1>5, ReviewFits
  <2>2. CASE ~IsPausedOn(session, decision)
    BY <1>1, <1>5, <2>1, <2>2 DEF PanelFits
  <2>3. CASE IsPausedOn(session, decision)
    <3>1. session.coaching = decision /\ session.coaching # NoDecision
      BY <1>1, <2>3, PausedOn
    <3>2. ShownTruly(ui, decision, session.id) /\ IsPanel(ui)
      BY <1>1, <3>1 DEF PanelFits
    <3>3. ui' = [ui EXCEPT !.bySolver = TRUE, !.feedback = review]
      BY <1>5, <2>3
    <3>4. ui'.feedback = review /\ ui'.baseline = ui.baseline /\ ui'.bySolver /\ ui'.byCloud = ui.byCloud /\ IsPanel(ui')
      BY <3>2, <3>3 DEF IsPanel
    <3>5. ShownTruly(ui', decision, session.id)
      BY <1>2, <3>2, <3>4 DEF ShownTruly
    <3> QED BY <2>1, <3>1, <3>4, <3>5 DEF PanelFits
  <2> QED BY <2>1, <2>2, <2>3
<1> QED BY <1>3, <1>4, <1>5

(* An empty panel. *)
LEMMA BlankFits ==
  ASSUME NEW s, s.coaching = NoDecision
  PROVE  PanelFits(Blank, s)
BY DEF PanelFits, Blank, IsPanel

-----------------------------------------------------------------------------
(* The desk keeps ReviewInv. *)

(* Before anything has happened nothing is shown. *)
LEMMA ReviewStart ==
  ASSUME DeskInit PROVE ReviewInv
<1>1. session = NewSession(1) /\ cloud = NoJobs /\ solvers = NoJobs /\ ui = Blank
  BY DEF DeskInit
<1>2. SessionFits(session) /\ session.coaching = NoDecision
  BY <1>1, NewSessionFits, 1 \in Nat
<1>3. JobsFit(session, cloud, solvers)
  BY <1>1, NoJobsFit DEF JobsFit
<1>4. PanelFits(ui, session)
  BY <1>1, <1>2, BlankFits
<1> QED BY <1>2, <1>3, <1>4 DEF ReviewInv

(* An answer, or an error, is taken from a job of the coach. *)
LEMMA PollCloudReviews ==
  ASSUME ReviewInv, PollCloud PROVE ReviewInv'
<1>1. SessionFits(session) /\ cloud \in JobsIn(session.id) /\ solvers \in JobsIn(session.id) /\ PanelFits(ui, session)
  BY DEF ReviewInv, JobsFit
<1>2. solvers' = solvers
  BY DEF PollCloud
<1>3. ASSUME NEW decision \in DecisionsIn(session.id), AcceptCloud(decision) \/ Failed
      PROVE  SessionFits(session') /\ session'.id = session.id /\ PanelFits(ui', session')
  <2>1. CASE AcceptCloud(decision)
    BY <2>1, AcceptCloudFits
  <2>2. CASE Failed
    BY <1>1, <2>2 DEF Failed
  <2> QED BY <1>3, <2>1, <2>2
<1>4. CASE /\ cloud.current # Never
           /\ cloud' = [cloud EXCEPT !.current = Never]
           /\ AcceptCloud(cloud.current) \/ Failed
  <2>1. cloud.current \in DecisionsIn(session.id)
    BY <1>1, <1>4 DEF JobsIn
  <2>2. cloud' \in JobsIn(session.id)
    BY <1>1, <1>4, IdleFits
  <2>3. SessionFits(session') /\ session'.id = session.id /\ PanelFits(ui', session')
    BY <1>3, <1>4, <2>1
  <2> QED BY <1>1, <1>2, <2>2, <2>3 DEF ReviewInv, JobsFit
<1>5. ASSUME NEW i \in DOMAIN cloud.retired,
             cloud' = [cloud EXCEPT !.retired = RemoveAt(@, i)],
             AcceptCloud(cloud.retired[i]) \/ Failed
      PROVE  ReviewInv'
  <2>1. cloud.retired[i] \in DecisionsIn(session.id) /\ cloud' \in JobsIn(session.id)
    BY <1>1, <1>5, TakenFits
  <2>2. SessionFits(session') /\ session'.id = session.id /\ PanelFits(ui', session')
    BY <1>3, <1>5, <2>1
  <2> QED BY <1>1, <1>2, <2>1, <2>2 DEF ReviewInv, JobsFit
<1> QED BY <1>4, <1>5 DEF PollCloud

(* An answer, or an error, is taken from a job of the solver. *)
LEMMA PollSolverReviews ==
  ASSUME ReviewInv, PollSolver PROVE ReviewInv'
<1>1. SessionFits(session) /\ cloud \in JobsIn(session.id) /\ solvers \in JobsIn(session.id) /\ PanelFits(ui, session)
  BY DEF ReviewInv, JobsFit
<1>2. cloud' = cloud
  BY DEF PollSolver
<1>3. ASSUME NEW decision \in DecisionsIn(session.id), AcceptSolver(decision) \/ Failed
      PROVE  SessionFits(session') /\ session'.id = session.id /\ PanelFits(ui', session')
  <2>1. CASE AcceptSolver(decision)
    BY <2>1, AcceptSolverFits
  <2>2. CASE Failed
    BY <1>1, <2>2 DEF Failed
  <2> QED BY <1>3, <2>1, <2>2
<1>4. CASE /\ solvers.current # Never
           /\ solvers' = [solvers EXCEPT !.current = Never]
           /\ AcceptSolver(solvers.current) \/ Failed
  <2>1. solvers.current \in DecisionsIn(session.id)
    BY <1>1, <1>4 DEF JobsIn
  <2>2. solvers' \in JobsIn(session.id)
    BY <1>1, <1>4, IdleFits
  <2>3. SessionFits(session') /\ session'.id = session.id /\ PanelFits(ui', session')
    BY <1>3, <1>4, <2>1
  <2> QED BY <1>1, <1>2, <2>2, <2>3 DEF ReviewInv, JobsFit
<1>5. ASSUME NEW i \in DOMAIN solvers.retired,
             solvers' = [solvers EXCEPT !.retired = RemoveAt(@, i)],
             AcceptSolver(solvers.retired[i]) \/ Failed
      PROVE  ReviewInv'
  <2>1. solvers.retired[i] \in DecisionsIn(session.id) /\ solvers' \in JobsIn(session.id)
    BY <1>1, <1>5, TakenFits
  <2>2. SessionFits(session') /\ session'.id = session.id /\ PanelFits(ui', session')
    BY <1>3, <1>5, <2>1
  <2> QED BY <1>1, <1>2, <2>1, <2>2 DEF ReviewInv, JobsFit
<1> QED BY <1>4, <1>5 DEF PollSolver

(* The bot acts while nothing is under review. *)
LEMMA IterateReviews ==
  ASSUME ReviewInv, Iterate PROVE ReviewInv'
<1>1. SessionFits(session) /\ JobsFit(session, cloud, solvers) /\ PanelFits(ui, session)
  BY DEF ReviewInv
<1>2. cloud' = cloud /\ solvers' = solvers /\ ui' = ui
  BY DEF Iterate
<1>3. SessionFits(session') /\ session'.id = session.id /\ session'.coaching = session.coaching
  <2>1. CASE session' = session
    BY <1>1, <2>1
  <2>2. ASSUME NEW outcome \in Outcomes(session), session' = StepBot(session, outcome)
        PROVE  SessionFits(session') /\ session'.id = session.id /\ session'.coaching = session.coaching
    BY <1>1, <2>2, StepFits
  <2> QED BY <2>1, <2>2 DEF Iterate
<1> QED BY <1>1, <1>2, <1>3 DEF ReviewInv, JobsFit, PanelFits

(* The learner acts, and the advice on the panel is about that. *)
LEMMA ActReviews ==
  ASSUME ReviewInv, Act PROVE ReviewInv'
<1>1. SessionFits(session) /\ cloud \in JobsIn(session.id) /\ solvers \in JobsIn(session.id) /\ PanelFits(ui, session)
  BY DEF ReviewInv, JobsFit
<1>2. CanSubmit(session)
  BY DEF Act
<1> DEFINE decision == DecisionOf(session)
           local == LocalFeedback(decision)
<1>3. PICK outcome \in Outcomes(session) :
        LET paused == Submit(session, outcome) IN
        /\ session' = IF settings.pace = "Play" THEN ContinueHand(paused) ELSE paused
        /\ ui' = IF settings.pace = "Play" THEN Blank
                 ELSE [ui EXCEPT !.feedback = LocalFeedback(paused.coaching),
                                 !.baseline = LocalFeedback(paused.coaching), !.bySolver = FALSE]
        /\ solvers' = BeginSolver(paused.coaching, settings, Retire(solvers))
        /\ \/ cloud' = Retire(cloud)
           \/ Request(paused.coaching, settings, Retire(cloud))
  BY DEF Act
<1> DEFINE paused == Submit(session, outcome)
<1>4. SessionFits(paused) /\ paused.id = session.id /\ paused.coaching = decision
  BY <1>1, SubmitFits
<1>5. decision \in DecisionsIn(session.id) /\ decision # NoDecision
  BY <1>1, DecisionFits
<1>6. local \in ReviewsIn(session.id) /\ local.of = decision /\ local.basis = "local"
  BY <1>5, LocalFits
<1>7. /\ session' = IF settings.pace = "Play" THEN ContinueHand(paused) ELSE paused
      /\ ui' = IF settings.pace = "Play" THEN Blank
               ELSE [ui EXCEPT !.feedback = local, !.baseline = local, !.bySolver = FALSE]
      /\ solvers' = BeginSolver(decision, settings, Retire(solvers))
      /\ cloud' = Retire(cloud) \/ Request(decision, settings, Retire(cloud))
  BY <1>3, <1>4
<1> HIDE DEF paused, local, decision
<1>8. cloud' \in JobsIn(session.id) /\ solvers' \in JobsIn(session.id)
  <2>1. Retire(cloud) \in JobsIn(session.id) /\ Retire(solvers) \in JobsIn(session.id)
    BY <1>1, RetireFits
  <2>2. solvers' \in JobsIn(session.id)
    BY <1>5, <1>7, <2>1, BeginSolverFits
  <2>3. CASE cloud' = Retire(cloud)
    BY <2>1, <2>2, <2>3
  <2>4. CASE Request(decision, settings, Retire(cloud))
    BY <1>5, <2>1, <2>2, <2>4, RequestFits
  <2> QED BY <1>7, <2>3, <2>4
<1>9. CASE settings.pace = "Play"
  <2>1. session' = ContinueHand(paused) /\ ui' = Blank
    BY <1>7, <1>9
  <2>2. SessionFits(session') /\ session'.id = session.id /\ session'.coaching = NoDecision
    BY <1>4, <2>1, ContinueFits
  <2> QED BY <1>8, <2>1, <2>2, BlankFits DEF ReviewInv, JobsFit
<1>10. CASE settings.pace # "Play"
  <2>1. session' = paused /\ ui' = [ui EXCEPT !.feedback = local, !.baseline = local, !.bySolver = FALSE]
    BY <1>7, <1>10
  <2>2. IsPanel(ui) /\ ~ui.byCloud
    BY <1>1, <1>2 DEF PanelFits, CanSubmit
  <2>3. ui'.feedback = local /\ ui'.baseline = local /\ ~ui'.bySolver /\ ~ui'.byCloud /\ IsPanel(ui')
    BY <2>1, <2>2 DEF IsPanel
  <2>4. ShownTruly(ui', decision, session.id)
    BY <1>6, <2>3 DEF ShownTruly
  <2>5. PanelFits(ui', session')
    BY <1>4, <1>5, <2>1, <2>3, <2>4 DEF PanelFits
  <2> QED BY <1>4, <1>8, <2>1, <2>5 DEF ReviewInv, JobsFit
<1> QED BY <1>9, <1>10

(* The pause ends and the panel is emptied. *)
LEMMA ResumeReviews ==
  ASSUME ReviewInv, Resume PROVE ReviewInv'
<1>1. SessionFits(session) /\ cloud \in JobsIn(session.id) /\ solvers \in JobsIn(session.id)
  BY DEF ReviewInv, JobsFit
<1>2. session' = ContinueHand(session) /\ ui' = Blank /\ cloud' = Retire(cloud) /\ solvers' = Retire(solvers)
  BY DEF Resume
<1>3. SessionFits(session') /\ session'.id = session.id /\ session'.coaching = NoDecision
  BY <1>1, <1>2, ContinueFits
<1>4. cloud' \in JobsIn(session'.id) /\ solvers' \in JobsIn(session'.id)
  BY <1>1, <1>2, <1>3, RetireFits
<1> QED BY <1>2, <1>3, <1>4, BlankFits DEF ReviewInv, JobsFit

(* Advice is asked for again, about the decision of the pause. *)
LEMMA AskAgainReviews ==
  ASSUME ReviewInv, AskAgain PROVE ReviewInv'
<1>1. SessionFits(session) /\ cloud \in JobsIn(session.id) /\ solvers \in JobsIn(session.id) /\ PanelFits(ui, session)
  BY DEF ReviewInv, JobsFit
<1>2. session.coaching # NoDecision /\ Request(session.coaching, settings, cloud)
      /\ session' = session /\ ui' = ui /\ solvers' = solvers
  BY DEF AskAgain
<1>3. session.coaching \in DecisionsIn(session.id)
  BY <1>1, <1>2 DEF SessionFits, RecordsFit
<1>4. cloud' \in JobsIn(session.id)
  BY <1>1, <1>2, <1>3, RequestFits
<1> QED BY <1>1, <1>2, <1>4 DEF ReviewInv, JobsFit

(* Between hands nothing is under review. *)
LEMMA BetweenReviews ==
  ASSUME ReviewInv, BetweenHands PROVE ReviewInv'
<1>1. SessionFits(session) /\ JobsFit(session, cloud, solvers) /\ PanelFits(ui, session)
  BY DEF ReviewInv
<1>2. cloud' = cloud /\ solvers' = solvers /\ ui' = ui
  BY DEF BetweenHands
<1>3. SessionFits(session') /\ session'.id = session.id /\ session'.coaching = session.coaching
  <2>1. CASE session' = NextHand(session, settings.seats)
    BY <1>1, <2>1, NextHandFits
  <2>2. CASE session' = TopUp(session)
    BY <1>1, <2>2, TopUpPaid DEF Paid
  <2>3. ASSUME NEW chips \in Withdrawals, session' = Withdraw(session, chips)
        PROVE  SessionFits(session') /\ session'.id = session.id /\ session'.coaching = session.coaching
    <3>1. chips \in Nat
      BY DeskAssumption
    <3> QED BY <1>1, <2>3, <3>1, WithdrawPaid DEF Paid
  <2> QED BY <2>1, <2>2, <2>3 DEF BetweenHands
<1> QED BY <1>1, <1>2, <1>3 DEF ReviewInv, JobsFit, PanelFits

(* The session and the jobs that saved settings leave: none of another session,
   and none of a solver that is off. *)
FreshSession(reset) == IF reset THEN NewSession(session.id + 1) ELSE session
SameCloud(draft) == settings.coaching = draft.coaching /\ settings.model = draft.model
KeptCloud(draft, reset) == IF SameCloud(draft) /\ ~reset THEN cloud ELSE NoJobs
KeptSolvers(draft, reset) == IF draft.solver /\ ~reset THEN solvers ELSE NoJobs
BegunSolvers(draft, reset) ==
  IF FreshSession(reset).coaching # NoDecision /\ draft.solver /\ ~settings.solver
  THEN BeginSolver(FreshSession(reset).coaching, draft, KeptSolvers(draft, reset))
  ELSE KeptSolvers(draft, reset)
ShownAfter(draft, reset) ==
  [ui EXCEPT !.byCloud = @ /\ SameCloud(draft) /\ ~reset,
             !.baseline = IF SameCloud(draft) /\ ~reset THEN @ ELSE Never,
             !.bySolver = @ /\ draft.solver /\ ~reset]
PanelAfter(draft, reset) ==
  LET shown == ShownAfter(draft, reset)
      baseline == IF shown.baseline = Never THEN LocalFeedback(FreshSession(reset).coaching)
                  ELSE shown.baseline
  IN  IF FreshSession(reset).coaching # NoDecision
      THEN [shown EXCEPT !.baseline = baseline, !.feedback = IF shown.bySolver THEN @ ELSE baseline]
      ELSE shown

(* What saved settings do, in these terms. *)
LEMMA ApplyIs ==
  ASSUME NEW draft, NEW reset \in BOOLEAN, ApplySettings(draft, reset)
  PROVE  LET fresh == FreshSession(reset)
             playOn == fresh.coaching # NoDecision /\ draft.pace = "Play" IN
         /\ settings' = draft
         /\ session' = IF playOn THEN ContinueHand(fresh) ELSE fresh
         /\ cloud' = IF playOn THEN Retire(KeptCloud(draft, reset)) ELSE KeptCloud(draft, reset)
         /\ solvers' = IF playOn THEN Retire(BegunSolvers(draft, reset)) ELSE BegunSolvers(draft, reset)
         /\ ui' = IF playOn THEN Blank ELSE PanelAfter(draft, reset)
BY DEF ApplySettings, FreshSession, SameCloud, KeptCloud, KeptSolvers, BegunSolvers, ShownAfter, PanelAfter

(* The session. *)
LEMMA FreshFits ==
  ASSUME ReviewInv, NEW reset \in BOOLEAN
  PROVE  LET fresh == FreshSession(reset) IN
         /\ SessionFits(fresh)
         /\ reset => fresh.coaching = NoDecision
         /\ ~reset => fresh = session
<1>1. SessionFits(session) /\ session.id + 1 \in Nat
  BY DEF ReviewInv, SessionFits, NumbersFit
<1>2. CASE reset
  BY <1>1, <1>2, NewSessionFits DEF FreshSession
<1>3. CASE ~reset
  BY <1>1, <1>3 DEF FreshSession
<1> QED BY <1>2, <1>3

(* The jobs are those of the session. *)
LEMMA KeptFits ==
  ASSUME ReviewInv, NEW reset \in BOOLEAN, NEW draft
  PROVE  LET fresh == FreshSession(reset) IN
         KeptCloud(draft, reset) \in JobsIn(fresh.id) /\ BegunSolvers(draft, reset) \in JobsIn(fresh.id)
<1> DEFINE fresh == FreshSession(reset)
<1>1. cloud \in JobsIn(session.id) /\ solvers \in JobsIn(session.id) /\ NoJobs \in JobsIn(fresh.id)
  BY NoJobsFit DEF ReviewInv, JobsFit
<1>2. SessionFits(fresh) /\ (~reset => fresh = session)
  BY FreshFits
<1> HIDE DEF fresh
<1>3. KeptCloud(draft, reset) \in JobsIn(fresh.id) /\ KeptSolvers(draft, reset) \in JobsIn(fresh.id)
  BY <1>1, <1>2 DEF KeptCloud, KeptSolvers
<1>4. CASE fresh.coaching = NoDecision
  BY <1>3, <1>4 DEF BegunSolvers, fresh
<1>5. CASE fresh.coaching # NoDecision
  <2>1. fresh.coaching \in DecisionsIn(fresh.id)
    BY <1>2, <1>5 DEF SessionFits, RecordsFit
  <2>2. BeginSolver(fresh.coaching, draft, KeptSolvers(draft, reset)) \in JobsIn(fresh.id)
    BY <1>3, <2>1, BeginSolverFits
  <2> QED BY <1>3, <2>2 DEF BegunSolvers, fresh
<1> QED BY <1>3, <1>4, <1>5 DEF fresh

(* The panel falls back to what still holds under the new settings. *)
LEMMA PanelAfterFits ==
  ASSUME ReviewInv, NEW reset \in BOOLEAN, NEW draft
  PROVE  PanelFits(PanelAfter(draft, reset), FreshSession(reset))
<1> DEFINE fresh == FreshSession(reset)
           shown == ShownAfter(draft, reset)
           same == SameCloud(draft) /\ ~reset
           u == PanelAfter(draft, reset)
<1>1. SessionFits(session) /\ PanelFits(ui, session) /\ IsPanel(ui)
  BY DEF ReviewInv, PanelFits
<1>2. /\ SessionFits(fresh)
      /\ reset => fresh.coaching = NoDecision
      /\ ~reset => fresh = session
  BY FreshFits
<1>3. /\ IsPanel(shown) /\ shown.feedback = ui.feedback
      /\ shown.byCloud <=> ui.byCloud /\ same
      /\ shown.baseline = IF same THEN ui.baseline ELSE Never
      /\ shown.bySolver <=> ui.bySolver /\ draft.solver /\ ~reset
  <2> DEFINE byCloud == ui.byCloud /\ same
             base == IF same THEN ui.baseline ELSE Never
             bySolver == ui.bySolver /\ draft.solver /\ ~reset
  <2>1. shown = [ui EXCEPT !.byCloud = byCloud, !.baseline = base, !.bySolver = bySolver]
    BY DEF ShownAfter
  <2>2. byCloud \in BOOLEAN /\ bySolver \in BOOLEAN
    OBVIOUS
  <2> HIDE DEF shown, byCloud, base, bySolver
  <2>3. /\ IsPanel(shown) /\ shown.feedback = ui.feedback /\ shown.byCloud = byCloud
        /\ shown.baseline = base /\ shown.bySolver = bySolver
    BY <1>1, <2>1, <2>2 DEF IsPanel
  <2> QED BY <2>3 DEF byCloud, base, bySolver
<1> HIDE DEF shown
<1>4. CASE fresh.coaching = NoDecision
  <2>1. u = shown
    BY <1>4 DEF PanelAfter, shown
  <2>2. ~shown.byCloud
    BY <1>1, <1>2, <1>3, <1>4 DEF PanelFits
  <2> HIDE DEF u, fresh
  <2>3. PanelFits(u, fresh)
    BY <1>3, <1>4, <2>1, <2>2 DEF PanelFits
  <2> QED BY <2>3 DEF u, fresh
<1>5. CASE fresh.coaching # NoDecision
  <2> DEFINE decision == session.coaching
             local == LocalFeedback(decision)
             baseline == IF shown.baseline = Never THEN local ELSE shown.baseline
             feedback == IF shown.bySolver THEN shown.feedback ELSE baseline
  <2>1. ~reset /\ fresh = session /\ decision # NoDecision
    BY <1>2, <1>5
  <2>2. ShownTruly(ui, decision, session.id) /\ decision \in DecisionsIn(session.id) /\ session.id \in Nat
    BY <1>1, <2>1 DEF PanelFits, SessionFits, RecordsFit, NumbersFit
  <2>3. local \in ReviewsIn(session.id) /\ local.of = decision /\ local.basis = "local"
    BY <2>2, LocalFits
  <2>4. ui.baseline # Never
    BY <2>2, NotNever DEF ShownTruly
  <2>5. u = [shown EXCEPT !.baseline = baseline, !.feedback = feedback]
    BY <1>5, <2>1 DEF PanelAfter, shown
  <2> HIDE DEF local, decision, u, fresh
  <2>6. /\ baseline \in ReviewsIn(session.id) /\ baseline.of = decision /\ baseline.basis # "solver"
        /\ shown.byCloud <=> baseline.basis = "cloud"
    <3>1. CASE same
      <4>1. baseline = ui.baseline /\ (shown.byCloud <=> ui.byCloud)
        BY <1>3, <2>4, <3>1
      <4> QED BY <2>2, <4>1 DEF ShownTruly
    <3>2. CASE ~same
      <4>1. baseline = local /\ ~shown.byCloud
        BY <1>3, <3>2
      <4> QED BY <2>3, <4>1
    <3> QED BY <3>1, <3>2
  <2> HIDE DEF baseline
  <2>7. /\ feedback \in ReviewsIn(session.id) /\ feedback.of = decision
        /\ shown.bySolver <=> feedback.basis = "solver"
    <3>1. CASE shown.bySolver
      <4>1. feedback = ui.feedback /\ ui.bySolver
        BY <1>3, <3>1
      <4> QED BY <2>2, <3>1, <4>1 DEF ShownTruly
    <3>2. CASE ~shown.bySolver
      BY <2>6, <3>2
    <3> QED BY <3>1, <3>2
  <2> HIDE DEF feedback
  <2>8. /\ u.feedback = feedback /\ u.baseline = baseline /\ u.bySolver = shown.bySolver
        /\ u.byCloud = shown.byCloud /\ IsPanel(u)
    BY <1>3, <2>5 DEF IsPanel
  <2>9. ShownTruly(u, decision, session.id)
    BY <2>6, <2>7, <2>8 DEF ShownTruly
  <2>10. PanelFits(u, fresh)
    BY <2>1, <2>8, <2>9 DEF PanelFits, decision
  <2> QED BY <2>10 DEF u, fresh
<1> QED BY <1>4, <1>5

(* Settings are saved. *)
LEMMA SaveReviews ==
  ASSUME ReviewInv, SaveSettings PROVE ReviewInv'
<1>1. CASE UNCHANGED <<session, settings, ui, cloud, solvers, screen, books>>
  BY <1>1 DEF ReviewInv
<1>2. ASSUME NEW draft \in Drafts, NEW reset \in BOOLEAN, ApplySettings(draft, reset)
      PROVE  ReviewInv'
  <2> DEFINE fresh == FreshSession(reset)
             playOn == fresh.coaching # NoDecision /\ draft.pace = "Play"
             kept == KeptCloud(draft, reset)
             begun == BegunSolvers(draft, reset)
             panel == PanelAfter(draft, reset)
  <2>1. /\ session' = IF playOn THEN ContinueHand(fresh) ELSE fresh
        /\ cloud' = IF playOn THEN Retire(kept) ELSE kept
        /\ solvers' = IF playOn THEN Retire(begun) ELSE begun
        /\ ui' = IF playOn THEN Blank ELSE panel
    BY <1>2, ApplyIs
  <2>2. SessionFits(fresh)
    BY FreshFits
  <2>3. kept \in JobsIn(fresh.id) /\ begun \in JobsIn(fresh.id)
    BY KeptFits
  <2>4. PanelFits(panel, fresh)
    BY PanelAfterFits
  <2> HIDE DEF fresh, kept, begun, panel, playOn
  <2>5. CASE playOn
    <3>1. session' = ContinueHand(fresh) /\ cloud' = Retire(kept) /\ solvers' = Retire(begun) /\ ui' = Blank
      BY <2>1, <2>5
    <3>2. SessionFits(session') /\ session'.id = fresh.id /\ session'.coaching = NoDecision
      BY <2>2, <3>1, ContinueFits
    <3>3. cloud' \in JobsIn(session'.id) /\ solvers' \in JobsIn(session'.id)
      BY <2>3, <3>1, <3>2, RetireFits
    <3> QED BY <3>1, <3>2, <3>3, BlankFits DEF ReviewInv, JobsFit
  <2>6. CASE ~playOn
    <3>1. session' = fresh /\ cloud' = kept /\ solvers' = begun /\ ui' = panel
      BY <2>1, <2>6
    <3> QED BY <2>2, <2>3, <2>4, <3>1 DEF ReviewInv, JobsFit
  <2> QED BY <2>5, <2>6
<1>3. \/ UNCHANGED <<session, settings, ui, cloud, solvers, screen, books>>
      \/ \E draft \in Drafts : ApplySettings(draft, books.firstRun)
  BY DEF SaveSettings
<1>4. ASSUME NEW draft \in Drafts, ApplySettings(draft, books.firstRun)
      PROVE  ReviewInv'
  <2>1. ApplySettings(draft, books.firstRun) <=> ApplySettings(draft, books.firstRun = TRUE)
    BY DEF ApplySettings
  <2> QED BY <1>2, <1>4, <2>1
<1> QED BY <1>1, <1>3, <1>4

(* Screens and keys have nothing to do with it. *)
LEMMA ScreensReviews ==
  ASSUME ReviewInv, OpenSettings \/ LeaveSettings \/ ForgetKey \/ TestKey \/ UNCHANGED deskVars
  PROVE  ReviewInv'
<1>1. UNCHANGED <<session, ui, cloud, solvers>>
  BY DEF OpenSettings, LeaveSettings, ForgetKey, TestKey, deskVars
<1> QED BY <1>1 DEF ReviewInv

(* Every step keeps the invariant. *)
LEMMA ReviewStep ==
  ASSUME ReviewInv, [DeskNext]_deskVars PROVE ReviewInv'
<1>1. CASE PollCloud BY <1>1, PollCloudReviews
<1>2. CASE PollSolver BY <1>2, PollSolverReviews
<1>3. CASE Iterate BY <1>3, IterateReviews
<1>4. CASE Act BY <1>4, ActReviews
<1>5. CASE Resume BY <1>5, ResumeReviews
<1>6. CASE AskAgain BY <1>6, AskAgainReviews
<1>7. CASE BetweenHands BY <1>7, BetweenReviews
<1>8. CASE SaveSettings BY <1>8, SaveReviews
<1>9. CASE OpenSettings \/ LeaveSettings \/ ForgetKey \/ TestKey \/ UNCHANGED deskVars
  BY <1>9, ScreensReviews
<1> QED BY <1>1, <1>2, <1>3, <1>4, <1>5, <1>6, <1>7, <1>8, <1>9 DEF DeskNext

(* What the invariant says of records and panel. *)
LEMMA ReviewsFollow ==
  ASSUME ReviewInv PROVE ReviewsBelong
<1>1. SessionFits(session) /\ PanelFits(ui, session) /\ session.id \in Nat
  BY DEF ReviewInv, SessionFits, NumbersFit
<1>2. ASSUME NEW i \in DOMAIN RecordsOf(session)
      PROVE  RecordsOf(session)[i].feedback.of = RecordsOf(session)[i].decision
  <2>1. RecordsOf(session) \in Seq(FiledIn(session.id))
    BY <1>1, RecordsFiled
  <2>2. RecordsOf(session)[i] \in FiledIn(session.id)
    BY <2>1
  <2> QED BY <2>2 DEF FiledIn
<1>3. ASSUME session.coaching # NoDecision
      PROVE  /\ ui.feedback # Never /\ ui.feedback.of = session.coaching
             /\ ui.bySolver <=> ui.feedback.basis = "solver"
             /\ ui.byCloud <=> ui.baseline.basis = "cloud"
  <2>1. ShownTruly(ui, session.coaching, session.id)
    BY <1>1, <1>3 DEF PanelFits
  <2> QED BY <1>1, <2>1, NotNever DEF ShownTruly
<1> QED BY <1>2, <1>3 DEF ReviewsBelong

(* Every review is filed under, and shown for, the decision it is about, and the
   panel says truly where it comes from: in the trainer's main loop, whenever the
   answers of coach and solver come and whatever the settings become
   (src/trainer/tui.rs accept_provider_result, accept_solver_result). *)
THEOREM ReviewsKnowTheirDecision == DeskSpec => []ReviewsBelong
<1>1. DeskInit => ReviewInv
  BY ReviewStart
<1>2. ReviewInv /\ [DeskNext]_deskVars => ReviewInv'
  BY ReviewStep
<1>3. ReviewInv => ReviewsBelong
  BY ReviewsFollow
<1> QED BY <1>1, <1>2, <1>3, PTL DEF DeskSpec

(* Cash entries and their sum. *)

ChipsIn(s) == [i \in DOMAIN s.events |-> s.events[i].chips]
EntriesOf(s, chairs) == {i \in DOMAIN s.events : s.events[i].seat \in chairs}

(* The sum of the entries. *)
LEMMA CashIs ==
  ASSUME NEW s, NEW chairs
  PROVE  CashOf(s, chairs) = SumFunctionOnSet(ChipsIn(s), EntriesOf(s, chairs))
BY DEF CashOf, ChipsIn, EntriesOf

(* The entries can be summed. *)
LEMMA EntriesFit ==
  ASSUME NEW s, s.events \in Seq(CashEntries), NEW chairs
  PROVE  /\ IsFiniteSet(EntriesOf(s, chairs))
         /\ \A i \in EntriesOf(s, chairs) : ChipsIn(s)[i] \in Int
         /\ CashOf(s, chairs) \in Int
<1>1. EntriesOf(s, chairs) \subseteq 1 .. Len(s.events) /\ Len(s.events) \in Nat
  BY DEF EntriesOf
<1>2. IsFiniteSet(EntriesOf(s, chairs))
  <2>1. IsFiniteSet(1 .. Len(s.events))
    BY <1>1, FS_Interval, 1 \in Int
  <2> QED BY <1>1, <2>1, FS_Subset
<1>3. ASSUME NEW i \in EntriesOf(s, chairs) PROVE ChipsIn(s)[i] \in Int
  <2>1. s.events[i] \in CashEntries
    BY <1>1, s.events \in Seq(CashEntries)
  <2> QED BY <2>1 DEF ChipsIn, EntriesOf, CashEntries
<1>4. CashOf(s, chairs) \in Int
  BY <1>2, <1>3, CashIs, SumIsInt
<1> QED BY <1>2, <1>3, <1>4

(* The same entries have the same sum. *)
LEMMA CashSame ==
  ASSUME NEW s, NEW q, q.events = s.events, NEW chairs
  PROVE  CashOf(q, chairs) = CashOf(s, chairs)
BY DEF CashOf

(* No entries, no cash. *)
LEMMA CashNone ==
  ASSUME NEW s, s.events = <<>>, NEW chairs
  PROVE  CashOf(s, chairs) = 0
<1>1. EntriesOf(s, chairs) = {}
  BY DEF EntriesOf
<1> QED BY <1>1, CashIs, SumOfNone

(* An entry more adds its chips to the cash of its seat. *)
LEMMA CashMore ==
  ASSUME NEW s, s.events \in Seq(CashEntries), NEW entry \in CashEntries,
         NEW q, q.events = Append(s.events, entry), NEW chairs
  PROVE  CashOf(q, chairs) = CashOf(s, chairs) + (IF entry.seat \in chairs THEN entry.chips ELSE 0)
<1> DEFINE n == Len(s.events) + 1
           S == EntriesOf(s, chairs)
           T == EntriesOf(q, chairs)
<1>1. /\ n \in Nat /\ n \notin 1 .. Len(s.events) /\ q.events \in Seq(CashEntries)
      /\ DOMAIN s.events = 1 .. Len(s.events) /\ DOMAIN q.events = 1 .. n
      /\ q.events[n] = entry /\ \A i \in 1 .. Len(s.events) : q.events[i] = s.events[i] /\ i \in 1 .. n
      /\ \A i \in 1 .. n : i # n => i \in 1 .. Len(s.events)
  OBVIOUS
<1>2. n \in 1 .. n
  BY <1>1
<1> HIDE DEF n
<1>3. /\ S = {i \in 1 .. Len(s.events) : s.events[i].seat \in chairs}
      /\ T = {i \in 1 .. n : q.events[i].seat \in chairs}
  BY <1>1 DEF EntriesOf
<1>4. CashOf(s, chairs) \in Int /\ IsFiniteSet(S) /\ IsFiniteSet(T) /\ \A i \in T : ChipsIn(q)[i] \in Int
  BY <1>1, EntriesFit
<1>5. SumFunctionOnSet(ChipsIn(q), S) = CashOf(s, chairs)
  <2>1. \A i \in S : ChipsIn(q)[i] = ChipsIn(s)[i]
    BY <1>1, <1>3 DEF ChipsIn
  <2>2. SumFunctionOnSet(ChipsIn(q), S) = SumFunctionOnSet(ChipsIn(s), S)
    BY <1>4, <2>1, SumSame
  <2> QED BY <2>2, CashIs
<1>6. CASE entry.seat \in chairs
  <2>1. n \in T /\ T \ {n} = S
    BY <1>1, <1>2, <1>3, <1>6
  <2>2. ChipsIn(q)[n] = entry.chips
    BY <1>1, <1>2 DEF ChipsIn
  <2>3. SumFunctionOnSet(ChipsIn(q), T) = ChipsIn(q)[n] + SumFunctionOnSet(ChipsIn(q), T \ {n})
    BY <1>4, <2>1, SumWithout
  <2>4. CashOf(q, chairs) = entry.chips + CashOf(s, chairs)
    BY <1>5, <2>1, <2>2, <2>3, CashIs
  <2>5. entry.chips \in Int
    BY DEF CashEntries
  <2> QED BY <1>4, <1>6, <2>4, <2>5
<1>7. CASE entry.seat \notin chairs
  <2>1. T = S
    BY <1>1, <1>2, <1>3, <1>7
  <2> QED BY <1>4, <1>5, <1>7, <2>1, CashIs
<1> QED BY <1>6, <1>7

(* The account of a session. *)

(* The numbers the account is made of. *)
LEMMA MoneyTyped ==
  ASSUME NEW s, SessionFits(s)
  PROVE  /\ s.stack[Hero] \in Int /\ s.stack[Bot] \in Int /\ s.opening \in Int /\ s.profit \in Int
         /\ BuyIn \in Int /\ s.hand \in Nat /\ s.settled \in BOOLEAN /\ s.over \in BOOLEAN
         /\ s.events \in Seq(CashEntries) /\ \A chairs : CashOf(s, chairs) \in Int
         /\ s.ready \in Seq(HandsIn(s.id)) /\ Len(s.ready) \in Nat /\ DOMAIN s.ready = 1 .. Len(s.ready)
         /\ \A i \in DOMAIN s.ready : s.ready[i].hand \in Nat
<1>1. /\ s.stack[Hero] \in Int /\ s.stack[Bot] \in Int /\ s.opening \in Int /\ s.profit \in Int
      /\ s.hand \in Nat /\ s.settled \in BOOLEAN /\ s.over \in BOOLEAN
  BY DEF SessionFits, NumbersFit, Chairs, Hero, Bot
<1>2. s.events \in Seq(CashEntries) /\ s.ready \in Seq(HandsIn(s.id))
  BY DEF SessionFits, RecordsFit
<1>3. Len(s.ready) \in Nat /\ DOMAIN s.ready = 1 .. Len(s.ready)
  BY <1>2
<1>4. ASSUME NEW i \in DOMAIN s.ready PROVE s.ready[i].hand \in Nat
  <2>1. s.ready[i] \in HandsIn(s.id)
    BY <1>2, <1>3
  <2> QED BY <2>1 DEF HandsIn
<1> QED BY <1>1, <1>2, <1>3, <1>4, EntriesFit, SessionAssumption

(* A new session has its buy-ins. *)
LEMMA NewAccount ==
  ASSUME NEW id \in Nat
  PROVE  AccountFits(NewSession(id), 0)
<1> DEFINE s == NewSession(id)
           actor == FirstActor([c \in Chairs |-> BuyIn], Hero)
<1>1. /\ s.hand = 1 /\ s.stack = [c \in Chairs |-> BuyIn] /\ ~s.over /\ ~s.settled /\ s.ready = <<>> /\ s.events = <<>>
      /\ s.opening = BuyIn /\ s.profit = 0
  BY DEF NewSession
<1> HIDE DEF s
<1>2. s.stack[Hero] = BuyIn /\ s.stack[Bot] = BuyIn /\ BuyIn \in Nat
  BY <1>1, SessionAssumption DEF Chairs, Hero, Bot
<1>3. CashOf(s, {Hero}) = 0 /\ CashOf(s, Chairs) = 0
  BY <1>1, CashNone
<1>4. MoneyFits(s, 0)
  BY <1>1, <1>2, <1>3 DEF MoneyFits
<1>5. HandsFit(s)
  BY <1>1 DEF HandsFit
<1> QED BY <1>1, <1>4, <1>5 DEF AccountFits, OpenAccount, InTurn, Finished, s

(* What settling does to an open hand that is over. *)
LEMMA SettleIs ==
  ASSUME NEW s, SessionFits(s), Finished(s), ~s.settled
  PROVE  LET q == Settle(s) IN
         /\ q.hand = s.hand /\ q.stack = s.stack /\ q.over = s.over /\ q.toAct = s.toAct
         /\ q.events = s.events /\ q.settled
         /\ q.ready = Append(s.ready, [session |-> s.id, hand |-> s.hand, decisions |-> s.decisions])
         /\ q.profit = s.profit + s.stack[Hero] - s.opening
<1> DEFINE q == Settle(s)
           profit == s.profit + s.stack[Hero] - s.opening
           completed == s.completed + 1
           ready == Append(s.ready, [session |-> s.id, hand |-> s.hand, decisions |-> s.decisions])
<1>1. q = [s EXCEPT !.profit = profit, !.completed = completed, !.ready = ready,
                    !.decisions = <<>>, !.settled = TRUE]
  BY DEF Settle
<1> HIDE DEF q, profit, completed, ready
<1>2. /\ q.hand = s.hand /\ q.stack = s.stack /\ q.over = s.over /\ q.toAct = s.toAct
      /\ q.events = s.events /\ q.settled = TRUE /\ q.ready = ready /\ q.profit = profit
  BY <1>1 DEF SessionFits, IsSession
<1> QED BY <1>2 DEF q, profit, ready

(* Settling closes the account: what the learner won since the opening is profit. *)
LEMMA SettleAccount ==
  ASSUME NEW s, NEW unpaid \in Int, SessionFits(s), OpenAccount(s, unpaid)
  PROVE  AccountFits(Settle(s), unpaid)
<1>1. CASE ~(Finished(s) /\ ~s.settled)
  BY <1>1 DEF Settle, AccountFits
<1>2. CASE Finished(s) /\ ~s.settled
  <2> DEFINE q == Settle(s)
             hand == [session |-> s.id, hand |-> s.hand, decisions |-> s.decisions]
  <2>1. /\ q.hand = s.hand /\ q.stack = s.stack /\ q.over = s.over /\ q.toAct = s.toAct
        /\ q.events = s.events /\ q.settled /\ q.ready = Append(s.ready, hand)
        /\ q.profit = s.profit + s.stack[Hero] - s.opening
    BY <1>2, SettleIs
  <2>2. hand.hand = s.hand
    OBVIOUS
  <2> HIDE DEF q, hand
  <2>3. InTurn(q)
    BY <1>2, <2>1 DEF OpenAccount, InTurn, Finished
  <2>4. MoneyFits(q, unpaid)
    <3>1. CashOf(q, {Hero}) = CashOf(s, {Hero}) /\ CashOf(q, Chairs) = CashOf(s, Chairs)
      BY <2>1, CashSame
    <3>2. s.opening = BuyIn + s.profit + CashOf(s, {Hero})
          /\ s.stack[Hero] + s.stack[Bot] + unpaid = 2 * BuyIn + CashOf(s, Chairs)
      BY <1>2 DEF OpenAccount, MoneyFits
    <3>3. s.stack[Hero] = BuyIn + q.profit + CashOf(s, {Hero})
      <4> DEFINE cash == CashOf(s, {Hero})
      <4>1. cash \in Int
        BY MoneyTyped
      <4>2. s.opening = BuyIn + s.profit + cash
        BY <3>2
      <4> HIDE DEF cash
      <4>3. s.stack[Hero] = BuyIn + q.profit + cash
        <5>1. q.profit = s.profit + s.stack[Hero] - s.opening
          BY <2>1
        <5>2. s.stack[Hero] \in Int /\ s.opening \in Int /\ s.profit \in Int /\ BuyIn \in Int
          BY MoneyTyped
        <5> QED BY <4>1, <4>2, <5>1, <5>2
      <4> QED BY <4>3 DEF cash
    <3> QED BY <2>1, <3>1, <3>2, <3>3 DEF MoneyFits
  <2>5. HandsFit(q)
    <3> DEFINE n == Len(s.ready) + 1
    <3>1. /\ n \in Nat /\ DOMAIN q.ready = 1 .. n /\ q.ready[n] = hand
          /\ \A i \in 1 .. n : i # n => i \in DOMAIN s.ready /\ q.ready[i] = s.ready[i]
      BY <2>1, MoneyTyped
    <3>2. /\ \A i, j \in DOMAIN s.ready : s.ready[i].hand = s.ready[j].hand => i = j
          /\ \A i \in DOMAIN s.ready : s.ready[i].hand <= s.hand /\ s.ready[i].hand # s.hand
      BY <1>2 DEF OpenAccount, HandsFit
    <3> HIDE DEF n
    <3>3. \A i \in 1 .. n : q.ready[i].hand <= q.hand
      BY <2>1, <2>2, <3>1, <3>2, MoneyTyped
    <3>4. ASSUME NEW i \in 1 .. n, NEW j \in 1 .. n, q.ready[i].hand = q.ready[j].hand
          PROVE  i = j
      <4>1. CASE i = n \/ j = n
        BY <2>2, <3>1, <3>2, <3>4, <4>1
      <4>2. CASE i # n /\ j # n
        BY <3>1, <3>2, <3>4, <4>2
      <4> QED BY <4>1, <4>2
    <3> QED BY <2>1, <3>1, <3>3, <3>4 DEF HandsFit
  <2> QED BY <2>1, <2>3, <2>4, <2>5 DEF AccountFits, OpenAccount, q
<1> QED BY <1>1, <1>2

(* What leaves chips, hands and log alone leaves the account as it is. *)
LEMMA SameAccount ==
  ASSUME NEW s, NEW unpaid \in Int, NEW q, MoneyFits(s, unpaid), HandsFit(s),
         q.events = s.events, q.profit = s.profit, q.opening = s.opening, q.settled = s.settled,
         s.settled => q.stack[Hero] = s.stack[Hero],
         q.stack[Hero] + q.stack[Bot] = s.stack[Hero] + s.stack[Bot],
         q.hand = s.hand, DOMAIN q.ready = DOMAIN s.ready,
         \A i \in DOMAIN s.ready : q.ready[i].hand = s.ready[i].hand
  PROVE  MoneyFits(q, unpaid) /\ HandsFit(q)
<1>1. MoneyFits(q, unpaid)
  BY CashSame DEF MoneyFits
<1>2. HandsFit(q)
  BY DEF HandsFit
<1> QED BY <1>1, <1>2

(* An action of a hand that runs. *)
LEMMA ApplyAccount ==
  ASSUME NEW s, NEW unpaid \in Int, SessionFits(s), OpenAccount(s, unpaid), s.toAct # NoActor, NEW outcome \in Outcomes(s)
  PROVE  OpenAccount(Apply(s, outcome), unpaid) /\ ~s.settled
<1> DEFINE q == Apply(s, outcome)
<1>1. /\ q.hand = s.hand /\ q.ready = s.ready /\ q.events = s.events /\ q.opening = s.opening
      /\ q.profit = s.profit /\ q.settled = s.settled
      /\ q.over = outcome.over /\ q.toAct = outcome.toAct /\ q.stack = outcome.stack
  BY ApplyFits
<1>2. /\ outcome.stack[Hero] + outcome.stack[Bot] = s.stack[Hero] + s.stack[Bot]
      /\ outcome.over => outcome.toAct = NoActor
  BY OutcomeFits
<1>3. ~s.over /\ ~s.settled /\ MoneyFits(s, unpaid) /\ HandsFit(s)
  BY DEF OpenAccount, InTurn
<1> HIDE DEF q
<1>4. MoneyFits(q, unpaid) /\ HandsFit(q)
  BY <1>1, <1>2, <1>3, SameAccount
<1>5. InTurn(q)
  BY <1>1, <1>2, <1>3 DEF InTurn
<1> QED BY <1>3, <1>4, <1>5 DEF OpenAccount, q

(* The learner acts. *)
LEMMA SubmitAccount ==
  ASSUME NEW s, NEW unpaid \in Int, SessionFits(s), AccountFits(s, unpaid), CanSubmit(s), NEW outcome \in Outcomes(s)
  PROVE  AccountFits(Submit(s, outcome), unpaid)
<1> DEFINE q == Submit(s, outcome)
           a == Apply(s, outcome)
<1>1. s.toAct # NoActor /\ OpenAccount(s, unpaid)
  BY DEF CanSubmit, AccountFits, Hero, NoActor
<1>2. OpenAccount(a, unpaid)
  BY <1>1, ApplyAccount
<1>3. /\ q.hand = s.hand /\ q.ready = s.ready /\ q.events = s.events /\ q.opening = s.opening
      /\ q.profit = s.profit /\ q.settled = s.settled /\ q.coaching = DecisionOf(s)
      /\ q.over = outcome.over /\ q.toAct = outcome.toAct /\ q.stack = outcome.stack
  BY SubmitFits
<1>4. /\ a.hand = s.hand /\ a.ready = s.ready /\ a.events = s.events /\ a.opening = s.opening
      /\ a.profit = s.profit /\ a.settled = s.settled
      /\ a.over = outcome.over /\ a.toAct = outcome.toAct /\ a.stack = outcome.stack
  BY ApplyFits
<1>5. DecisionOf(s) # NoDecision
  BY DecisionFits
<1> HIDE DEF q, a
<1>6. /\ q.hand = a.hand /\ q.ready = a.ready /\ q.events = a.events /\ q.opening = a.opening
      /\ q.profit = a.profit /\ q.settled = a.settled
      /\ q.over = a.over /\ q.toAct = a.toAct /\ q.stack = a.stack
  BY <1>3, <1>4
<1>7. MoneyFits(q, unpaid) /\ HandsFit(q)
  BY <1>2, <1>6, SameAccount DEF OpenAccount
<1>8. InTurn(q)
  BY <1>2, <1>6 DEF OpenAccount, InTurn
<1>9. ~Finished(q)
  BY <1>3, <1>5 DEF Finished
<1> QED BY <1>7, <1>8, <1>9 DEF AccountFits, OpenAccount, q

(* The pause ends. *)
LEMMA ContinueAccount ==
  ASSUME NEW s, NEW unpaid \in Int, SessionFits(s), AccountFits(s, unpaid)
  PROVE  AccountFits(ContinueHand(s), unpaid)
<1> DEFINE q == [s EXCEPT !.coaching = NoDecision]
<1>1. /\ SessionFits(q) /\ q.hand = s.hand /\ q.ready = s.ready /\ q.events = s.events /\ q.opening = s.opening
      /\ q.profit = s.profit /\ q.settled = s.settled
      /\ q.over = s.over /\ q.toAct = s.toAct /\ q.stack = s.stack
  BY UnpausedFits
<1>2. ContinueHand(s) = Settle(q)
  BY DEF ContinueHand
<1> HIDE DEF q
<1>3. OpenAccount(s, unpaid)
  BY DEF AccountFits
<1>4. MoneyFits(q, unpaid) /\ HandsFit(q)
  BY <1>1, <1>3, SameAccount DEF OpenAccount
<1>5. InTurn(q)
  BY <1>1, <1>3 DEF OpenAccount, InTurn
<1>6. OpenAccount(q, unpaid)
  BY <1>4, <1>5 DEF OpenAccount
<1> QED BY <1>1, <1>2, <1>6, SettleAccount

(* The bot acts. *)
LEMMA StepAccount ==
  ASSUME NEW s, NEW unpaid \in Int, SessionFits(s), AccountFits(s, unpaid), CanStepBot(s), NEW outcome \in Outcomes(s)
  PROVE  AccountFits(StepBot(s, outcome), unpaid)
<1>1. s.toAct # NoActor /\ OpenAccount(s, unpaid)
  BY DEF CanStepBot, AccountFits, Bot, NoActor
<1>2. OpenAccount(Apply(s, outcome), unpaid) /\ SessionFits(Apply(s, outcome))
  BY <1>1, ApplyAccount, ApplyFits
<1> QED BY <1>2, SettleAccount DEF StepBot

(* A review arrives. *)
LEMMA ReviewAccount ==
  ASSUME NEW s, NEW unpaid \in Int, SessionFits(s), AccountFits(s, unpaid), NEW review \in ReviewsIn(s.id)
  PROVE  AccountFits(RecordReview(s, review), unpaid)
<1> DEFINE q == RecordReview(s, review)
<1>1. /\ q.hand = s.hand /\ q.coaching = s.coaching /\ q.events = s.events /\ q.opening = s.opening
      /\ q.profit = s.profit /\ q.settled = s.settled
      /\ q.over = s.over /\ q.toAct = s.toAct /\ q.stack = s.stack
      /\ DOMAIN q.ready = DOMAIN s.ready
      /\ \A i \in DOMAIN s.ready : q.ready[i].hand = s.ready[i].hand
  BY ReviewFits
<1> HIDE DEF q
<1>2. OpenAccount(s, unpaid) /\ (Finished(s) => s.settled)
  BY DEF AccountFits
<1>3. MoneyFits(q, unpaid) /\ HandsFit(q)
  BY <1>1, <1>2, SameAccount DEF OpenAccount
<1>4. InTurn(q) /\ (Finished(q) => q.settled)
  BY <1>1, <1>2 DEF OpenAccount, InTurn, Finished
<1> QED BY <1>3, <1>4 DEF AccountFits, OpenAccount, q

(* Chips that the learner adds or takes are in the log. *)
LEMMA PaidAccount ==
  ASSUME NEW s, NEW unpaid \in Int, SessionFits(s), AccountFits(s, unpaid), s.settled,
         NEW q, NEW chips \in Int, Paid(s, q, Hero, chips), StillOver(s, q)
  PROVE  AccountFits(q, unpaid)
<1>1. /\ q.hand = s.hand /\ q.coaching = s.coaching /\ q.ready = s.ready /\ q.profit = s.profit
      /\ q.stack[Hero] = s.stack[Hero] + chips /\ q.stack[Bot] = s.stack[Bot]
      /\ q.opening = s.opening /\ q.settled = s.settled /\ q.over = s.over /\ q.toAct = s.toAct
  BY DEF Paid, StillOver, Other, Hero, Bot
<1> DEFINE own == CashOf(s, {Hero})
           all == CashOf(s, Chairs)
<1>2. CashOf(q, {Hero}) = own + chips /\ CashOf(q, Chairs) = all + chips
  <2>1. CASE chips = 0 /\ q.events = s.events
    <3>1. CashOf(q, {Hero}) = own /\ CashOf(q, Chairs) = all
      BY <2>1, CashSame
    <3>2. own \in Int /\ all \in Int
      BY MoneyTyped
    <3> HIDE DEF own, all
    <3> QED BY <2>1, <3>1, <3>2
  <2>2. ASSUME NEW entry \in CashEntries, entry.seat = Hero, entry.chips = chips,
               q.events = Append(s.events, entry)
        PROVE  CashOf(q, {Hero}) = own + chips /\ CashOf(q, Chairs) = all + chips
    <3>1. Hero \in {Hero} /\ Hero \in Chairs /\ s.events \in Seq(CashEntries)
      BY MoneyTyped DEF Chairs
    <3> QED BY <2>2, <3>1, CashMore
  <2> QED BY <2>1, <2>2 DEF Paid
<1>3. own \in Int /\ all \in Int /\ s.stack[Hero] \in Int /\ s.stack[Bot] \in Int /\ s.profit \in Int /\ BuyIn \in Int
  BY MoneyTyped
<1>4. s.stack[Hero] = BuyIn + s.profit + own /\ s.stack[Hero] + s.stack[Bot] + unpaid = 2 * BuyIn + all
  BY DEF AccountFits, OpenAccount, MoneyFits
<1> HIDE DEF own, all
<1>5. q.stack[Hero] = BuyIn + q.profit + (own + chips) /\ q.stack[Hero] + q.stack[Bot] + unpaid = 2 * BuyIn + (all + chips)
  BY <1>1, <1>3, <1>4
<1>6. MoneyFits(q, unpaid)
  BY <1>1, <1>2, <1>5 DEF MoneyFits
<1>7. HandsFit(q)
  BY <1>1 DEF AccountFits, OpenAccount, HandsFit
<1>8. InTurn(q) /\ (Finished(q) => q.settled)
  BY <1>1 DEF AccountFits, OpenAccount, InTurn, Finished
<1> QED BY <1>6, <1>7, <1>8 DEF AccountFits, OpenAccount

(* A rebuy is refused only with the hand it was for. *)
LEMMA NothingRefused ==
  ASSUME NEW s, s.events \in Seq(CashEntries), NEW q,
         \/ q.events = s.events
         \/ q.hand # s.hand
         \/ \E entry \in CashEntries : entry.seat = Hero /\ q.events = Append(s.events, entry)
  PROVE  RefusedRebuy(s, q) = 0
<1>1. CASE q.events = s.events
  BY <1>1 DEF RefusedRebuy
<1>2. CASE q.hand # s.hand
  BY <1>2 DEF RefusedRebuy
<1>3. ASSUME NEW entry \in CashEntries, entry.seat = Hero, q.events = Append(s.events, entry)
      PROVE  RefusedRebuy(s, q) = 0
  <2>1. q.events[Len(q.events)] = entry
    BY <1>3
  <2> QED BY <1>3, <2>1 DEF RefusedRebuy, Hero, Bot
<1> QED BY <1>1, <1>2, <1>3

(* A rebuy is owed, or in front of the bot. *)
LEMMA RebuyMeets ==
  ASSUME NEW own \in Int, NEW other \in Int, NEW unpaid \in Int, NEW rebuy \in Int, NEW buy \in Int,
         NEW cash \in Int, own + other + unpaid = 2 * buy + cash
  PROVE  /\ own + other + (unpaid + rebuy) = 2 * buy + (cash + rebuy)
         /\ own + (other + rebuy) + unpaid = 2 * buy + (cash + rebuy)
OBVIOUS

(* The next hand: the opening stack is what the learner has, and a rebuy is in the
   log, brought to the table or not. *)
LEMMA NextAccount ==
  ASSUME NEW s, NEW unpaid \in Int, SessionFits(s), AccountFits(s, unpaid), Finished(s), NEW seats
  PROVE  LET q == NextHand(s, seats) IN
         /\ AccountFits(q, unpaid + RefusedRebuy(s, q)) /\ q.ready = s.ready
         /\ \/ q.events = s.events
            \/ \E entry \in CashEntries : q.events = Append(s.events, entry)
<1> DEFINE g == Logged(s)
           q == NextHand(s, seats)
           rebuy == IF s.stack[Bot] = 0 THEN BuyIn ELSE 0
           own == CashOf(s, {Hero})
           all == CashOf(s, Chairs)
<1>1. /\ SessionFits(g) /\ g.id = s.id /\ g.hand = s.hand /\ g.coaching = s.coaching
      /\ g.ready = s.ready /\ g.opening = s.stack[Hero] /\ g.settled = s.settled
      /\ g.over = s.over /\ g.toAct = s.toAct /\ g.stack = s.stack /\ g.profit = s.profit
      /\ \/ g.events = s.events /\ rebuy = 0
         \/ \E entry \in CashEntries : entry.seat = Bot /\ entry.chips = rebuy
                                       /\ g.events = Append(s.events, entry)
  BY LoggedFits
<1>2. /\ (s.button + 1) % seats \notin Chairs => q = g
      /\ (s.button + 1) % seats \in Chairs => q = Dealt(s, g, seats)
  BY NextHandIs
<1> HIDE DEF g, q
<1>3. CashOf(g, {Hero}) = own /\ CashOf(g, Chairs) = all + rebuy /\ RefusedRebuy(s, g) = rebuy
  <2>1. CASE g.events = s.events /\ rebuy = 0
    <3>1. CashOf(g, {Hero}) = own /\ CashOf(g, Chairs) = all
      BY <2>1, CashSame
    <3>2. all \in Int /\ s.events \in Seq(CashEntries)
      BY MoneyTyped
    <3>3. RefusedRebuy(s, g) = 0
      BY <2>1, <3>2, NothingRefused
    <3> HIDE DEF own, all
    <3> QED BY <2>1, <3>1, <3>2, <3>3
  <2>2. ASSUME NEW entry \in CashEntries, entry.seat = Bot, entry.chips = rebuy,
               g.events = Append(s.events, entry)
        PROVE  CashOf(g, {Hero}) = own /\ CashOf(g, Chairs) = all + rebuy /\ RefusedRebuy(s, g) = rebuy
    <3>1. Bot \notin {Hero} /\ Bot \in Chairs /\ s.events \in Seq(CashEntries) /\ own \in Int
      BY MoneyTyped DEF Chairs, Bot, Hero
    <3>2. CashOf(g, {Hero}) = own + 0
      BY <2>2, <3>1, CashMore
    <3>3. CashOf(g, Chairs) = all + rebuy
      BY <2>2, <3>1, CashMore
    <3>4. Len(g.events) > Len(s.events) /\ g.events[Len(g.events)] = entry
      BY <2>2, <3>1
    <3>5. RefusedRebuy(s, g) = rebuy
      BY <1>1, <2>2, <3>4 DEF RefusedRebuy
    <3> HIDE DEF own, all
    <3> QED BY <3>1, <3>2, <3>3, <3>5
  <2> QED BY <1>1, <2>1, <2>2
<1>4. own \in Int /\ all \in Int /\ s.stack[Hero] \in Int /\ s.stack[Bot] \in Int /\ s.profit \in Int
      /\ BuyIn \in Int /\ rebuy \in Int /\ s.hand \in Nat /\ unpaid \in Int
  BY MoneyTyped
<1>5. /\ s.stack[Hero] = BuyIn + s.profit + own
      /\ s.stack[Hero] + s.stack[Bot] + unpaid = 2 * BuyIn + all
  BY DEF AccountFits, OpenAccount, MoneyFits
<1>6. s.settled /\ InTurn(s) /\ HandsFit(s)
  BY DEF AccountFits, OpenAccount
<1> HIDE DEF own, all, rebuy
<1>7. CASE q = g
  <2>1. /\ q.hand = s.hand /\ q.ready = s.ready /\ q.settled = s.settled /\ q.over = s.over
        /\ q.toAct = s.toAct /\ q.stack = s.stack /\ q.profit = s.profit
        /\ CashOf(q, {Hero}) = own /\ CashOf(q, Chairs) = all + rebuy /\ RefusedRebuy(s, q) = rebuy
    BY <1>1, <1>3, <1>7
  <2>2. /\ q.stack[Hero] = BuyIn + q.profit + own
        /\ q.stack[Hero] + q.stack[Bot] + (unpaid + rebuy) = 2 * BuyIn + (all + rebuy)
    <3>1. s.stack[Hero] + s.stack[Bot] + (unpaid + rebuy) = 2 * BuyIn + (all + rebuy)
      <4> DEFINE x == s.stack[Hero]
                 y == s.stack[Bot]
      <4>1. /\ x \in Int /\ y \in Int /\ all \in Int /\ BuyIn \in Int /\ rebuy \in Int /\ unpaid \in Int
            /\ x + y + unpaid = 2 * BuyIn + all
        BY <1>4, <1>5
      <4> HIDE DEF x, y
      <4>2. x + y + (unpaid + rebuy) = 2 * BuyIn + (all + rebuy)
        BY <4>1, RebuyMeets
      <4> QED BY <4>2 DEF x, y
    <3> QED BY <1>5, <2>1, <3>1
  <2>3. MoneyFits(q, unpaid + rebuy)
    BY <1>6, <2>1, <2>2 DEF MoneyFits
  <2>4. HandsFit(q)
    BY <1>6, <2>1 DEF HandsFit
  <2>5. InTurn(q) /\ q.settled
    BY <1>6, <2>1 DEF InTurn
  <2> QED BY <1>1, <1>7, <2>1, <2>3, <2>4, <2>5 DEF AccountFits, OpenAccount, q
<1>8. CASE (s.button + 1) % seats \in Chairs
  <2>1. /\ q.hand = g.hand + 1 /\ q.ready = g.ready /\ q.events = g.events /\ q.opening = g.opening
        /\ q.profit = g.profit /\ ~q.settled /\ ~q.over
        /\ q.stack[Hero] = s.stack[Hero] /\ q.stack[Bot] = s.stack[Bot] + rebuy
    BY <1>1, <1>2, <1>8, DealtFits DEF rebuy
  <2>2. CashOf(q, {Hero}) = own /\ CashOf(q, Chairs) = all + rebuy
    BY <1>3, <2>1, CashSame
  <2>3. q.opening = BuyIn + q.profit + own /\ q.stack[Hero] + q.stack[Bot] + unpaid = 2 * BuyIn + (all + rebuy)
    <3>1. q.opening = s.stack[Hero] /\ q.profit = s.profit
      BY <1>1, <2>1
    <3>2. s.stack[Hero] + (s.stack[Bot] + rebuy) + unpaid = 2 * BuyIn + (all + rebuy)
      BY <1>4, <1>5, RebuyMeets
    <3>3. q.stack[Hero] + q.stack[Bot] + unpaid = 2 * BuyIn + (all + rebuy)
      BY <2>1, <3>2
    <3> QED BY <1>5, <3>1, <3>3
  <2>4. MoneyFits(q, unpaid)
    BY <2>1, <2>2, <2>3 DEF MoneyFits
  <2>5. RefusedRebuy(s, q) = 0 /\ unpaid + 0 = unpaid
    <3>1. q.hand # s.hand
      BY <1>1, <1>4, <2>1
    <3>2. s.events \in Seq(CashEntries)
      BY MoneyTyped
    <3> QED BY <1>4, <3>1, <3>2, NothingRefused
  <2>6. HandsFit(q)
    <3>1. q.ready = s.ready /\ q.hand = s.hand + 1
      BY <1>1, <2>1
    <3>2. /\ \A i, j \in DOMAIN s.ready : s.ready[i].hand = s.ready[j].hand => i = j
          /\ \A i \in DOMAIN s.ready : s.ready[i].hand <= s.hand /\ s.ready[i].hand \in Nat
      BY <1>6, MoneyTyped DEF HandsFit
    <3>3. \A i \in DOMAIN s.ready : s.ready[i].hand <= q.hand /\ s.ready[i].hand # q.hand
      BY <1>4, <3>1, <3>2
    <3> QED BY <3>1, <3>2, <3>3 DEF HandsFit
  <2>7. InTurn(q) /\ ~Finished(q)
    BY <2>1 DEF InTurn, Finished
  <2> QED BY <1>1, <2>1, <2>4, <2>5, <2>6, <2>7 DEF AccountFits, OpenAccount, q
<1> QED BY <1>2, <1>7, <1>8

-----------------------------------------------------------------------------
(* The books of a session that goes on. *)

(* A session that only adds to its log and its hands. *)
Grows(s, q) ==
  /\ SessionFits(q) /\ q.id = s.id
  /\ q.events = s.events \/ \E entry \in CashEntries : q.events = Append(s.events, entry)
  /\ Len(s.ready) <= Len(q.ready) /\ \A i \in DOMAIN s.ready : q.ready[i] = s.ready[i]

(* The same log and the same hands. *)
LEMMA KeepsAll ==
  ASSUME NEW s, SessionFits(s), NEW q, SessionFits(q), q.id = s.id, q.ready = s.ready,
         q.events = s.events \/ \E entry \in CashEntries : q.events = Append(s.events, entry)
  PROVE  Grows(s, q)
<1>1. Len(s.ready) <= Len(q.ready)
  BY MoneyTyped
<1> QED BY <1>1 DEF Grows

(* Settling. *)
LEMMA SettleGrows ==
  ASSUME NEW s, SessionFits(s)
  PROVE  Grows(s, Settle(s)) /\ Settle(s).events = s.events
<1>1. SessionFits(Settle(s)) /\ Settle(s).id = s.id /\ Settle(s).events = s.events
  BY SettleFits
<1>2. CASE ~(Finished(s) /\ ~s.settled)
  <2>1. Settle(s) = s
    BY <1>2 DEF Settle
  <2> QED BY <1>1, <2>1, KeepsAll
<1>3. CASE Finished(s) /\ ~s.settled
  <2> DEFINE q == Settle(s)
             hand == [session |-> s.id, hand |-> s.hand, decisions |-> s.decisions]
  <2>1. q.ready = Append(s.ready, hand)
    BY <1>3, SettleIs
  <2> HIDE DEF q, hand
  <2>2. Len(s.ready) <= Len(q.ready) /\ \A i \in DOMAIN s.ready : q.ready[i] = s.ready[i]
    BY <2>1, MoneyTyped
  <2> QED BY <1>1, <2>2 DEF Grows, q
<1> QED BY <1>2, <1>3

(* One after the other. *)
LEMMA GrowsOn ==
  ASSUME NEW s, SessionFits(s), NEW a, SessionFits(a), a.id = s.id, a.ready = s.ready, a.events = s.events,
         NEW q, Grows(a, q), q.events = a.events
  PROVE  Grows(s, q) /\ q.events = s.events
BY DEF Grows

(* The pause ends. *)
LEMMA ContinueGrows ==
  ASSUME NEW s, SessionFits(s)
  PROVE  Grows(s, ContinueHand(s)) /\ ContinueHand(s).events = s.events
<1> DEFINE a == [s EXCEPT !.coaching = NoDecision]
<1>1. SessionFits(a) /\ a.id = s.id /\ a.ready = s.ready /\ a.events = s.events
  BY UnpausedFits
<1>2. ContinueHand(s) = Settle(a)
  BY DEF ContinueHand
<1> HIDE DEF a
<1> QED BY <1>1, <1>2, SettleGrows, GrowsOn

(* The bot acts. *)
LEMMA StepGrows ==
  ASSUME NEW s, SessionFits(s), NEW outcome \in Outcomes(s)
  PROVE  Grows(s, StepBot(s, outcome)) /\ StepBot(s, outcome).events = s.events
<1> DEFINE a == Apply(s, outcome)
<1>1. SessionFits(a) /\ a.id = s.id /\ a.ready = s.ready /\ a.events = s.events
  BY ApplyFits
<1>2. StepBot(s, outcome) = Settle(a)
  BY DEF StepBot
<1> HIDE DEF a
<1> QED BY <1>1, <1>2, SettleGrows, GrowsOn

(* The learner acts, and the hand may go on at once. *)
LEMMA SubmitGrows ==
  ASSUME NEW s, SessionFits(s), NEW outcome \in Outcomes(s)
  PROVE  /\ Grows(s, Submit(s, outcome)) /\ Submit(s, outcome).events = s.events
         /\ Grows(s, ContinueHand(Submit(s, outcome)))
         /\ ContinueHand(Submit(s, outcome)).events = s.events
<1> DEFINE a == Submit(s, outcome)
<1>1. SessionFits(a) /\ a.id = s.id /\ a.ready = s.ready /\ a.events = s.events
  BY SubmitFits
<1> HIDE DEF a
<1>2. Grows(s, a)
  BY <1>1, KeepsAll
<1>3. Grows(s, ContinueHand(a)) /\ ContinueHand(a).events = s.events
  BY <1>1, ContinueGrows, GrowsOn
<1> QED BY <1>1, <1>2, <1>3 DEF a

(* Chips are added or taken. *)
LEMMA PaidGrows ==
  ASSUME NEW s, SessionFits(s), NEW q, NEW seat, NEW chips, Paid(s, q, seat, chips)
  PROVE  Grows(s, q)
BY KeepsAll DEF Paid

(* Nothing is between a place and the one before. *)
LEMMA NothingBetween ==
  ASSUME NEW e, NEW m \in Nat
  PROVE  SubSeq(e, m + 1, m) = <<>>
<1>1. (m + 1) .. m = {} /\ m < m + 1
  OBVIOUS
<1> QED BY <1>1

(* A part of a sequence is one of the same kind. *)
LEMMA PartTyped ==
  ASSUME NEW T, NEW e \in Seq(T), NEW m \in Nat, NEW n \in Nat, m <= n, n = m \/ n <= Len(e)
  PROVE  SubSeq(e, m + 1, n) \in Seq(T)
<1>1. CASE n = m
  BY <1>1, NothingBetween
<1>2. CASE n <= Len(e)
  BY <1>2
<1> QED BY <1>1, <1>2

(* Two sequences that agree between two places. *)
LEMMA SameBetween ==
  ASSUME NEW e, NEW g, NEW m \in Nat, NEW n \in Nat, m <= n, \A i \in (m + 1) .. n : g[i] = e[i]
  PROVE  SubSeq(g, m + 1, n) = SubSeq(e, m + 1, n)
OBVIOUS

(* What was saved of the log and of the hands is still so. *)
LEMMA GrownBooks ==
  ASSUME NEW s, SessionFits(s), NEW b, NEW d, NEW p, IsPast(p), LogFits(s, b, d, p), ArchiveFits(s, b, d, p),
         NEW q, Grows(s, q)
  PROVE  LogFits(q, b, d, p) /\ ArchiveFits(q, b, d, p)
<1>1. s.events \in Seq(CashEntries)
  BY MoneyTyped
<1>2. LogFits(q, b, d, p)
  <2>1. CASE q.events = s.events
    BY <2>1 DEF LogFits
  <2>2. ASSUME NEW entry \in CashEntries, q.events = Append(s.events, entry)
        PROVE  LogFits(q, b, d, p)
    <3> DEFINE m == Len(p.cash)
               n == b.cash
               e == s.events
               g == Append(e, entry)
    <3>1. /\ m \in Nat /\ n \in Nat /\ Len(e) \in Nat /\ m <= n /\ (n = m \/ n <= Len(e))
          /\ Len(g) = Len(e) + 1
      BY <1>1 DEF LogFits, IsPast
    <3>2. SubSeq(g, m + 1, n) = SubSeq(e, m + 1, n)
      <4>1. CASE n = m
        BY <1>1, <3>1, <4>1, NothingBetween
      <4>2. CASE n <= Len(e)
        <5>1. \A i \in (m + 1) .. n : g[i] = e[i]
          BY <1>1, <3>1, <4>2
        <5> HIDE DEF g
        <5> QED BY <3>1, <5>1, SameBetween
      <4> QED BY <3>1, <4>1, <4>2
    <3>3. n = m \/ n <= Len(g)
      BY <3>1
    <3> QED BY <2>2, <3>2, <3>3 DEF LogFits
  <2> QED BY <2>1, <2>2 DEF Grows
<1>3. ArchiveFits(q, b, d, p)
  <2>1. /\ b.snapshots \in Seq(FiledHands) /\ p.hands <= Len(b.snapshots) /\ p.hands \in Nat
        /\ Len(b.snapshots) \in Nat /\ Len(s.ready) \in Nat /\ Len(q.ready) \in Nat
        /\ Len(s.ready) <= Len(q.ready) /\ q.id = s.id
        /\ DOMAIN s.ready = 1 .. Len(s.ready) /\ DOMAIN q.ready = 1 .. Len(q.ready)
    BY MoneyTyped DEF ArchiveFits, Grows, IsPast
  <2>2. Len(b.snapshots) <= Len(q.ready) \/ Len(b.snapshots) = p.hands
    BY <2>1 DEF ArchiveFits
  <2>3. ASSUME NEW i \in DOMAIN b.snapshots, b.snapshots[i].session = s.id
        PROVE  Filed(q, b, d, i)
    <3>1. Filed(s, b, d, i)
      BY <2>3 DEF ArchiveFits
    <3>2. i \in DOMAIN s.ready /\ i \in DOMAIN q.ready
      BY <2>1, <3>1 DEF Filed
    <3>3. q.ready[i] = s.ready[i] /\ KeyOf(q, q.ready[i]) = KeyOf(s, s.ready[i])
      BY <2>1, <3>2 DEF Grows, KeyOf
    <3> QED BY <3>1, <3>2, <3>3 DEF Filed
  <2> QED BY <2>1, <2>2, <2>3 DEF ArchiveFits
<1> QED BY <1>2, <1>3

(* A review changes the records of a hand, and the books know that there is
   something to save. *)
LEMMA AmendedBooks ==
  ASSUME NEW s, SessionFits(s), NEW b, NEW d, NEW p, LogFits(s, b, d, p), ArchiveFits(s, b, d, p),
         NEW q, q.id = s.id, q.events = s.events, DOMAIN q.ready = DOMAIN s.ready, SessionFits(q),
         \A i \in DOMAIN s.ready : q.ready[i].hand = s.ready[i].hand,
         NEW c, c.cash = b.cash, c.snapshots = b.snapshots, c.changed
  PROVE  LogFits(q, c, d, p) /\ ArchiveFits(q, c, d, p)
<1>1. LogFits(q, c, d, p)
  BY DEF LogFits
<1>2. Len(q.ready) = Len(s.ready)
  BY MoneyTyped
<1>3. ASSUME NEW i \in DOMAIN c.snapshots, c.snapshots[i].session = q.id
      PROVE  Filed(q, c, d, i)
  <2>1. Filed(s, b, d, i)
    BY <1>3 DEF ArchiveFits
  <2>2. KeyOf(q, q.ready[i]) = KeyOf(s, s.ready[i]) /\ q.ready[i].hand = s.ready[i].hand
    BY <2>1 DEF KeyOf, Filed
  <2> QED BY <2>1, <2>2 DEF Filed
<1> QED BY <1>1, <1>2, <1>3 DEF ArchiveFits

(* The larger of two numbers. *)
LEMMA LargerOf ==
  ASSUME NEW a \in Nat, NEW b \in Nat
  PROVE  Max({a, b}) \in Nat /\ Max({a, b}) >= a /\ Max({a, b}) >= b /\ (Max({a, b}) = a \/ Max({a, b}) = b)
<1> DEFINE M == {a, b}
<1>1. \E x \in M : \A y \in M : x >= y
  OBVIOUS
<1>2. Max(M) \in M /\ \A y \in M : Max(M) >= y
  BY <1>1 DEF Max
<1> QED BY <1>2

(* Hands that were filed have keys of their own. *)
LEMMA KeysDiffer ==
  ASSUME NEW s, HandsFit(s), NEW i \in DOMAIN s.ready, NEW j \in DOMAIN s.ready,
         KeyOf(s, s.ready[i]) = KeyOf(s, s.ready[j])
  PROVE  i = j
<1>1. s.ready[i].hand = s.ready[j].hand
  BY DEF KeyOf
<1> QED BY <1>1 DEF HandsFit

(* A filed hand is a record of the archive. *)
LEMMA FiledTyped ==
  ASSUME NEW s, SessionFits(s)
  PROVE  /\ \A i \in DOMAIN s.ready : s.ready[i] \in FiledHands /\ s.ready[i].session = s.id
         /\ \A hand \in FiledHands : hand.session \in Nat
         /\ s.id \in Nat
<1>1. s.id \in Nat /\ s.ready \in Seq(HandsIn(s.id))
  BY DEF SessionFits, NumbersFit, RecordsFit
<1>2. ASSUME NEW i \in DOMAIN s.ready
      PROVE  s.ready[i] \in FiledHands /\ s.ready[i].session = s.id
  <2>1. s.ready[i] \in HandsIn(s.id)
    BY <1>1
  <2> QED BY <1>1, <2>1 DEF FiledHands, HandsIn
<1>3. \A hand \in FiledHands : hand.session \in Nat
  BY DEF FiledHands, HandsIn
<1> QED BY <1>1, <1>2, <1>3

(* The snapshots after a save that got as far as hand n. *)
LEMMA SnapshotsAre ==
  ASSUME NEW s, SessionFits(s), books.snapshots \in Seq(FiledHands), NEW n \in 0 .. Len(s.ready)
  PROVE  LET snaps == SnapshotsUpTo(s, n) IN
         /\ snaps \in Seq(FiledHands) /\ Len(snaps) \in Nat /\ DOMAIN snaps = 1 .. Len(snaps)
         /\ Len(snaps) >= Len(books.snapshots)
         /\ Len(snaps) = n \/ Len(snaps) = Len(books.snapshots)
         /\ \A i \in DOMAIN snaps :
              /\ i <= n => i \in DOMAIN s.ready /\ snaps[i] = s.ready[i]
              /\ i > n => i \in DOMAIN books.snapshots /\ snaps[i] = books.snapshots[i]
<1> DEFINE k == Len(books.snapshots)
           m == Max({n, k})
           snaps == SnapshotsUpTo(s, n)
<1>1. /\ Len(s.ready) \in Nat /\ DOMAIN s.ready = 1 .. Len(s.ready)
      /\ k \in Nat /\ DOMAIN books.snapshots = 1 .. k
      /\ n \in Nat /\ n <= Len(s.ready)
  BY MoneyTyped
<1>2. m \in Nat /\ (m = n \/ m = k) /\ m >= n /\ m >= k
  BY <1>1, LargerOf
<1>3. snaps = [i \in 1 .. m |-> IF i <= n THEN s.ready[i] ELSE books.snapshots[i]]
  BY DEF SnapshotsUpTo
<1> HIDE DEF k, m, snaps
<1>4. ASSUME NEW i \in 1 .. m
      PROVE  /\ i <= n => i \in DOMAIN s.ready /\ snaps[i] = s.ready[i]
             /\ i > n => i \in DOMAIN books.snapshots /\ snaps[i] = books.snapshots[i]
  BY <1>1, <1>2, <1>3
<1>5. ASSUME NEW i \in 1 .. m PROVE snaps[i] \in FiledHands
  <2>1. CASE i <= n
    BY <1>4, <2>1, FiledTyped
  <2>2. CASE i > n
    BY <1>4, <2>2
  <2> QED BY <1>1, <1>2, <2>1, <2>2
<1>6. snaps = [i \in 1 .. m |-> snaps[i]]
  BY <1>3
<1>7. snaps \in Seq(FiledHands) /\ DOMAIN snaps = 1 .. m /\ Len(snaps) = m
  BY <1>2, <1>5, <1>6
<1> QED BY <1>2, <1>4, <1>7 DEF snaps, k

(* The archive after such a save. *)
LEMMA ArchivedAre ==
  ASSUME NEW s, SessionFits(s), HandsFit(s), NEW p, ArchiveFits(s, books, disk, p), NEW n \in 0 .. Len(s.ready)
  PROVE  LET snaps == SnapshotsUpTo(s, n)
             archive == Archived(s, n) IN
         \A i \in DOMAIN snaps : snaps[i].session = s.id =>
           /\ i \in DOMAIN s.ready
           /\ KeyOf(s, s.ready[i]) \in DOMAIN archive
           /\ archive[KeyOf(s, s.ready[i])] = snaps[i].decisions
<1> DEFINE fresh == {i \in ChangedHands(s) : i <= n}
           key(i) == <<s.id, s.ready[i].hand>>
           archive == Archived(s, n)
           snaps == SnapshotsUpTo(s, n)
<1>1. archive = [k \in DOMAIN disk.archive \cup {key(i) : i \in fresh} |->
                   IF \E i \in fresh : key(i) = k
                   THEN s.ready[CHOOSE i \in fresh : key(i) = k].decisions
                   ELSE disk.archive[k]]
  BY DEF Archived
<1>2. /\ fresh \subseteq DOMAIN s.ready
      /\ \A i \in DOMAIN s.ready : i <= n /\ i \notin fresh =>
           ~(i > Len(books.snapshots)) /\ books.snapshots[i] = s.ready[i]
  BY DEF ChangedHands
<1>3. /\ books.snapshots \in Seq(FiledHands)
      /\ DOMAIN snaps = 1 .. Len(snaps) /\ Len(snaps) \in Nat /\ n \in Nat
      /\ \A i \in DOMAIN snaps :
           /\ i <= n => i \in DOMAIN s.ready /\ snaps[i] = s.ready[i]
           /\ i > n => i \in DOMAIN books.snapshots /\ snaps[i] = books.snapshots[i]
  <2>1. books.snapshots \in Seq(FiledHands) /\ n \in Nat
    BY MoneyTyped DEF ArchiveFits
  <2> QED BY <2>1, SnapshotsAre
<1>4. \A i \in fresh : i <= n
  OBVIOUS
<1> HIDE DEF archive, fresh, snaps
<1>5. \A i, j \in DOMAIN s.ready : key(i) = key(j) => i = j
  BY KeysDiffer DEF KeyOf
<1>6. ASSUME NEW i \in DOMAIN snaps, snaps[i].session = s.id
      PROVE  i \in DOMAIN s.ready /\ key(i) \in DOMAIN archive /\ archive[key(i)] = snaps[i].decisions
  <2>1. CASE i \in fresh
    <3>1. key(i) \in {key(j) : j \in fresh}
      BY <2>1
    <3>2. (CHOOSE j \in fresh : key(j) = key(i)) = i
      <4>1. \A j \in fresh : key(j) = key(i) => j = i
        BY <1>2, <1>5, <2>1
      <4> QED BY <2>1, <4>1
    <3> DEFINE k == key(i)
    <3>3. archive[k] = IF \E j \in fresh : key(j) = k
                       THEN s.ready[CHOOSE j \in fresh : key(j) = k].decisions
                       ELSE disk.archive[k]
      BY <1>1, <3>1
    <3>4. archive[k] = s.ready[i].decisions
      BY <2>1, <3>2, <3>3
    <3>5. snaps[i] = s.ready[i]
      BY <1>3, <1>4, <2>1
    <3> QED BY <1>1, <1>2, <2>1, <3>1, <3>4, <3>5
  <2>2. CASE i \notin fresh
    <3> DEFINE k == key(i)
    <3>1. i \in DOMAIN books.snapshots /\ snaps[i] = books.snapshots[i]
      <4>1. CASE i > n
        BY <1>3, <4>1
      <4>2. CASE i <= n
        <5>1. ~(i > Len(books.snapshots)) /\ books.snapshots[i] = s.ready[i] /\ snaps[i] = s.ready[i]
          BY <1>2, <1>3, <2>2, <4>2
        <5>2. i \in DOMAIN books.snapshots
          <6>1. i \in 1 .. Len(snaps)
            BY <1>3
          <6> QED BY <1>3, <5>1, <6>1
        <5> QED BY <5>1, <5>2
      <4>3. i \in Nat /\ n \in Nat
        BY <1>3
      <4> QED BY <4>1, <4>2, <4>3
    <3>2. Filed(s, books, disk, i)
      BY <1>6, <3>1 DEF ArchiveFits
    <3>3. \A j \in fresh : key(j) # k
      BY <1>2, <1>5, <2>2, <3>2 DEF Filed
    <3>4. i \in DOMAIN s.ready /\ k \in DOMAIN disk.archive /\ disk.archive[k] = books.snapshots[i].decisions
      BY <3>2 DEF Filed, KeyOf
    <3> HIDE DEF k
    <3>5. k \in DOMAIN archive /\ archive[k] = disk.archive[k]
      BY <1>1, <3>3, <3>4
    <3> QED BY <3>1, <3>4, <3>5 DEF k
  <2> QED BY <2>1, <2>2
<1> QED BY <1>6 DEF KeyOf, snaps, archive

(* A save, as far as it got, leaves books that are the session's. *)
LEMMA SaveBooks ==
  ASSUME NEW s, SessionFits(s), HandsFit(s), NEW p, BooksFit(s, books, disk, p), SaveProgress(s)
  PROVE  /\ BooksFit(s, books', disk', p)
         /\ books'.accounted = [hands |-> s.completed, profit |-> s.profit]
<1>1. /\ AreBooks(books, disk) /\ IsPast(p) /\ LogFits(s, books, disk, p) /\ TotalFits(books)
      /\ ArchiveFits(s, books, disk, p) /\ s.completed \in Nat /\ s.profit \in Int
  BY DEF BooksFit, SessionFits, NumbersFit
<1> DEFINE due == books.changed \/ Len(books.snapshots) # Len(s.ready)
           snapsAt(n) == IF due THEN SnapshotsUpTo(s, n) ELSE books.snapshots
           archiveAt(n) == IF due THEN Archived(s, n) ELSE disk.archive
           accounted == [hands |-> s.completed, profit |-> s.profit]
<1>2. PICK cash \in books.cash .. Max({books.cash, Len(s.events)}), n \in 0 .. Len(s.ready) :
        /\ books' = [books EXCEPT !.progress = Accounted(s), !.accounted = accounted,
                                  !.cash = cash, !.snapshots = snapsAt(n),
                                  !.changed = @ /\ ~Persisted(s, snapsAt(n))]
        /\ disk' = [cash |-> disk.cash \o SubSeq(s.events, books.cash + 1, cash),
                    archive |-> archiveAt(n)]
  BY DEF SaveProgress
<1> DEFINE snaps == snapsAt(n)
           archive == archiveAt(n)
           changed == books.changed /\ ~Persisted(s, snaps)
           progress == Accounted(s)
           log == disk.cash \o SubSeq(s.events, books.cash + 1, cash)
           c == books'
           d == disk'
<1>3. /\ books' = [books EXCEPT !.progress = progress, !.accounted = accounted,
                                !.cash = cash, !.snapshots = snaps, !.changed = changed]
      /\ disk' = [cash |-> log, archive |-> archive]
  BY <1>2
<1>4. changed \in BOOLEAN
  OBVIOUS
<1>5. accounted \in TotalsIn /\ progress = accounted
  <2>1. books.accounted \in TotalsIn /\ books.progress = books.accounted
    BY <1>1 DEF TotalFits
  <2>2. accounted \in TotalsIn
    BY <1>1 DEF TotalsIn
  <2>3. /\ books.progress.hands + s.completed - books.accounted.hands = s.completed
        /\ books.progress.profit + s.profit - books.accounted.profit = s.profit
    BY <1>1, <2>1 DEF TotalsIn
  <2> QED BY <2>2, <2>3 DEF Accounted
<1>6. /\ cash \in Nat /\ Len(p.cash) <= cash /\ (cash = Len(p.cash) \/ cash <= Len(s.events))
      /\ log = p.cash \o SubSeq(s.events, Len(p.cash) + 1, cash)
  <2> DEFINE e == s.events
             before == p.cash
             m == Len(before)
             start == books.cash
             top == Max({start, Len(e)})
  <2>1. cash \in start .. top /\ log = disk.cash \o SubSeq(e, start + 1, cash)
    OBVIOUS
  <2>2. /\ e \in Seq(CashEntries) /\ before \in Seq(CashEntries) /\ m \in Nat /\ start \in Nat
        /\ m <= start /\ (start = m \/ start <= Len(e))
        /\ disk.cash = before \o SubSeq(e, m + 1, start)
    BY <1>1, MoneyTyped DEF LogFits, IsPast
  <2> HIDE DEF e, before, m, start, log
  <2>3. Len(e) \in Nat
    BY <2>2
  <2>4. top \in Nat /\ (top = start \/ top = Len(e))
    BY <2>2, <2>3, LargerOf
  <2> HIDE DEF top
  <2>5. cash \in Nat /\ start <= cash /\ (cash = start \/ cash <= Len(e))
    BY <2>1, <2>2, <2>3, <2>4
  <2> DEFINE older == SubSeq(e, m + 1, start)
             newer == SubSeq(e, start + 1, cash)
  <2>6. (before \o older) \o newer = before \o SubSeq(e, m + 1, cash)
    <3>1. older \in Seq(CashEntries)
      BY <2>2, PartTyped
    <3>2. CASE cash = start
      <4>1. newer = <<>>
        BY <2>2, <3>2, NothingBetween
      <4>2. before \o older \in Seq(CashEntries)
        BY <2>2, <3>1
      <4> HIDE DEF older, newer
      <4>3. (before \o older) \o newer = before \o older
        BY <4>1, <4>2, ConcatEmptySeq
      <4> QED BY <3>2, <4>3 DEF older
    <3>3. CASE cash # start
      <4>1. /\ start <= cash /\ cash <= Len(e) /\ m + 1 \in 1 .. Len(e) + 1
            /\ start \in (m + 1) - 1 .. Len(e) /\ cash \in start .. Len(e)
        BY <2>2, <2>3, <2>5, <3>3
      <4>2. older \o newer = SubSeq(e, m + 1, cash)
        BY <2>2, <4>1, ConcatAdjacentSubSeq
      <4>3. before \in Seq(CashEntries) /\ newer \in Seq(CashEntries)
        BY <2>2, <2>5, <4>1, PartTyped
      <4> HIDE DEF older, newer
      <4>4. (before \o older) \o newer = before \o (older \o newer)
        BY <3>1, <4>3, ConcatAssociative
      <4> QED BY <4>2, <4>4
    <3> QED BY <3>2, <3>3
  <2>7. log = before \o SubSeq(e, m + 1, cash)
    BY <2>1, <2>2, <2>6
  <2>8. m <= cash /\ (cash = m \/ cash <= Len(e))
    BY <2>2, <2>3, <2>5
  <2> QED BY <2>5, <2>7, <2>8 DEF e, before, m
<1>7. /\ snaps \in Seq(FiledHands) /\ Len(snaps) \in Nat /\ DOMAIN snaps = 1 .. Len(snaps)
      /\ p.hands <= Len(snaps) /\ (Len(snaps) <= Len(s.ready) \/ Len(snaps) = p.hands)
      /\ \A i \in DOMAIN snaps :
           /\ snaps[i].session <= s.id
           /\ p.hands < Len(snaps) => snaps[i].session = s.id
           /\ snaps[i].session = s.id =>
                /\ i \in DOMAIN s.ready /\ snaps[i].hand = s.ready[i].hand
                /\ KeyOf(s, s.ready[i]) \in DOMAIN archive
                /\ archive[KeyOf(s, s.ready[i])] = snaps[i].decisions
                /\ ~changed => snaps[i] = s.ready[i]
  <2>0. /\ books.snapshots \in Seq(FiledHands) /\ Len(books.snapshots) \in Nat
        /\ DOMAIN books.snapshots = 1 .. Len(books.snapshots)
        /\ p.hands \in Nat /\ p.hands <= Len(books.snapshots)
        /\ Len(books.snapshots) <= Len(s.ready) \/ Len(books.snapshots) = p.hands
        /\ Len(s.ready) \in Nat /\ n \in Nat /\ n <= Len(s.ready)
    BY <1>1, MoneyTyped DEF ArchiveFits, IsPast
  <2>1. CASE ~due
    <3>1. snaps = books.snapshots /\ archive = disk.archive /\ ~books.changed
      BY <2>1
    <3> HIDE DEF snaps, archive, due
    <3> QED BY <1>1, <2>0, <3>1 DEF ArchiveFits, Filed
  <2>2. CASE due
    <3>1. snaps = SnapshotsUpTo(s, n) /\ archive = Archived(s, n)
      BY <2>2
    <3> HIDE DEF snaps, archive, due
    <3>2. /\ snaps \in Seq(FiledHands) /\ Len(snaps) \in Nat /\ DOMAIN snaps = 1 .. Len(snaps)
          /\ Len(snaps) >= Len(books.snapshots)
          /\ Len(snaps) = n \/ Len(snaps) = Len(books.snapshots)
          /\ \A i \in DOMAIN snaps :
               /\ i <= n => i \in DOMAIN s.ready /\ snaps[i] = s.ready[i]
               /\ i > n => i \in DOMAIN books.snapshots /\ snaps[i] = books.snapshots[i]
      BY <2>0, <3>1, SnapshotsAre
    <3>3. \A i \in DOMAIN snaps : snaps[i].session = s.id =>
            /\ i \in DOMAIN s.ready
            /\ KeyOf(s, s.ready[i]) \in DOMAIN archive
            /\ archive[KeyOf(s, s.ready[i])] = snaps[i].decisions
      BY <1>1, <3>1, ArchivedAre
    <3>4. p.hands <= Len(snaps) /\ (Len(snaps) <= Len(s.ready) \/ Len(snaps) = p.hands)
      <4>1. /\ Len(snaps) \in Nat /\ Len(snaps) >= Len(books.snapshots)
            /\ Len(snaps) = n \/ Len(snaps) = Len(books.snapshots)
        BY <3>2
      <4> QED BY <2>0, <4>1
    <3>5. ASSUME NEW i \in DOMAIN snaps
          PROVE  /\ snaps[i].session <= s.id
                 /\ p.hands < Len(snaps) => snaps[i].session = s.id
                 /\ snaps[i].session = s.id => snaps[i].hand = s.ready[i].hand /\ (~changed => snaps[i] = s.ready[i])
      <4>1. i \in Nat /\ i <= Len(snaps)
        BY <3>2
      <4>2. CASE i <= n
        <5>1. i \in DOMAIN s.ready /\ snaps[i] = s.ready[i]
          BY <3>2, <4>2
        <5>2. snaps[i].session = s.id /\ s.id \in Nat
          BY <5>1, FiledTyped
        <5> QED BY <5>1, <5>2
      <4>3. CASE i > n
        <5>1. i \in DOMAIN books.snapshots /\ snaps[i] = books.snapshots[i]
          BY <3>2, <4>3
        <5>2. Len(snaps) = Len(books.snapshots)
          <6>1. n \in Nat
            BY <2>0
          <6>2. Len(snaps) = n \/ Len(snaps) = Len(books.snapshots)
            BY <3>2
          <6>3. Len(snaps) \in Nat /\ ~(Len(snaps) <= n)
            <7>1. Len(snaps) \in Nat
              BY <3>2
            <7> QED BY <4>1, <4>3, <6>1, <7>1
          <6> QED BY <6>1, <6>2, <6>3
        <5>3. snaps[i].session <= s.id /\ (p.hands < Len(snaps) => snaps[i].session = s.id)
          BY <1>1, <5>1, <5>2 DEF ArchiveFits
        <5>4. ASSUME snaps[i].session = s.id
              PROVE  snaps[i].hand = s.ready[i].hand /\ (~changed => snaps[i] = s.ready[i])
          <6>1. Filed(s, books, disk, i)
            BY <1>1, <5>1, <5>4 DEF ArchiveFits
          <6>2. CASE Persisted(s, snaps)
            BY <5>1, <6>1, <6>2 DEF Persisted, Filed
          <6>3. CASE ~Persisted(s, snaps)
            BY <5>1, <6>1, <6>3 DEF Filed
          <6> QED BY <6>2, <6>3
        <5> QED BY <5>3, <5>4
      <4> QED BY <2>0, <4>1, <4>2, <4>3
    <3> QED BY <3>2, <3>3, <3>4, <3>5
  <2> QED BY <2>1, <2>2
<1> HIDE DEF snaps, archive, changed, progress, log, accounted
<1>8. /\ AreBooks(c, d)
      /\ c.progress = progress /\ c.accounted = accounted /\ c.cash = cash
      /\ c.snapshots = snaps /\ c.changed = changed
      /\ d.cash = log /\ d.archive = archive
  BY <1>1, <1>3, <1>4 DEF AreBooks
<1> HIDE DEF c, d
<1>9. LogFits(s, c, d, p)
  BY <1>6, <1>8 DEF LogFits
<1>10. TotalFits(c)
  BY <1>5, <1>8 DEF TotalFits
<1>11. ArchiveFits(s, c, d, p)
  BY <1>7, <1>8 DEF ArchiveFits, Filed
<1>12. BooksFit(s, c, d, p) /\ c.accounted = accounted
  BY <1>1, <1>8, <1>9, <1>10, <1>11 DEF BooksFit
<1> QED BY <1>12 DEF c, d, accounted

-----------------------------------------------------------------------------
(* The desk keeps BooksInv. *)

(* The history, as long as the session is the same. *)
LEMMA RememberIs ==
  ASSUME IsPast(past), SessionFits(session), SessionFits(session'), session'.id = session.id, Remember
  PROVE  /\ IsPast(past') /\ past'.cash = past.cash /\ past'.hands = past.hands
         /\ past'.unpaid = past.unpaid + RefusedRebuy(session, session')
         /\ session'.events = session.events => past' = past
<1> DEFINE refused == RefusedRebuy(session, session')
<1>1. past' = [past EXCEPT !.unpaid = @ + refused]
  BY DEF Remember
<1>2. refused \in Int
  <2> DEFINE e == session.events
             f == session'.events
  <2>1. e \in Seq(CashEntries) /\ f \in Seq(CashEntries)
    BY MoneyTyped
  <2>2. ASSUME Len(f) > Len(e) PROVE f[Len(f)].chips \in Int
    <3>1. Len(f) \in DOMAIN f
      BY <2>1, <2>2
    <3>2. f[Len(f)] \in CashEntries
      BY <2>1, <3>1
    <3> QED BY <3>2 DEF CashEntries
  <2> HIDE DEF e, f
  <2>3. refused = IF session'.hand = session.hand /\ Len(f) > Len(e) /\ f[Len(f)].seat = Bot
                  THEN f[Len(f)].chips ELSE 0
    BY DEF RefusedRebuy, e, f
  <2> QED BY <2>2, <2>3
<1>3. session'.events = session.events => refused = 0
  BY NothingRefused, MoneyTyped
<1> HIDE DEF refused
<1>4. /\ past'.unpaid = past.unpaid + refused /\ past'.cash = past.cash /\ past'.hands = past.hands
      /\ IsPast(past')
  BY <1>1, <1>2 DEF IsPast
<1>5. ASSUME refused = 0 PROVE past' = past
  BY <1>1, <1>5 DEF IsPast
<1> QED BY <1>3, <1>4, <1>5 DEF refused

(* Before anything has happened the books are empty. *)
LEMMA BooksStart ==
  ASSUME DeskInit PROVE BooksInv
<1>1. /\ session = NewSession(1) /\ phase = "poll" /\ past = NoPast
      /\ disk = [cash |-> <<>>, archive |-> <<>>]
  BY DEF DeskInit
<1>2. PICK firstRun \in BOOLEAN :
        books = [progress |-> NoProgress, accounted |-> NoProgress, cash |-> 0,
                 snapshots |-> <<>>, changed |-> FALSE, firstRun |-> firstRun]
  BY DEF DeskInit
<1>3. AccountFits(session, 0) /\ SessionFits(session) /\ Len(session.ready) \in Nat
  BY <1>1, NewAccount, NewSessionFits, MoneyTyped, 1 \in Nat
<1>4. NoProgress \in TotalsIn
  BY DEF NoProgress, TotalsIn
<1>5. AreBooks(books, disk)
  BY <1>1, <1>2 DEF AreBooks
<1>6. past.unpaid = 0 /\ past.cash = <<>> /\ past.hands = 0 /\ Len(past.cash) = 0 /\ IsPast(past)
  BY <1>1 DEF NoPast, IsPast
<1>7. LogFits(session, books, disk, past)
  <2>1. SubSeq(session.events, 0 + 1, 0) = <<>>
    BY NothingBetween
  <2>2. books.cash = 0 /\ disk.cash = <<>> \o <<>>
    BY <1>1, <1>2
  <2> QED BY <1>6, <2>1, <2>2 DEF LogFits
<1>8. TotalFits(books)
  BY <1>2, <1>4 DEF TotalFits
<1>9. ArchiveFits(session, books, disk, past)
  <2>1. books.snapshots = <<>> /\ <<>> \in Seq(FiledHands) /\ Len(<<>>) = 0 /\ DOMAIN <<>> = {}
    BY <1>2
  <2> QED BY <1>3, <1>6, <2>1 DEF ArchiveFits
<1> QED BY <1>1, <1>3, <1>5, <1>6, <1>7, <1>8, <1>9 DEF BooksInv, BooksFit

(* An answer is taken in. *)
LEMMA TakenInBooks ==
  ASSUME ReviewInv, BooksInv, NEW review \in ReviewsIn(session.id),
         session' = RecordReview(session, review),
         books' = [books EXCEPT !.changed = books.changed \/ Reviewable(session, review)],
         disk' = disk, Remember
  PROVE  AccountFits(session', past'.unpaid) /\ BooksFit(session', books', disk', past')
<1>1. /\ SessionFits(session) /\ AccountFits(session, past.unpaid) /\ AreBooks(books, disk)
      /\ IsPast(past) /\ LogFits(session, books, disk, past) /\ TotalFits(books)
      /\ ArchiveFits(session, books, disk, past) /\ past.unpaid \in Int
  BY DEF ReviewInv, BooksInv, BooksFit, IsPast
<1>2. AccountFits(session', past.unpaid)
  BY <1>1, ReviewAccount
<1>3. past' = past
  <2>1. SessionFits(session') /\ session'.id = session.id /\ session'.events = session.events
    BY <1>1, ReviewFits
  <2> QED BY <1>1, <2>1, RememberIs
<1>4. CASE ~Reviewable(session, review)
  <2>1. session' = session /\ books' = [books EXCEPT !.changed = books.changed]
    BY <1>1, <1>4 DEF RecordReview, AreBooks
  <2>2. books' = books
    BY <1>1, <2>1 DEF AreBooks
  <2> QED BY <1>1, <1>3, <2>1, <2>2 DEF BooksFit
<1>5. CASE Reviewable(session, review)
  <2> DEFINE c == [books EXCEPT !.changed = TRUE]
             q == RecordReview(session, review)
  <2>1. books' = c /\ c = [books EXCEPT !.changed = TRUE]
    BY <1>5
  <2>2. /\ SessionFits(q) /\ q.id = session.id /\ q.events = session.events
        /\ DOMAIN q.ready = DOMAIN session.ready
        /\ \A i \in DOMAIN session.ready : q.ready[i].hand = session.ready[i].hand
    BY <1>1, ReviewFits
  <2> HIDE DEF c, q
  <2>3. /\ AreBooks(c, disk) /\ c.cash = books.cash /\ c.snapshots = books.snapshots /\ c.changed = TRUE
        /\ c.progress = books.progress /\ c.accounted = books.accounted
    BY <1>1, <2>1 DEF AreBooks
  <2>4. LogFits(q, c, disk, past) /\ ArchiveFits(q, c, disk, past)
    BY <1>1, <2>2, <2>3, AmendedBooks
  <2>5. TotalFits(c)
    BY <1>1, <2>3 DEF TotalFits
  <2> QED BY <1>1, <1>2, <1>3, <2>1, <2>3, <2>4, <2>5 DEF BooksFit, q
<1> QED BY <1>2, <1>3, <1>4, <1>5

(* The workers' answers. *)
LEMMA PollBooks ==
  ASSUME ReviewInv, BooksInv, PollCloud \/ PollSolver, Remember PROVE BooksInv'
<1>1. /\ cloud \in JobsIn(session.id) /\ solvers \in JobsIn(session.id) /\ SessionFits(session)
      /\ AccountFits(session, past.unpaid) /\ BooksFit(session, books, disk, past) /\ IsPast(past)
  BY DEF ReviewInv, JobsFit, BooksInv, BooksFit
<1>2. phase' # "key" /\ disk' = disk
  BY DEF PollCloud, PollSolver
<1>3. ASSUME NEW decision \in DecisionsIn(session.id), AcceptCloud(decision)
      PROVE  AccountFits(session', past'.unpaid) /\ BooksFit(session', books', disk', past')
  <2> DEFINE review == [of |-> decision, basis |-> "cloud"]
  <2>1. review \in ReviewsIn(session.id)
    BY DEF ReviewsIn
  <2>2. session' = RecordReview(session, review)
        /\ books' = [books EXCEPT !.changed = books.changed \/ Reviewable(session, review)]
    BY <1>3 DEF AcceptCloud
  <2> HIDE DEF review
  <2> QED BY <1>2, <2>1, <2>2, TakenInBooks
<1>4. ASSUME UNCHANGED <<session, ui, books>>
      PROVE  AccountFits(session', past'.unpaid) /\ BooksFit(session', books', disk', past')
  <2>1. past' = past
    BY <1>1, <1>4, RememberIs
  <2> QED BY <1>1, <1>2, <1>4, <2>1
<1>5. ASSUME NEW decision \in DecisionsIn(session.id), AcceptSolver(decision)
      PROVE  AccountFits(session', past'.unpaid) /\ BooksFit(session', books', disk', past')
  <2> DEFINE review == [of |-> decision, basis |-> "solver"]
  <2>1. review \in ReviewsIn(session.id)
    BY DEF ReviewsIn
  <2>2. CASE /\ Reviewable(session, review)
             /\ session' = RecordReview(session, review)
             /\ books' = [books EXCEPT !.changed = TRUE]
    <3> HIDE DEF review
    <3>1. books' = [books EXCEPT !.changed = books.changed \/ Reviewable(session, review)]
      BY <2>2
    <3> QED BY <1>2, <2>1, <2>2, <3>1, TakenInBooks
  <2> QED BY <1>4, <1>5, <2>2 DEF AcceptSolver
<1>6. CASE PollCloud
  <2>1. CASE cloud.current # Never /\ (AcceptCloud(cloud.current) \/ Failed)
    <3>1. cloud.current \in DecisionsIn(session.id)
      BY <1>1, <2>1 DEF JobsIn
    <3> QED BY <1>2, <1>3, <1>4, <2>1, <3>1 DEF BooksInv, Failed
  <2>2. ASSUME NEW i \in DOMAIN cloud.retired, AcceptCloud(cloud.retired[i]) \/ Failed
        PROVE  BooksInv'
    <3>1. cloud.retired[i] \in DecisionsIn(session.id)
      BY <1>1, TakenFits
    <3> QED BY <1>2, <1>3, <1>4, <2>2, <3>1 DEF BooksInv, Failed
  <2> QED BY <1>6, <2>1, <2>2 DEF PollCloud
<1>7. CASE PollSolver
  <2>1. CASE solvers.current # Never /\ (AcceptSolver(solvers.current) \/ Failed)
    <3>1. solvers.current \in DecisionsIn(session.id)
      BY <1>1, <2>1 DEF JobsIn
    <3> QED BY <1>2, <1>4, <1>5, <2>1, <3>1 DEF BooksInv, Failed
  <2>2. ASSUME NEW i \in DOMAIN solvers.retired, AcceptSolver(solvers.retired[i]) \/ Failed
        PROVE  BooksInv'
    <3>1. solvers.retired[i] \in DecisionsIn(session.id)
      BY <1>1, TakenFits
    <3> QED BY <1>2, <1>4, <1>5, <2>2, <3>1 DEF BooksInv, Failed
  <2> QED BY <1>7, <2>1, <2>2 DEF PollSolver
<1> QED BY <1>6, <1>7

(* A session that goes on, and books that nobody writes in. *)
LEMMA GoesOnBooks ==
  ASSUME ReviewInv, BooksInv, Grows(session, session'),
         AccountFits(session', past.unpaid + RefusedRebuy(session, session')),
         UNCHANGED <<books, disk>>, Remember, phase' = "poll"
  PROVE  BooksInv'
<1>1. /\ SessionFits(session) /\ AreBooks(books, disk) /\ IsPast(past) /\ TotalFits(books)
      /\ LogFits(session, books, disk, past) /\ ArchiveFits(session, books, disk, past)
  BY DEF ReviewInv, BooksInv, BooksFit
<1>2. LogFits(session', books, disk, past) /\ ArchiveFits(session', books, disk, past)
  BY <1>1, GrownBooks
<1>3. /\ IsPast(past') /\ past'.cash = past.cash /\ past'.hands = past.hands
      /\ past'.unpaid = past.unpaid + RefusedRebuy(session, session')
  <2>1. SessionFits(session') /\ session'.id = session.id
    BY DEF Grows
  <2> QED BY <1>1, <2>1, RememberIs
<1>4. LogFits(session', books, disk, past') /\ ArchiveFits(session', books, disk, past')
  BY <1>2, <1>3 DEF LogFits, ArchiveFits
<1>5. BooksFit(session', books, disk, past')
  BY <1>1, <1>3, <1>4 DEF BooksFit
<1>6. AccountFits(session', past'.unpaid)
  BY <1>3
<1> QED BY <1>5, <1>6 DEF BooksInv

(* The same, when nothing is logged. *)
LEMMA PlaysOnBooks ==
  ASSUME ReviewInv, BooksInv, Grows(session, session'), session'.events = session.events,
         AccountFits(session', past.unpaid), UNCHANGED <<books, disk>>, Remember, phase' = "poll"
  PROVE  BooksInv'
<1>1. past.unpaid \in Int /\ session.events \in Seq(CashEntries)
  BY MoneyTyped DEF ReviewInv, BooksInv, BooksFit, IsPast
<1>2. RefusedRebuy(session, session') = 0
  BY <1>1, NothingRefused
<1>3. past.unpaid + RefusedRebuy(session, session') = past.unpaid
  BY <1>1, <1>2
<1>4. AccountFits(session', past.unpaid + RefusedRebuy(session, session'))
  BY <1>3
<1> QED BY <1>4, GoesOnBooks

(* The bot acts, and everything is saved as far as the disk allows. *)
LEMMA IterateBooks ==
  ASSUME ReviewInv, BooksInv, Iterate, Remember PROVE BooksInv'
<1>1. /\ SessionFits(session) /\ AccountFits(session, past.unpaid) /\ AreBooks(books, disk)
      /\ IsPast(past) /\ past.unpaid \in Int /\ LogFits(session, books, disk, past)
      /\ TotalFits(books) /\ ArchiveFits(session, books, disk, past)
  BY DEF ReviewInv, BooksInv, BooksFit, IsPast
<1>2. SaveProgress(session')
  BY DEF Iterate
<1>3. AccountFits(session', past.unpaid) /\ Grows(session, session') /\ session'.events = session.events
  <2>1. CASE session' = session
    <3>1. Grows(session, session)
      BY <1>1, KeepsAll
    <3> QED BY <1>1, <2>1, <3>1
  <2>2. ASSUME CanStepBot(session), NEW outcome \in Outcomes(session), session' = StepBot(session, outcome)
        PROVE  AccountFits(session', past.unpaid) /\ Grows(session, session') /\ session'.events = session.events
    BY <1>1, <2>2, StepAccount, StepGrows
  <2> QED BY <2>1, <2>2 DEF Iterate
<1>4. BooksFit(session', books, disk, past)
  <2>1. LogFits(session', books, disk, past) /\ ArchiveFits(session', books, disk, past)
    BY <1>1, <1>3, GrownBooks
  <2> QED BY <1>1, <2>1 DEF BooksFit
<1>5. SessionFits(session') /\ session'.id = session.id /\ HandsFit(session')
  BY <1>3 DEF Grows, AccountFits, OpenAccount
<1>6. /\ BooksFit(session', books', disk', past)
      /\ books'.accounted = [hands |-> session'.completed, profit |-> session'.profit]
  BY <1>2, <1>4, <1>5, SaveBooks
<1>7. past' = past
  BY <1>1, <1>3, <1>5, RememberIs
<1> QED BY <1>3, <1>6, <1>7 DEF BooksInv

(* The learner acts. *)
LEMMA ActBooks ==
  ASSUME ReviewInv, BooksInv, Act, Remember PROVE BooksInv'
<1>1. SessionFits(session) /\ AccountFits(session, past.unpaid) /\ past.unpaid \in Int
  BY DEF ReviewInv, BooksInv, BooksFit, IsPast
<1>2. CanSubmit(session) /\ UNCHANGED <<books, disk>> /\ phase' = "poll"
  BY DEF Act, Key
<1>3. PICK outcome \in Outcomes(session) :
        session' = IF settings.pace = "Play" THEN ContinueHand(Submit(session, outcome))
                   ELSE Submit(session, outcome)
  BY DEF Act
<1>4. AccountFits(Submit(session, outcome), past.unpaid) /\ SessionFits(Submit(session, outcome))
  BY <1>1, <1>2, SubmitAccount, SubmitFits
<1>5. AccountFits(session', past.unpaid) /\ Grows(session, session') /\ session'.events = session.events
  BY <1>1, <1>3, <1>4, ContinueAccount, SubmitGrows
<1> QED BY <1>2, <1>5, PlaysOnBooks

(* The pause ends. *)
LEMMA ResumeBooks ==
  ASSUME ReviewInv, BooksInv, Resume, Remember PROVE BooksInv'
<1>1. SessionFits(session) /\ AccountFits(session, past.unpaid) /\ past.unpaid \in Int
  BY DEF ReviewInv, BooksInv, BooksFit, IsPast
<1>2. session' = ContinueHand(session) /\ UNCHANGED <<books, disk>> /\ phase' = "poll"
  BY DEF Resume, Key
<1>3. AccountFits(session', past.unpaid) /\ Grows(session, session') /\ session'.events = session.events
  BY <1>1, <1>2, ContinueAccount, ContinueGrows
<1> QED BY <1>2, <1>3, PlaysOnBooks

(* Cash, and the next hand, dealt or refused. *)
LEMMA BetweenBooks ==
  ASSUME ReviewInv, BooksInv, BetweenHands, Remember PROVE BooksInv'
<1>1. SessionFits(session) /\ AccountFits(session, past.unpaid) /\ past.unpaid \in Int
  BY DEF ReviewInv, BooksInv, BooksFit, IsPast
<1>2. Finished(session) /\ UNCHANGED <<books, disk>> /\ phase' = "poll"
  BY DEF BetweenHands, Key
<1>3. session.settled
  BY <1>1, <1>2 DEF AccountFits
<1>4. /\ AccountFits(session', past.unpaid + RefusedRebuy(session, session'))
      /\ Grows(session, session')
  <2>1. CASE session' = NextHand(session, settings.seats)
    <3> DEFINE q == NextHand(session, settings.seats)
    <3>1. /\ AccountFits(q, past.unpaid + RefusedRebuy(session, q)) /\ q.ready = session.ready
          /\ q.events = session.events \/ \E entry \in CashEntries : q.events = Append(session.events, entry)
      BY <1>1, <1>2, NextAccount
    <3>2. SessionFits(q) /\ q.id = session.id
      BY <1>1, NextHandFits
    <3>3. session' = q
      BY <2>1
    <3> HIDE DEF q
    <3> QED BY <1>1, <3>1, <3>2, <3>3, KeepsAll
  <2>2. ASSUME NEW chips \in Int, Paid(session, session', Hero, chips), StillOver(session, session')
        PROVE  /\ AccountFits(session', past.unpaid + RefusedRebuy(session, session'))
               /\ Grows(session, session')
    <3>1. AccountFits(session', past.unpaid) /\ Grows(session, session')
      BY <1>1, <1>3, <2>2, PaidAccount, PaidGrows
    <3>2. session.events \in Seq(CashEntries)
      BY <1>1, MoneyTyped
    <3>3. \/ session'.events = session.events
          \/ \E entry \in CashEntries : entry.seat = Hero /\ session'.events = Append(session.events, entry)
      BY <2>2 DEF Paid
    <3>4. RefusedRebuy(session, session') = 0
      BY <3>2, <3>3, NothingRefused
    <3>5. past.unpaid + RefusedRebuy(session, session') = past.unpaid
      BY <1>1, <3>4
    <3> QED BY <3>1, <3>5
  <2>3. CASE session' = TopUp(session)
    BY <1>1, <2>2, <2>3, TopUpPaid
  <2>4. ASSUME NEW chips \in Withdrawals, session' = Withdraw(session, chips)
        PROVE  /\ AccountFits(session', past.unpaid + RefusedRebuy(session, session'))
               /\ Grows(session, session')
    <3>1. chips \in Nat /\ -chips \in Int
      BY DeskAssumption
    <3> QED BY <1>1, <2>2, <2>4, <3>1, WithdrawPaid
  <2> QED BY <2>1, <2>3, <2>4 DEF BetweenHands
<1> QED BY <1>2, <1>4, GoesOnBooks

(* The length of what is on disk. *)
LEMMA WrittenAre ==
  ASSUME NEW T, NEW e \in Seq(T), NEW before \in Seq(T), NEW n \in Nat, Len(before) <= n,
         n = Len(before) \/ n <= Len(e)
  PROVE  LET log == before \o SubSeq(e, Len(before) + 1, n) IN log \in Seq(T) /\ Len(log) = n
<1> DEFINE m == Len(before)
           newer == SubSeq(e, m + 1, n)
<1>1. m \in Nat /\ Len(e) \in Nat
  OBVIOUS
<1>2. newer \in Seq(T)
  BY <1>1, PartTyped
<1>3. Len(newer) = n - m
  <2>1. CASE n = m
    <3>1. newer = <<>>
      BY <1>1, <2>1, NothingBetween
    <3> HIDE DEF newer
    <3> QED BY <1>1, <2>1, <3>1
  <2>2. CASE n # m
    <3>1. m + 1 <= n /\ n <= Len(e) /\ m + 1 \in 1 .. Len(e) /\ n \in (m + 1) - 1 .. Len(e)
      BY <1>1, <2>2
    <3>2. Len(newer) = n - (m + 1) + 1
      BY <3>1, SubSeqProperties
    <3> HIDE DEF newer, m
    <3> QED BY <1>1, <3>2
  <2> QED BY <2>1, <2>2
<1> HIDE DEF newer
<1>4. before \o newer \in Seq(T) /\ Len(before \o newer) = m + Len(newer)
  BY <1>2
<1>5. m + Len(newer) = n
  BY <1>1, <1>3
<1> QED BY <1>4, <1>5 DEF newer

(* The first setup: the session is begun anew, and its books are those of the old one. *)
LEMMA AnewBooks ==
  ASSUME ReviewInv, BooksInv, session' = NewSession(session.id + 1),
         books' = [books EXCEPT !.firstRun = FALSE], disk' = disk, Remember, phase' = "poll"
  PROVE  BooksInv'
<1>1. /\ SessionFits(session) /\ AreBooks(books, disk) /\ IsPast(past) /\ TotalFits(books)
      /\ LogFits(session, books, disk, past) /\ ArchiveFits(session, books, disk, past)
  BY DEF ReviewInv, BooksInv, BooksFit
<1>2. session.id \in Nat /\ session.id + 1 \in Nat
  BY <1>1 DEF SessionFits, NumbersFit
<1> DEFINE id == session.id + 1
           q == NewSession(id)
<1>3. AccountFits(q, 0) /\ SessionFits(q) /\ q.id = id
  BY <1>2, NewAccount, NewSessionFits DEF NewSession
<1>4. session' = q /\ session'.id # session.id
  BY <1>2, <1>3
<1>5. past' = [unpaid |-> 0, cash |-> disk.cash, hands |-> Len(books.snapshots)]
  BY <1>4 DEF Remember
<1> HIDE DEF q
<1>6. disk.cash \in Seq(CashEntries) /\ Len(disk.cash) = books.cash /\ books.cash \in Nat
  <2>1. /\ session.events \in Seq(CashEntries) /\ past.cash \in Seq(CashEntries) /\ books.cash \in Nat
        /\ Len(past.cash) <= books.cash
        /\ books.cash = Len(past.cash) \/ books.cash <= Len(session.events)
        /\ disk.cash = past.cash \o SubSeq(session.events, Len(past.cash) + 1, books.cash)
    BY <1>1, MoneyTyped DEF LogFits, IsPast
  <2> QED BY <2>1, WrittenAre
<1>7. books.snapshots \in Seq(FiledHands) /\ Len(books.snapshots) \in Nat
  BY <1>1 DEF ArchiveFits
<1>8. /\ past'.unpaid = 0 /\ past'.cash = disk.cash /\ past'.hands = Len(books.snapshots)
      /\ Len(past'.cash) = books.cash /\ IsPast(past')
  BY <1>5, <1>6, <1>7 DEF IsPast
<1>9. /\ AreBooks(books', disk) /\ books'.cash = books.cash /\ books'.snapshots = books.snapshots
      /\ books'.progress = books.progress /\ books'.accounted = books.accounted
  BY <1>1 DEF AreBooks
<1>10. LogFits(q, books', disk, past')
  <2>1. SubSeq(q.events, books.cash + 1, books.cash) = <<>>
    BY <1>6, NothingBetween
  <2>2. disk.cash = disk.cash \o <<>>
    BY <1>6, ConcatEmptySeq
  <2>3. books'.cash \in Nat /\ Len(past'.cash) <= books'.cash /\ books'.cash = Len(past'.cash)
    BY <1>6, <1>8, <1>9
  <2>4. disk.cash = past'.cash \o SubSeq(q.events, Len(past'.cash) + 1, books'.cash)
    BY <1>8, <1>9, <2>1, <2>2
  <2> QED BY <2>3, <2>4 DEF LogFits
<1>11. ArchiveFits(q, books', disk, past')
  <2>1. ASSUME NEW i \in DOMAIN books.snapshots
        PROVE  books.snapshots[i].session <= id /\ books.snapshots[i].session # id
    <3>1. books.snapshots[i].session <= session.id
      BY <1>1, <2>1 DEF ArchiveFits
    <3>2. books.snapshots[i].session \in Nat
      <4>1. books.snapshots[i] \in FiledHands
        BY <1>7
      <4> QED BY <1>1, <4>1, FiledTyped
    <3> QED BY <1>2, <3>1, <3>2
  <2> HIDE DEF id
  <2>2. ~(past'.hands < Len(books.snapshots)) /\ past'.hands <= Len(books.snapshots)
    BY <1>7, <1>8
  <2> QED BY <1>3, <1>7, <1>8, <1>9, <2>1, <2>2 DEF ArchiveFits
<1>12. TotalFits(books')
  BY <1>1, <1>9 DEF TotalFits
<1>13. BooksFit(session', books', disk', past') /\ AccountFits(session', past'.unpaid)
  BY <1>3, <1>4, <1>8, <1>9, <1>10, <1>11, <1>12 DEF BooksFit
<1> QED BY <1>13 DEF BooksInv

(* Settings are saved: the session goes on, or is begun anew by the first setup. *)
LEMMA SaveSettingsBooks ==
  ASSUME ReviewInv, BooksInv, SaveSettings, Remember PROVE BooksInv'
<1>1. /\ SessionFits(session) /\ AccountFits(session, past.unpaid) /\ past.unpaid \in Int
      /\ AreBooks(books, disk) /\ BooksFit(session, books, disk, past) /\ IsPast(past)
      /\ books.firstRun \in BOOLEAN
  BY DEF ReviewInv, BooksInv, BooksFit, AreBooks, IsPast
<1>2. disk' = disk /\ phase' = "poll"
  BY DEF SaveSettings, Key
<1>3. Grows(session, session)
  BY <1>1, KeepsAll
<1>4. CASE UNCHANGED <<session, settings, ui, cloud, solvers, screen, books>>
  BY <1>1, <1>2, <1>3, <1>4, PlaysOnBooks
<1>5. ASSUME NEW draft \in Drafts, ApplySettings(draft, books.firstRun),
             books' = [books EXCEPT !.firstRun = FALSE]
      PROVE  BooksInv'
  <2>1. CASE books.firstRun = FALSE
    <3>1. books' = books
      BY <1>1, <1>5, <2>1 DEF AreBooks
    <3>2. ApplySettings(draft, FALSE)
      BY <1>5, <2>1
    <3>3. session' = session \/ session' = ContinueHand(session)
      BY <3>2, ApplyIs DEF FreshSession
    <3>4. AccountFits(session', past.unpaid) /\ Grows(session, session') /\ session'.events = session.events
      BY <1>1, <1>3, <3>3, ContinueAccount, ContinueGrows
    <3> QED BY <1>2, <3>1, <3>4, PlaysOnBooks
  <2>2. CASE books.firstRun = TRUE
    <3>1. ApplySettings(draft, TRUE)
      BY <1>5, <2>2
    <3>2. FreshSession(TRUE).coaching = NoDecision /\ FreshSession(TRUE) = NewSession(session.id + 1)
      BY FreshFits DEF FreshSession
    <3>3. session' = NewSession(session.id + 1)
      BY <3>1, <3>2, ApplyIs
    <3> QED BY <1>2, <1>5, <3>3, AnewBooks
  <2> QED BY <1>1, <2>1, <2>2
<1>6. \/ UNCHANGED <<session, settings, ui, cloud, solvers, screen, books>>
      \/ \E draft \in Drafts : ApplySettings(draft, books.firstRun) /\ books' = [books EXCEPT !.firstRun = FALSE]
  BY DEF SaveSettings
<1> QED BY <1>4, <1>5, <1>6

(* Screens, keys and questions leave session and books alone. *)
LEMMA ScreensBooks ==
  ASSUME ReviewInv, BooksInv, Remember, AskAgain \/ OpenSettings \/ LeaveSettings \/ ForgetKey \/ TestKey
  PROVE  BooksInv'
<1>1. UNCHANGED <<session, books, disk>> /\ phase' = "poll"
  BY DEF AskAgain, OpenSettings, LeaveSettings, ForgetKey, TestKey, Key
<1>2. SessionFits(session) /\ AccountFits(session, past.unpaid)
  BY DEF ReviewInv, BooksInv
<1>3. Grows(session, session)
  BY <1>2, KeepsAll
<1> QED BY <1>1, <1>2, <1>3, PlaysOnBooks

(* Every step keeps the invariant. *)
LEMMA BooksStep ==
  ASSUME ReviewInv, BooksInv, [DeskNext]_deskVars PROVE BooksInv'
<1>1. CASE UNCHANGED deskVars
  BY <1>1 DEF BooksInv, deskVars
<1>2. CASE DeskNext
  <2>1. Remember
    BY <1>2 DEF DeskNext
  <2>2. CASE PollCloud \/ PollSolver BY <2>1, <2>2, PollBooks
  <2>3. CASE Iterate BY <2>1, <2>3, IterateBooks
  <2>4. CASE Act BY <2>1, <2>4, ActBooks
  <2>5. CASE Resume BY <2>1, <2>5, ResumeBooks
  <2>6. CASE BetweenHands BY <2>1, <2>6, BetweenBooks
  <2>7. CASE SaveSettings BY <2>1, <2>7, SaveSettingsBooks
  <2>8. CASE AskAgain \/ OpenSettings \/ LeaveSettings \/ ForgetKey \/ TestKey
    BY <2>1, <2>8, ScreensBooks
  <2> QED BY <1>2, <2>2, <2>3, <2>4, <2>5, <2>6, <2>7, <2>8 DEF DeskNext
<1> QED BY <1>1, <1>2

(* What the invariant says of chips, log, totals and archive. *)
LEMMA BooksFollow ==
  ASSUME ReviewInv, BooksInv PROVE BooksBalance
<1>1. /\ AccountFits(session, past.unpaid) /\ LogFits(session, books, disk, past) /\ TotalFits(books)
      /\ ArchiveFits(session, books, disk, past) /\ SessionFits(session) /\ IsPast(past)
      /\ phase = "key" => books.accounted = [hands |-> session.completed, profit |-> session.profit]
  BY DEF ReviewInv, BooksInv, BooksFit
<1>2. Finished(session) =>
       /\ session.stack[Hero] = BuyIn + session.profit + CashOf(session, {Hero})
       /\ session.stack[Hero] + session.stack[Bot] + past.unpaid = 2 * BuyIn + CashOf(session, Chairs)
  BY <1>1 DEF AccountFits, OpenAccount, MoneyFits
<1>3. disk.cash = past.cash \o SubSeq(session.events, Len(past.cash) + 1, books.cash)
  BY <1>1 DEF LogFits
<1>4. phase = "key" => books.progress = [hands |-> session.completed, profit |-> session.profit]
  BY <1>1 DEF TotalFits
<1>5. ASSUME ~books.changed, Len(books.snapshots) = Len(session.ready), Len(session.ready) # past.hands,
             NEW i \in DOMAIN session.ready
      PROVE  LET key == <<session.id, session.ready[i].hand>>
             IN  key \in DOMAIN disk.archive /\ disk.archive[key] = session.ready[i].decisions
  <2>1. /\ books.snapshots \in Seq(FiledHands)
        /\ past.hands \in Nat /\ past.hands <= Len(books.snapshots) /\ Len(books.snapshots) \in Nat
    BY <1>1 DEF ArchiveFits, IsPast
  <2>2. past.hands < Len(books.snapshots)
    BY <1>5, <2>1
  <2>3. i \in DOMAIN books.snapshots
    <3>1. DOMAIN session.ready = 1 .. Len(session.ready)
      BY <1>1, MoneyTyped
    <3>2. DOMAIN books.snapshots = 1 .. Len(books.snapshots)
      BY <2>1
    <3> QED BY <1>5, <3>1, <3>2
  <2>4. Filed(session, books, disk, i)
    BY <1>1, <2>2, <2>3 DEF ArchiveFits
  <2> QED BY <1>5, <2>4 DEF Filed, KeyOf
<1> QED BY <1>2, <1>3, <1>4, <1>5 DEF BooksBalance

(* No chip, hand or entry is lost or repeated between the table, the ledger and the
   disk, whatever fails and whenever a review comes late, with the two exceptions
   that BooksBalance names: for every setting a learner may save, two seats or not,
   and for a first start as for any other (src/trainer/mod.rs settle, top_up,
   withdraw, next_hand; src/trainer/tui.rs save_progress, apply_saved_settings). *)
THEOREM BooksAlwaysBalance == DeskSpec => []BooksBalance
<1>1. DeskInit => ReviewInv /\ BooksInv
  BY ReviewStart, BooksStart
<1>2. ReviewInv /\ BooksInv /\ [DeskNext]_deskVars => ReviewInv' /\ BooksInv'
  BY ReviewStep, BooksStep
<1>3. ReviewInv /\ BooksInv => BooksBalance
  BY BooksFollow
<1> QED BY <1>1, <1>2, <1>3, PTL DEF DeskSpec

-----------------------------------------------------------------------------
(* The cloud coach: what its variables range over. *)

CoachModes == {"Local"} \cup Providers
ApiKeys == [for : CoachModes, sound : BOOLEAN]
PossibleKeys == ApiKeys \cup {NoKey}
KeyLookups == [key : PossibleKeys, fault : BOOLEAN]
Calls == [kind : {"coach", "test"}, provider : Providers, key : ApiKeys, bytes : Nat,
          phase : {"started", "waiting", "answered"}, sent : BOOLEAN,
          held : {"current", "retired", "dropped", "done"}, answer : SUBSET ProviderReplies]

(* A key entered for p, and a review that may be shown. *)
Owned(k, p) == k # NoKey => k.for = p
Truthful(reply) == reply.leak = "no" /\ reply.echo /\ Possible(reply.alternative)

(* The computer does not change. *)
TermsFit ==
  /\ terms.budget \in Nat /\ terms.mac \in BOOLEAN
  /\ \A p \in Providers : terms.env[p] \in PossibleKeys /\ Owned(terms.env[p], p)

(* Whatever holds a key holds it for the provider it was entered for: the  *)
(* stores, the lookups that are remembered, and the editor.                *)
KeysFit ==
  /\ vault \in [Providers -> [protected : PossibleKeys, login : PossibleKeys]]
  /\ \A p \in Providers : Owned(vault[p].protected, p) /\ Owned(vault[p].login, p)
  /\ memo \in [Providers -> KeyLookups \cup {Unasked}]
  /\ \A p \in Providers : memo[p] # Unasked => Owned(memo[p].key, p)
  /\ editor \in [open : BOOLEAN, mode : CoachModes, typed : PossibleKeys, forget : BOOLEAN,
                 test : BOOLEAN, edits : Nat]
  /\ Owned(editor.typed, editor.mode)
  /\ coach \in CoachModes

(* A call has the key of its provider; what was reserved is the sum over   *)
(* all calls ever begun, whatever became of them.                          *)
ReservedFor == [i \in DOMAIN calls |-> Reserve(calls[i].bytes)]
CallsFit ==
  /\ calls \in Seq(Calls)
  /\ \A i \in DOMAIN calls : calls[i].key.for = calls[i].provider
  /\ \A i \in DOMAIN calls : \A reply \in calls[i].answer : Truthful(reply)
  /\ \A reply \in advice : Truthful(reply)
  /\ usage \in [requests : Nat, reserved : Nat]
  /\ usage.reserved = SumFunction(ReservedFor)
  /\ terms.budget # 0 => usage.reserved <= terms.budget

CloudInv == TermsFit /\ KeysFit /\ CallsFit

-----------------------------------------------------------------------------
(* Before the first call nothing is reserved. *)
LEMMA CloudStart ==
  ASSUME CloudInit PROVE CloudInv
<1>1. PICK c \in Computers :
        terms = [budget |-> c.budget, mac |-> c.mac, legal |-> c.legal,
                 env |-> [p \in Providers |-> IF p \in c.env THEN ApiKey(p, TRUE) ELSE NoKey]]
  BY DEF CloudInit
<1>2. \A p \in CoachModes, sound \in BOOLEAN : ApiKey(p, sound) \in ApiKeys /\ ApiKey(p, sound).for = p
  BY DEF ApiKeys, ApiKey
<1>3. TermsFit
  <2>1. terms.budget = c.budget /\ terms.mac = c.mac
        /\ \A p \in Providers : terms.env[p] = IF p \in c.env THEN ApiKey(p, TRUE) ELSE NoKey
    BY <1>1
  <2> QED BY <1>2, <2>1, CloudAssumption DEF TermsFit, Owned, PossibleKeys, CoachModes
<1>4. KeysFit
  <2>1. coach = "Openai" /\ memo = NoMemo /\ editor = Plain
        /\ vault = [p \in Providers |-> [protected |-> NoKey,
                                         login |-> IF p = coach THEN ApiKey(p, TRUE) ELSE NoKey]]
    BY DEF CloudInit
  <2>2. \A p \in Providers : vault[p] = [protected |-> NoKey, login |-> IF p = coach THEN ApiKey(p, TRUE) ELSE NoKey]
    BY <2>1
  <2>3. \A p \in Providers :
          /\ vault[p] \in [protected : PossibleKeys, login : PossibleKeys]
          /\ Owned(vault[p].protected, p) /\ Owned(vault[p].login, p)
    <3> SUFFICES ASSUME NEW p \in Providers
                 PROVE  /\ vault[p] \in [protected : PossibleKeys, login : PossibleKeys]
                        /\ Owned(vault[p].protected, p) /\ Owned(vault[p].login, p)
      OBVIOUS
    <3>1. PICK k \in PossibleKeys : vault[p] = [protected |-> NoKey, login |-> k] /\ Owned(k, p)
      BY <1>2, <2>2 DEF PossibleKeys, Owned, CoachModes
    <3> QED BY <3>1 DEF PossibleKeys, Owned
  <2>4. vault \in [Providers -> [protected : PossibleKeys, login : PossibleKeys]]
    BY <2>1, <2>3
  <2>5. memo \in [Providers -> KeyLookups \cup {Unasked}] /\ \A p \in Providers : memo[p] = Unasked
    BY <2>1 DEF NoMemo
  <2>6. /\ editor \in [open : BOOLEAN, mode : CoachModes, typed : PossibleKeys, forget : BOOLEAN,
                       test : BOOLEAN, edits : Nat]
        /\ Owned(editor.typed, editor.mode)
    BY <2>1 DEF Plain, CoachModes, PossibleKeys, Owned
  <2> QED BY <2>1, <2>3, <2>4, <2>5, <2>6 DEF KeysFit, CoachModes, Providers
<1>5. CallsFit
  <2>1. calls = <<>> /\ advice = {} /\ usage = [requests |-> 0, reserved |-> 0]
    BY DEF CloudInit
  <2>2. DOMAIN calls = {} /\ DOMAIN ReservedFor = {}
    BY <2>1 DEF ReservedFor
  <2>3. SumFunction(ReservedFor) = 0
    BY <2>2, SumOfNone DEF SumFunction
  <2>4. calls \in Seq(Calls)
    BY <2>1
  <2> QED BY <1>3, <2>1, <2>2, <2>3, <2>4 DEF CallsFit, TermsFit
<1> QED BY <1>3, <1>4, <1>5 DEF CloudInv

(* A request costs a number, and a bill no more than what was reserved. *)
LEMMA ReserveEnough ==
  ASSUME TermsFit
  PROVE  /\ \A bytes \in Nat : Reserve(bytes) \in Nat
         /\ \A job \in Calls : Bill(job) \in Nat /\ Bill(job) <= Reserve(job.bytes)
<1>1. \A job \in Calls : job.bytes \in Nat
  BY DEF Calls
<1> QED BY <1>1, CloudAssumption DEF TermsFit, Reserve, Bill

(* What is found for a provider is a key of that provider or none. *)
LEMMA FoundOwned ==
  ASSUME TermsFit, KeysFit, NEW p \in Providers, NEW found \in Resolved(p)
  PROVE  found \in KeyLookups /\ Owned(found.key, p)
<1>1. \A k \in PossibleKeys : Found(k) \in KeyLookups /\ Found(k).key = k
  BY DEF Found, KeyLookups
<1>2. Unreadable \in KeyLookups /\ Owned(Unreadable.key, p)
  BY DEF Unreadable, KeyLookups, Owned, PossibleKeys
<1>3. /\ vault[p].login \in PossibleKeys /\ Owned(vault[p].login, p)
      /\ vault[p].protected \in PossibleKeys /\ Owned(vault[p].protected, p)
      /\ terms.env[p] \in PossibleKeys /\ Owned(terms.env[p], p)
  BY DEF KeysFit, TermsFit
<1>4. CASE memo[p] # Unasked
  <2>1. found = memo[p]
    BY <1>4 DEF Resolved
  <2> QED BY <1>4, <2>1 DEF KeysFit
<1>5. CASE memo[p] = Unasked
  <2>1. found \in Lookup(p)
    BY <1>5 DEF Resolved
  <2>2. \/ found = Found(terms.env[p]) \/ found = Found(vault[p].login)
        \/ found = Found(vault[p].protected) \/ found = Unreadable
    BY <2>1 DEF Lookup, Stored, ReadLogin
  <2> QED BY <1>1, <1>2, <1>3, <2>2
<1> QED BY <1>4, <1>5

(* A step that only changes how far the calls are keeps what is reserved. *)
LEMMA CallsKept ==
  ASSUME CloudInv, terms' = terms, usage' = usage, calls' \in Seq(Calls), DOMAIN calls' = DOMAIN calls,
         \A i \in DOMAIN calls :
           /\ calls'[i].provider = calls[i].provider /\ calls'[i].key = calls[i].key
           /\ calls'[i].bytes = calls[i].bytes
           /\ \A reply \in calls'[i].answer : Truthful(reply),
         \A reply \in advice' : Truthful(reply)
  PROVE  CallsFit'
<1>1. \A reply : Truthful(reply)' <=> Truthful(reply)
  BY DEF Truthful, Possible
<1>2. ReservedFor' = ReservedFor
  <2>1. \A i \in DOMAIN calls : Reserve(calls[i].bytes)' = Reserve(calls[i].bytes)
    BY DEF Reserve
  <2> QED BY <2>1 DEF ReservedFor
<1>3. SumFunction(ReservedFor)' = SumFunction(ReservedFor)
  BY <1>2
<1> QED BY <1>1, <1>3 DEF CloudInv, CallsFit

(* A call is begun: what it may cost is added to what is reserved. *)
LEMMA CallBegun ==
  ASSUME CloudInv, terms' = terms, advice' = advice, NEW kind \in {"coach", "test"}, NEW p \in Providers,
         NEW k \in ApiKeys, k.for = p, NEW bytes \in Nat, Affordable(bytes), Begin(kind, p, k, bytes)
  PROVE  CallsFit'
<1> DEFINE call == [kind |-> kind, provider |-> p, key |-> k, bytes |-> bytes, phase |-> "started",
                    sent |-> FALSE, held |-> "current", answer |-> {}]
           n == Len(calls)
<1>1. calls' = Append(calls, call)
      /\ usage' = [requests |-> usage.requests + 1, reserved |-> usage.reserved + Reserve(bytes)]
  BY DEF Begin
<1>2. /\ calls \in Seq(Calls) /\ n \in Nat /\ DOMAIN calls = 1 .. n
      /\ usage \in [requests : Nat, reserved : Nat] /\ usage.reserved = SumFunction(ReservedFor)
  BY DEF CloudInv, CallsFit
<1>3. call \in Calls
  BY DEF Calls
<1>4. /\ calls' \in Seq(Calls) /\ DOMAIN calls' = 1 .. n + 1
      /\ \A i \in 1 .. n : calls'[i] = calls[i]
      /\ calls'[n + 1] = call
  <2> HIDE DEF call
  <2> QED BY <1>1, <1>2, <1>3
<1>5. Reserve(bytes) \in Nat /\ \A i \in DOMAIN calls : Reserve(calls[i].bytes) \in Nat
  <2>0. \A i \in DOMAIN calls : calls[i] \in Calls
    BY <1>2
  <2>1. \A i \in DOMAIN calls : calls[i].bytes \in Nat
    BY <2>0 DEF Calls
  <2> QED BY <2>1, ReserveEnough DEF CloudInv
<1>6. \A b : Reserve(b)' = Reserve(b)
  BY DEF Reserve
<1> HIDE DEF call
<1>7. SumFunction(ReservedFor)' = SumFunction(ReservedFor) + Reserve(bytes)
  <2> DEFINE f == [i \in DOMAIN calls' |-> Reserve(calls'[i].bytes)]
  <2>1. ReservedFor' = f
    BY <1>6 DEF ReservedFor
  <2>2. /\ DOMAIN f = 1 .. n + 1 /\ f[n + 1] = Reserve(bytes)
        /\ \A i \in 1 .. n : f[i] = ReservedFor[i]
        /\ DOMAIN ReservedFor = 1 .. n
    BY <1>2, <1>4 DEF ReservedFor, call
  <2>3. \A i \in 1 .. n + 1 : f[i] \in Int
    BY <1>2, <1>4, <1>5 DEF call
  <2> HIDE DEF f
  <2>4. IsFiniteSet(1 .. n + 1) /\ IsFiniteSet(1 .. n) /\ n + 1 \in 1 .. n + 1
        /\ (1 .. n + 1) \ {n + 1} = 1 .. n
    <3> HIDE DEF n
    <3>1. n \in Int /\ n + 1 \in Int /\ 1 \in Int
      BY <1>2
    <3>2. IsFiniteSet(1 .. n + 1) /\ IsFiniteSet(1 .. n)
      BY <3>1, FS_Interval
    <3> QED BY <1>2, <3>2
  <2>5. SumFunctionOnSet(f, 1 .. n + 1) = f[n + 1] + SumFunctionOnSet(f, (1 .. n + 1) \ {n + 1})
    BY <2>3, <2>4, SumWithout
  <2>6. SumFunctionOnSet(f, 1 .. n) = SumFunctionOnSet(ReservedFor, 1 .. n)
    BY <2>2, <2>4, SumSame
  <2>7. SumFunctionOnSet(ReservedFor, 1 .. n) \in Int
    <3>1. \A i \in 1 .. n : ReservedFor[i] \in Int
      BY <1>2, <1>5 DEF ReservedFor
    <3> QED BY <3>1, <2>4, SumIsInt
  <2>8. SumFunction(f) = SumFunctionOnSet(f, 1 .. n + 1)
        /\ SumFunction(ReservedFor) = SumFunctionOnSet(ReservedFor, 1 .. n)
    BY <2>2 DEF SumFunction
  <2>9. SumFunction(ReservedFor)' = SumFunction(f)
    BY <2>1
  <2>10. SumFunctionOnSet(f, 1 .. n + 1) = Reserve(bytes) + SumFunctionOnSet(ReservedFor, 1 .. n)
    BY <2>2, <2>4, <2>5, <2>6
  <2> HIDE DEF n
  <2> QED BY <1>5, <2>7, <2>8, <2>9, <2>10
<1>8. usage' \in [requests : Nat, reserved : Nat] /\ usage'.reserved = SumFunction(ReservedFor)'
  BY <1>1, <1>2, <1>5, <1>7
<1>9. terms'.budget # 0 => usage'.reserved <= terms'.budget
  BY <1>1 DEF Affordable
<1>10. \A reply : Truthful(reply)' <=> Truthful(reply)
  BY DEF Truthful, Possible
<1>11. \A i \in 1 .. n + 1 : calls'[i].key.for = calls'[i].provider
  <2>1. \A i \in 1 .. n : calls[i].key.for = calls[i].provider
    BY <1>2 DEF CloudInv, CallsFit
  <2> QED BY <1>2, <1>4, <2>1 DEF call
<1>12. \A i \in 1 .. n + 1 : \A reply \in calls'[i].answer : Truthful(reply)
  <2>1. \A i \in 1 .. n : \A reply \in calls[i].answer : Truthful(reply)
    BY <1>2 DEF CloudInv, CallsFit
  <2>2. call.answer = {}
    BY DEF call
  <2> QED BY <1>2, <1>4, <2>1, <2>2
<1>13. \A reply \in advice' : Truthful(reply)
  BY DEF CloudInv, CallsFit
<1> QED BY <1>4, <1>8, <1>9, <1>10, <1>11, <1>12, <1>13 DEF CallsFit

(* One call gets further. *)
LEMMA OneCallMoves ==
  ASSUME CloudInv, terms' = terms, usage' = usage, NEW i \in DOMAIN calls, NEW job \in Calls,
         job.provider = calls[i].provider, job.key = calls[i].key, job.bytes = calls[i].bytes,
         \A reply \in job.answer : Truthful(reply), calls' = [calls EXCEPT ![i] = job],
         \A reply \in advice' : Truthful(reply)
  PROVE  CallsFit'
<1>1. calls \in Seq(Calls) /\ \A j \in DOMAIN calls : \A reply \in calls[j].answer : Truthful(reply)
  BY DEF CloudInv, CallsFit
<1>2. calls' \in Seq(Calls) /\ DOMAIN calls' = DOMAIN calls
      /\ calls'[i] = job /\ \A j \in DOMAIN calls : j # i => calls'[j] = calls[j]
  BY <1>1
<1>3. ASSUME NEW j \in DOMAIN calls
      PROVE  /\ calls'[j].provider = calls[j].provider /\ calls'[j].key = calls[j].key
             /\ calls'[j].bytes = calls[j].bytes
             /\ \A reply \in calls'[j].answer : Truthful(reply)
  BY <1>1, <1>2
<1> QED BY <1>2, <1>3, CallsKept

(* Calls are told to stop. *)
LEMMA CallsDropped ==
  ASSUME CloudInv, terms' = terms, usage' = usage, advice' = advice, NEW which,
         calls' = DroppedAll(calls, which)
  PROVE  CallsFit'
<1>1. /\ calls \in Seq(Calls) /\ \A j \in DOMAIN calls : \A reply \in calls[j].answer : Truthful(reply)
      /\ \A reply \in advice : Truthful(reply)
  BY DEF CloudInv, CallsFit
<1>2. DOMAIN calls' = DOMAIN calls
      /\ \A j \in DOMAIN calls : calls'[j] \in {calls[j], [calls[j] EXCEPT !.held = "dropped"]}
  BY DEF DroppedAll
<1>3. \A j \in DOMAIN calls : calls'[j] \in Calls
  <2>1. \A c \in Calls : [c EXCEPT !.held = "dropped"] \in Calls
    BY DEF Calls
  <2> QED BY <1>1, <1>2, <2>1
<1>4. calls' \in Seq(Calls)
  <2>1. DOMAIN calls' = 1 .. Len(calls) /\ Len(calls) \in Nat
    BY <1>1, <1>2
  <2>2. calls' = [j \in 1 .. Len(calls) |-> calls'[j]]
    BY <2>1 DEF DroppedAll
  <2> QED BY <1>3, <2>1, <2>2
<1>5. ASSUME NEW j \in DOMAIN calls
      PROVE  /\ calls'[j].provider = calls[j].provider /\ calls'[j].key = calls[j].key
             /\ calls'[j].bytes = calls[j].bytes
             /\ \A reply \in calls'[j].answer : Truthful(reply)
  <2>1. calls[j] \in Calls
    BY <1>1
  <2>2. LET c == [calls[j] EXCEPT !.held = "dropped"]
        IN  c.provider = calls[j].provider /\ c.key = calls[j].key /\ c.bytes = calls[j].bytes
            /\ c.answer = calls[j].answer
    BY <2>1 DEF Calls
  <2> QED BY <1>1, <1>2, <2>2
<1> QED BY <1>1, <1>2, <1>4, <1>5, CallsKept

(* The computer is as it was. *)
LEMMA TermsStay ==
  ASSUME CloudInv, terms' = terms PROVE TermsFit'
BY DEF CloudInv, TermsFit
(* So are the keys, when no store, lookup or editor changes. *)
LEMMA KeysStay ==
  ASSUME CloudInv, vault' = vault, memo' = memo, editor' = editor, coach' = coach PROVE KeysFit'
BY DEF CloudInv, KeysFit

(* A worker sends, fails, is answered or sees that it was cancelled, and its answer is taken. *)
LEMMA WorkersKeepTerms ==
  ASSUME CloudInv, NEW i \in DOMAIN calls,
         \/ SendRequest(i) \/ WorkFails(i) \/ Cancelled(i) \/ Poll(i)
         \/ \E reply \in ProviderReplies : Respond(i, reply)
  PROVE  CloudInv'
<1>1. calls[i] \in Calls /\ \A reply \in calls[i].answer : Truthful(reply)
  BY DEF CloudInv, CallsFit
<1>2. terms' = terms /\ vault' = vault /\ memo' = memo /\ editor' = editor /\ coach' = coach /\ usage' = usage
  BY DEF SendRequest, WorkFails, Cancelled, Poll, Respond
<1>3. \A reply \in advice : Truthful(reply)
  BY DEF CloudInv, CallsFit
<1>4. \E job \in Calls :
        /\ calls' = [calls EXCEPT ![i] = job]
        /\ job.provider = calls[i].provider /\ job.key = calls[i].key /\ job.bytes = calls[i].bytes
        /\ \A reply \in job.answer : Truthful(reply)
  <2>1. CASE SendRequest(i)
    <3> DEFINE job == [calls[i] EXCEPT !.phase = "waiting", !.sent = TRUE]
    <3>1. /\ job \in Calls /\ job.provider = calls[i].provider /\ job.key = calls[i].key
          /\ job.bytes = calls[i].bytes /\ job.answer = calls[i].answer
      BY <1>1 DEF Calls
    <3>2. calls' = [calls EXCEPT ![i] = job]
      BY <2>1 DEF SendRequest, Set
    <3> QED BY <1>1, <3>1, <3>2
  <2>2. CASE WorkFails(i)
    <3> DEFINE job == [calls[i] EXCEPT !.phase = "answered"]
    <3>1. /\ job \in Calls /\ job.provider = calls[i].provider /\ job.key = calls[i].key
          /\ job.bytes = calls[i].bytes /\ job.answer = calls[i].answer
      BY <1>1 DEF Calls
    <3>2. calls' = [calls EXCEPT ![i] = job]
      BY <2>2 DEF WorkFails, Set
    <3> QED BY <1>1, <3>1, <3>2
  <2>3. CASE Cancelled(i)
    <3> DEFINE job == [calls[i] EXCEPT !.phase = "answered", !.held = "done", !.answer = {}]
    <3>1. /\ job \in Calls /\ job.provider = calls[i].provider /\ job.key = calls[i].key
          /\ job.bytes = calls[i].bytes /\ job.answer = {}
      BY <1>1 DEF Calls
    <3>2. calls' = [calls EXCEPT ![i] = job]
      BY <2>3 DEF Cancelled, Set
    <3> QED BY <1>1, <3>1, <3>2
  <2>4. CASE Poll(i)
    <3> DEFINE job == [calls[i] EXCEPT !.held = "done", !.answer = {}]
    <3>1. /\ job \in Calls /\ job.provider = calls[i].provider /\ job.key = calls[i].key
          /\ job.bytes = calls[i].bytes /\ job.answer = {}
      BY <1>1 DEF Calls
    <3>2. calls' = [calls EXCEPT ![i] = job]
      BY <2>4 DEF Poll, Set
    <3> QED BY <1>1, <3>1, <3>2
  <2>5. ASSUME NEW reply \in ProviderReplies, Respond(i, reply)
        PROVE  \E job \in Calls :
                 /\ calls' = [calls EXCEPT ![i] = job]
                 /\ job.provider = calls[i].provider /\ job.key = calls[i].key /\ job.bytes = calls[i].bytes
                 /\ \A r \in job.answer : Truthful(r)
    <3> DEFINE through == calls[i].kind = "coach" /\ Accepted(reply, calls[i].provider)
               answer == IF through THEN {reply} ELSE {}
               job == [calls[i] EXCEPT !.phase = "answered", !.answer = answer]
    <3>1. calls' = [calls EXCEPT ![i] = job]
      BY <2>5 DEF Respond, Set
    <3>2. Accepted(reply, calls[i].provider) => Truthful(reply)
      <4>1. reply.leak \in {"no", "plain", "escaped"}
        BY CloudAssumption
      <4> QED BY <4>1 DEF Accepted, Decodable, Clean, Valid, Truthful
    <3>3. answer \subseteq ProviderReplies /\ \A r \in answer : Truthful(r)
      BY <3>2
    <3> HIDE DEF answer
    <3>4. /\ job \in Calls /\ job.provider = calls[i].provider /\ job.key = calls[i].key
          /\ job.bytes = calls[i].bytes /\ job.answer = answer
      BY <1>1, <3>3 DEF Calls
    <3> QED BY <3>1, <3>3, <3>4
  <2> QED BY <2>1, <2>2, <2>3, <2>4, <2>5
<1>5. advice' = advice \/ advice' = calls[i].answer
  BY DEF SendRequest, WorkFails, Cancelled, Poll, Respond
<1>6. \A reply \in advice' : Truthful(reply)
  BY <1>1, <1>3, <1>5
<1>7. CallsFit'
  BY <1>2, <1>4, <1>6, OneCallMoves
<1> QED BY <1>2, <1>7, TermsStay, KeysStay DEF CloudInv

(* The next decision: the request goes on in the background. *)
LEMMA RetireKeepsTerms ==
  ASSUME CloudInv, RetireCoach PROVE CloudInv'
<1>1. PICK i \in CurrentCalls("coach") : calls' = [calls EXCEPT ![i] = [calls[i] EXCEPT !.held = "retired"]]
  BY DEF RetireCoach, Set
<1>2. i \in DOMAIN calls
  BY DEF CurrentCalls
<1>3. calls[i] \in Calls /\ (\A reply \in calls[i].answer : Truthful(reply)) /\ \A reply \in advice : Truthful(reply)
  BY <1>2 DEF CloudInv, CallsFit
<1>4. terms' = terms /\ vault' = vault /\ memo' = memo /\ editor' = editor /\ coach' = coach
      /\ usage' = usage /\ advice' = advice
  BY DEF RetireCoach
<1> DEFINE job == [calls[i] EXCEPT !.held = "retired"]
<1>5. /\ job \in Calls /\ job.provider = calls[i].provider /\ job.key = calls[i].key
      /\ job.bytes = calls[i].bytes /\ job.answer = calls[i].answer
  BY <1>3 DEF Calls
<1>6. calls' = [calls EXCEPT ![i] = job]
  BY <1>1
<1> HIDE DEF job
<1>7. CallsFit'
  BY <1>2, <1>3, <1>4, <1>5, <1>6, OneCallMoves
<1> QED BY <1>4, <1>7, TermsStay, KeysStay DEF CloudInv

(* A lookup is remembered. *)
LEMMA MemoFits ==
  ASSUME CloudInv, NEW p \in Providers, NEW found \in Resolved(p), memo' = Remembered(p, found),
         vault' = vault, coach' = coach,
         editor' \in [open : BOOLEAN, mode : CoachModes, typed : PossibleKeys, forget : BOOLEAN,
                      test : BOOLEAN, edits : Nat],
         editor'.typed = editor.typed, editor'.mode = editor.mode
  PROVE  KeysFit'
<1>1. found \in KeyLookups /\ Owned(found.key, p)
  BY FoundOwned DEF CloudInv
<1>2. /\ memo \in [Providers -> KeyLookups \cup {Unasked}]
      /\ \A q \in Providers : memo[q] # Unasked => Owned(memo[q].key, q)
  BY DEF CloudInv, KeysFit
<1>3. /\ memo' \in [Providers -> KeyLookups \cup {Unasked}]
      /\ \A q \in Providers : memo'[q] = IF q = p THEN found ELSE memo[q]
  BY <1>1, <1>2 DEF Remembered
<1>4. \A q \in Providers : memo'[q] # Unasked => Owned(memo'[q].key, q)
  BY <1>1, <1>2, <1>3
<1> QED BY <1>3, <1>4 DEF CloudInv, KeysFit

(* The table asks. *)
LEMMA AskKeepsTerms ==
  ASSUME CloudInv, NEW bytes \in Bodies, AskCoach(bytes) PROVE CloudInv'
<1>1. /\ terms' = terms /\ vault' = vault /\ editor' = editor /\ coach' = coach /\ advice' = advice
      /\ coach \in Providers
  BY DEF AskCoach
<1>2. PICK found \in Resolved(coach) :
        /\ memo' = Remembered(coach, found)
        /\ IF found.key # NoKey /\ found.key.sound /\ bytes <= BodyLimit /\ Affordable(bytes)
           THEN Begin("coach", coach, found.key, bytes) ELSE UNCHANGED <<usage, calls>>
  BY DEF AskCoach
<1>3. found \in KeyLookups /\ Owned(found.key, coach)
  BY <1>1, FoundOwned DEF CloudInv
<1>4. KeysFit'
  <2>1. editor \in [open : BOOLEAN, mode : CoachModes, typed : PossibleKeys, forget : BOOLEAN,
                    test : BOOLEAN, edits : Nat]
    BY DEF CloudInv, KeysFit
  <2> QED BY <1>1, <1>2, <2>1, MemoFits
<1>5. CallsFit'
  <2>1. CASE found.key # NoKey /\ found.key.sound /\ bytes <= BodyLimit /\ Affordable(bytes)
    <3>1. found.key \in ApiKeys /\ found.key.for = coach /\ bytes \in Nat
      BY <1>3, <2>1, CloudAssumption DEF KeyLookups, PossibleKeys, Owned
    <3> QED BY <1>1, <1>2, <2>1, <3>1, CallBegun
  <2>2. CASE ~(found.key # NoKey /\ found.key.sound /\ bytes <= BodyLimit /\ Affordable(bytes))
    <3>1. usage' = usage /\ calls' = calls
      BY <1>2, <2>2
    <3>2. calls \in Seq(Calls) /\ (\A i \in DOMAIN calls : \A reply \in calls[i].answer : Truthful(reply))
          /\ \A reply \in advice : Truthful(reply)
      BY DEF CloudInv, CallsFit
    <3> QED BY <1>1, <3>1, <3>2, CallsKept
  <2> QED BY <2>1, <2>2
<1> QED BY <1>1, <1>4, <1>5, TermsStay DEF CloudInv

EditorStates == [open : BOOLEAN, mode : CoachModes, typed : PossibleKeys, forget : BOOLEAN,
                 test : BOOLEAN, edits : Nat]

EditorWith(open, mode, typed, forget, test, edits) ==
  [open |-> open, mode |-> mode, typed |-> typed, forget |-> forget, test |-> test, edits |-> edits]

(* The fields of the editor range over what they should. *)
LEMMA EditorParts ==
  ASSUME editor \in EditorStates
  PROVE  /\ editor.open \in BOOLEAN /\ editor.mode \in CoachModes /\ editor.typed \in PossibleKeys
         /\ editor.forget \in BOOLEAN /\ (~editor.forget) \in BOOLEAN /\ editor.test \in BOOLEAN
         /\ FALSE \in BOOLEAN /\ editor.edits \in Nat /\ editor.edits + 1 \in Nat
BY DEF EditorStates

(* A step without calls keeps what is reserved. *)
LEMMA CallsStay ==
  ASSUME CloudInv, terms' = terms, usage' = usage, calls' = calls, advice' = advice PROVE CallsFit'
<1>1. calls \in Seq(Calls) /\ (\A i \in DOMAIN calls : \A reply \in calls[i].answer : Truthful(reply))
      /\ \A reply \in advice : Truthful(reply)
  BY DEF CloudInv, CallsFit
<1> QED BY <1>1, CallsKept

(* The editor changes with the stores as they are. *)
LEMMA EditorFits ==
  ASSUME CloudInv, vault' = vault, memo' = memo \/ memo' = NoMemo, coach' = coach,
         editor' \in EditorStates, Owned(editor'.typed, editor'.mode)
  PROVE  KeysFit'
<1>1. /\ NoMemo \in [Providers -> KeyLookups \cup {Unasked}]
      /\ \A q \in Providers : NoMemo[q] = Unasked
  BY DEF NoMemo
<1>2. /\ memo \in [Providers -> KeyLookups \cup {Unasked}]
      /\ \A q \in Providers : memo[q] # Unasked => Owned(memo[q].key, q)
  BY DEF CloudInv, KeysFit
<1>3. /\ memo' \in [Providers -> KeyLookups \cup {Unasked}]
      /\ \A q \in Providers : memo'[q] # Unasked => Owned(memo'[q].key, q)
  <2>1. CASE memo' = memo BY <1>2, <2>1
  <2>2. CASE memo' = NoMemo BY <1>1, <2>2
  <2> QED BY <2>1, <2>2
<1> QED BY <1>3 DEF CloudInv, KeysFit, EditorStates

(* The editor opens, or closes and drops a key test. *)
LEMMA OpeningKeepsTerms ==
  ASSUME CloudInv, EditSettings \/ LeaveEditor PROVE CloudInv'
<1>1. editor \in EditorStates /\ Owned(editor.typed, editor.mode) /\ coach \in CoachModes
  BY DEF CloudInv, KeysFit, EditorStates
<1>2. terms' = terms /\ vault' = vault /\ memo' = memo /\ coach' = coach /\ usage' = usage /\ advice' = advice
  BY DEF EditSettings, LeaveEditor
<1>3. editor' \in EditorStates /\ Owned(editor'.typed, editor'.mode)
  <2>1. CASE EditSettings
    <3>1. editor' = [open |-> TRUE, mode |-> coach, typed |-> NoKey, forget |-> FALSE, test |-> FALSE,
                     edits |-> editor.edits]
      BY <2>1 DEF EditSettings, Plain
    <3> QED BY <1>1, <3>1 DEF EditorStates, Owned, PossibleKeys
  <2>2. CASE LeaveEditor
    <3>1. editor' = [editor EXCEPT !.open = FALSE]
      BY <2>2 DEF LeaveEditor
    <3> QED BY <1>1, <3>1 DEF EditorStates
  <2> QED BY <2>1, <2>2
<1>4. calls' = calls \/ calls' = DroppedAll(calls, {"test"})
  BY DEF EditSettings, LeaveEditor
<1>5. CallsFit'
  BY <1>2, <1>4, CallsStay, CallsDropped
<1> QED BY <1>2, <1>3, <1>5, EditorFits, TermsStay DEF CloudInv

(* A key is typed for the provider that is shown. *)
LEMMA TypingKeepsTerms ==
  ASSUME CloudInv, NEW sound \in BOOLEAN, TypeKey(sound) PROVE CloudInv'
<1>1. editor \in EditorStates
  BY DEF CloudInv, KeysFit, EditorStates
<1>2. /\ terms' = terms /\ vault' = vault /\ memo' = NoMemo /\ coach' = coach /\ usage' = usage
      /\ calls' = calls /\ advice' = advice
  BY DEF TypeKey
<1>3. editor' = [editor EXCEPT !.typed = [for |-> editor.mode, sound |-> sound], !.forget = FALSE,
                               !.edits = editor.edits + 1]
  BY <1>1 DEF TypeKey, Edit, ApiKey, EditorStates
<1>4. editor' \in EditorStates /\ Owned(editor'.typed, editor'.mode)
  <2> DEFINE k == [for |-> editor.mode, sound |-> sound]
  <2>1. k \in ApiKeys /\ k.for = editor.mode
    BY <1>1 DEF ApiKeys, EditorStates
  <2> HIDE DEF k
  <2>2. editor' = [editor EXCEPT !.typed = k, !.forget = FALSE, !.edits = editor.edits + 1]
    BY <1>3 DEF k
  <2>3. k \in PossibleKeys
    BY <2>1 DEF PossibleKeys
  <2>4. editor' = EditorWith(editor.open, editor.mode, k, FALSE, editor.test, editor.edits + 1)
    BY <1>1, <2>2 DEF EditorStates, EditorWith
  <2>5. editor' \in EditorStates /\ editor'.typed = k /\ editor'.mode = editor.mode
    BY <1>1, <2>3, <2>4, EditorParts DEF EditorStates, EditorWith
  <2> QED BY <2>1, <2>5 DEF Owned
<1> QED BY <1>2, <1>4, EditorFits, CallsStay, TermsStay DEF CloudInv

(* Another provider is shown: what was typed is gone. *)
LEMMA SwitchingKeepsTerms ==
  ASSUME CloudInv, SwitchProvider PROVE CloudInv'
<1>1. editor \in EditorStates
  BY DEF CloudInv, KeysFit, EditorStates
<1>2. /\ terms' = terms /\ vault' = vault /\ memo' = NoMemo /\ coach' = coach /\ usage' = usage
      /\ calls' = DroppedAll(calls, {"test"}) /\ advice' = advice
  BY DEF SwitchProvider
<1>3. NextMode[editor.mode] \in CoachModes
  BY <1>1 DEF NextMode, EditorStates, CoachModes, Providers
<1> DEFINE mode == NextMode[editor.mode]
<1>4. editor' = [editor EXCEPT !.mode = mode, !.typed = NoKey, !.forget = FALSE, !.test = FALSE,
                               !.edits = editor.edits + 1]
  BY <1>1 DEF SwitchProvider, Edit, Switched, EditorStates
<1> HIDE DEF mode
<1>5. editor' \in EditorStates /\ Owned(editor'.typed, editor'.mode)
  <2>1. mode \in CoachModes
    BY <1>3 DEF mode
  <2>2. NoKey \in PossibleKeys
    BY DEF PossibleKeys
  <2>3. editor' = EditorWith(editor.open, mode, NoKey, FALSE, FALSE, editor.edits + 1)
    BY <1>1, <1>4 DEF EditorStates, EditorWith
  <2>4. editor' \in EditorStates /\ editor'.typed = NoKey
    BY <1>1, <2>1, <2>2, <2>3, EditorParts DEF EditorStates, EditorWith
  <2> QED BY <2>4 DEF Owned
<1> QED BY <1>2, <1>5, EditorFits, CallsDropped, TermsStay DEF CloudInv

(* A stored key is deleted, from one store or both. *)
LEMMA ForgettingKeepsTerms ==
  ASSUME CloudInv, ForgetStored PROVE CloudInv'
<1>1. editor \in EditorStates /\ Owned(editor.typed, editor.mode)
  BY DEF CloudInv, KeysFit, EditorStates
<1>2. /\ terms' = terms /\ memo' = NoMemo /\ coach' = coach /\ usage' = usage
      /\ calls' = calls /\ advice' = advice
  BY DEF ForgetStored
<1>3. /\ vault \in [Providers -> [protected : PossibleKeys, login : PossibleKeys]]
      /\ \A p \in Providers : Owned(vault[p].protected, p) /\ Owned(vault[p].login, p)
  BY DEF CloudInv, KeysFit
<1>4. \/ vault' = vault
      \/ editor.mode \in Providers /\ vault' \in Deleted(editor.mode)
  BY DEF ForgetStored
<1>5. /\ vault' \in [Providers -> [protected : PossibleKeys, login : PossibleKeys]]
      /\ \A p \in Providers : Owned(vault'[p].protected, p) /\ Owned(vault'[p].login, p)
  <2>1. ASSUME NEW p \in Providers, vault' \in Deleted(p)
        PROVE  \E k \in {NoKey, vault[p].protected}, left \in {NoKey, vault[p].login} :
                  vault' = [vault EXCEPT ![p] = [protected |-> k, login |-> left]]
    <3>1. vault[p] = [protected |-> vault[p].protected, login |-> vault[p].login]
      BY <1>3
    <3>2. CASE vault' = [vault EXCEPT ![p].login = NoKey]
      <4> DEFINE one == [vault[p] EXCEPT !.login = NoKey]
      <4>1. one = [protected |-> vault[p].protected, login |-> NoKey]
        BY <3>1
      <4>2. vault' = [vault EXCEPT ![p] = one]
        BY <1>3, <3>2
      <4> QED BY <4>1, <4>2
    <3>3. CASE \E left \in {NoKey, vault[p].login} : vault' = [vault EXCEPT ![p] = [protected |-> NoKey, login |-> left]]
      BY <3>3
    <3> QED BY <2>1, <3>2, <3>3 DEF Deleted
  <2>2. ASSUME NEW p \in Providers, NEW k \in {NoKey, vault[p].protected}, NEW left \in {NoKey, vault[p].login},
               vault' = [vault EXCEPT ![p] = [protected |-> k, login |-> left]]
        PROVE  /\ vault' \in [Providers -> [protected : PossibleKeys, login : PossibleKeys]]
               /\ \A q \in Providers : Owned(vault'[q].protected, q) /\ Owned(vault'[q].login, q)
    <3>1. k \in PossibleKeys /\ left \in PossibleKeys /\ Owned(k, p) /\ Owned(left, p)
      BY <1>3 DEF PossibleKeys, Owned
    <3> QED BY <1>3, <2>2, <3>1
  <2> QED BY <1>3, <1>4, <2>1, <2>2
<1>6. editor' \in EditorStates /\ Owned(editor'.typed, editor'.mode)
  <2>1. \/ editor' = [editor EXCEPT !.typed = NoKey, !.mode = "Local", !.forget = FALSE, !.edits = editor.edits + 1]
        \/ editor' = [editor EXCEPT !.forget = FALSE, !.edits = editor.edits + 1]
        \/ editor' = [editor EXCEPT !.forget = ~editor.forget, !.edits = editor.edits + 1]
    BY <1>1 DEF ForgetStored, Edit, EditorStates
  <2>2. NoKey \in PossibleKeys /\ "Local" \in CoachModes
    BY DEF PossibleKeys, CoachModes
  <2>3. /\ editor' \in EditorStates
        /\ editor'.typed = NoKey \/ (editor'.typed = editor.typed /\ editor'.mode = editor.mode)
    <3>1. \/ editor' = EditorWith(editor.open, "Local", NoKey, FALSE, editor.test, editor.edits + 1)
          \/ editor' = EditorWith(editor.open, editor.mode, editor.typed, FALSE, editor.test, editor.edits + 1)
          \/ editor' = EditorWith(editor.open, editor.mode, editor.typed, ~editor.forget, editor.test, editor.edits + 1)
      BY <1>1, <2>1 DEF EditorStates, EditorWith
    <3>2. CASE editor' = EditorWith(editor.open, "Local", NoKey, FALSE, editor.test, editor.edits + 1)
      BY <1>1, <2>2, <3>2, EditorParts DEF EditorStates, EditorWith
    <3>3. CASE editor' = EditorWith(editor.open, editor.mode, editor.typed, FALSE, editor.test, editor.edits + 1)
      BY <1>1, <3>3, EditorParts DEF EditorStates, EditorWith
    <3>4. CASE editor' = EditorWith(editor.open, editor.mode, editor.typed, ~editor.forget, editor.test, editor.edits + 1)
      BY <1>1, <3>4, EditorParts DEF EditorStates, EditorWith
    <3> QED BY <3>1, <3>2, <3>3, <3>4
  <2> QED BY <1>1, <2>3 DEF Owned
<1>7. KeysFit'
  <2>1. /\ NoMemo \in [Providers -> KeyLookups \cup {Unasked}]
        /\ \A q \in Providers : NoMemo[q] = Unasked
    BY DEF NoMemo
  <2> QED BY <1>2, <1>5, <1>6, <2>1 DEF CloudInv, KeysFit, EditorStates
<1> QED BY <1>2, <1>7, CallsStay, TermsStay DEF CloudInv

(* A key is tested, the one that was typed or the one that is found. *)
LEMMA TestingKeepsTerms ==
  ASSUME CloudInv, TestApiKey(1) PROVE CloudInv'
<1>1. editor \in EditorStates /\ Owned(editor.typed, editor.mode)
  BY DEF CloudInv, KeysFit, EditorStates
<1>2. terms' = terms /\ vault' = vault /\ coach' = coach /\ advice' = advice
  BY DEF TestApiKey
<1>3. editor' \in EditorStates /\ editor'.typed = editor.typed /\ editor'.mode = editor.mode
  <2>1. \E test \in BOOLEAN : editor' = [editor EXCEPT !.test = test, !.edits = editor.edits + 1]
    BY <1>1 DEF TestApiKey, Edit, EditorStates
  <2>2. PICK test \in BOOLEAN : editor' = [editor EXCEPT !.test = test, !.edits = editor.edits + 1]
    BY <2>1
  <2>3. editor' = EditorWith(editor.open, editor.mode, editor.typed, editor.forget, test, editor.edits + 1)
    BY <1>1, <2>2 DEF EditorStates, EditorWith
  <2> QED BY <1>1, <2>3, EditorParts DEF EditorStates, EditorWith
<1>4. CASE memo' = memo /\ usage' = usage /\ calls' = calls
  BY <1>1, <1>2, <1>3, <1>4, EditorFits, CallsStay, TermsStay DEF CloudInv
<1>5. ASSUME editor.mode # "Local",
             NEW found \in (IF editor.typed = NoKey THEN Resolved(editor.mode) ELSE {Found(editor.typed)}),
             memo' = IF editor.typed = NoKey THEN Remembered(editor.mode, found) ELSE memo,
             IF found.key # NoKey /\ found.key.sound /\ Affordable(1)
             THEN Begin("test", editor.mode, found.key, 1) ELSE UNCHANGED <<usage, calls>>
      PROVE  CloudInv'
  <2>1. editor.mode \in Providers
    BY <1>1, <1>5 DEF EditorStates, CoachModes
  <2>2. found.key \in PossibleKeys /\ Owned(found.key, editor.mode)
    <3>1. CASE editor.typed = NoKey
      <4>1. found \in KeyLookups /\ Owned(found.key, editor.mode)
        BY <1>5, <2>1, <3>1, FoundOwned DEF CloudInv
      <4> QED BY <4>1 DEF KeyLookups
    <3>2. CASE editor.typed # NoKey
      <4>1. found.key = editor.typed
        BY <1>5, <3>2 DEF Found
      <4> QED BY <1>1, <4>1 DEF EditorStates
    <3> QED BY <3>1, <3>2
  <2>3. KeysFit'
    <3>1. CASE editor.typed = NoKey
      <4>1. editor' \in [open : BOOLEAN, mode : CoachModes, typed : PossibleKeys, forget : BOOLEAN,
                         test : BOOLEAN, edits : Nat]
        BY <1>3 DEF EditorStates
      <4>2. found \in Resolved(editor.mode) /\ memo' = Remembered(editor.mode, found)
        BY <1>5, <3>1
      <4> QED BY <1>2, <1>3, <2>1, <4>1, <4>2, MemoFits
    <3>2. CASE editor.typed # NoKey
      <4>1. memo' = memo
        BY <1>5, <3>2
      <4> QED BY <1>1, <1>2, <1>3, <4>1, EditorFits
    <3> QED BY <3>1, <3>2
  <2>4. CallsFit'
    <3>1. CASE found.key # NoKey /\ found.key.sound /\ Affordable(1)
      <4>1. found.key \in ApiKeys /\ found.key.for = editor.mode /\ Begin("test", editor.mode, found.key, 1)
        BY <1>5, <2>2, <3>1 DEF PossibleKeys, Owned
      <4> QED BY <1>2, <2>1, <3>1, <4>1, CallBegun
    <3>2. CASE ~(found.key # NoKey /\ found.key.sound /\ Affordable(1))
      BY <1>2, <1>5, <3>2, CallsStay
    <3> QED BY <3>1, <3>2
  <2> QED BY <1>2, <2>3, <2>4, TermsStay DEF CloudInv
<1>6. \/ memo' = memo /\ usage' = usage /\ calls' = calls
      \/ /\ editor.mode # "Local"
         /\ \E found \in (IF editor.typed = NoKey THEN Resolved(editor.mode) ELSE {Found(editor.typed)}) :
              /\ memo' = IF editor.typed = NoKey THEN Remembered(editor.mode, found) ELSE memo
              /\ IF found.key # NoKey /\ found.key.sound /\ Affordable(1)
                 THEN Begin("test", editor.mode, found.key, 1) ELSE UNCHANGED <<usage, calls>>
  BY DEF TestApiKey
<1> QED BY <1>4, <1>5, <1>6

(* A typed key goes to the store of the provider it was typed for. *)
LEMMA WrittenFits ==
  ASSUME CloudInv, NEW p \in Providers, NEW k \in PossibleKeys, Owned(k, p), vault' \in Written(p, k)
  PROVE  /\ vault' \in [Providers -> [protected : PossibleKeys, login : PossibleKeys]]
         /\ \A q \in Providers : Owned(vault'[q].protected, q) /\ Owned(vault'[q].login, q)
<1>1. /\ vault \in [Providers -> [protected : PossibleKeys, login : PossibleKeys]]
      /\ \A q \in Providers : Owned(vault[q].protected, q) /\ Owned(vault[q].login, q)
  BY DEF CloudInv, KeysFit
<1>2. \E one \in [protected : PossibleKeys, login : PossibleKeys] :
         /\ vault' = [vault EXCEPT ![p] = one]
         /\ Owned(one.protected, p) /\ Owned(one.login, p)
  <2>1. vault[p] = [protected |-> vault[p].protected, login |-> vault[p].login]
        /\ vault[p].protected \in PossibleKeys /\ vault[p].login \in PossibleKeys
        /\ NoKey \in PossibleKeys /\ Owned(NoKey, p)
    BY <1>1 DEF PossibleKeys, Owned
  <2>2. CASE vault' = [vault EXCEPT ![p].login = k]
    <3> DEFINE one == [vault[p] EXCEPT !.login = k]
    <3>1. one = [protected |-> vault[p].protected, login |-> k]
      BY <2>1
    <3>2. vault' = [vault EXCEPT ![p] = one]
      BY <1>1, <2>2
    <3>3. one \in [protected : PossibleKeys, login : PossibleKeys] /\ one.protected = vault[p].protected
          /\ one.login = k
      BY <2>1, <3>1
    <3> QED BY <1>1, <3>2, <3>3
  <2>3. ASSUME NEW left \in {NoKey, vault[p].login},
               vault' = [vault EXCEPT ![p] = [protected |-> k, login |-> left]]
        PROVE  \E one \in [protected : PossibleKeys, login : PossibleKeys] :
                 /\ vault' = [vault EXCEPT ![p] = one]
                 /\ Owned(one.protected, p) /\ Owned(one.login, p)
    <3> DEFINE one == [protected |-> k, login |-> left]
    <3>1. one \in [protected : PossibleKeys, login : PossibleKeys] /\ one.protected = k /\ one.login = left
      BY <2>1
    <3>2. Owned(left, p)
      BY <1>1, <2>1
    <3> QED BY <2>3, <3>1, <3>2
  <2>4. \/ vault' = [vault EXCEPT ![p].login = k]
        \/ \E left \in {NoKey, vault[p].login} : vault' = [vault EXCEPT ![p] = [protected |-> k, login |-> left]]
    BY DEF Written
  <2> QED BY <2>2, <2>3, <2>4
<1> QED BY <1>1, <1>2

(* Save: a typed key is stored, the mode changes, or nothing does. *)
LEMMA SavingKeepsTerms ==
  ASSUME CloudInv, Save PROVE CloudInv'
<1>1. editor \in EditorStates /\ Owned(editor.typed, editor.mode) /\ coach \in CoachModes
  BY DEF CloudInv, KeysFit, EditorStates
<1>2. terms' = terms /\ usage' = usage /\ advice' = advice
  BY DEF Save
<1>3. memo' = memo \/ memo' = NoMemo \/ memo' = [memo EXCEPT ![editor.mode] = Unasked]
  BY DEF Save
<1>4. \/ /\ editor' = [editor EXCEPT !.edits = editor.edits + 1]
         /\ vault' = vault /\ coach' = coach /\ calls' = calls
      \/ /\ editor.typed # NoKey => editor.mode \in Providers
         /\ vault' \in IF editor.typed = NoKey THEN {vault} ELSE Written(editor.mode, editor.typed)
         /\ coach' = editor.mode /\ editor' = [editor EXCEPT !.open = FALSE, !.edits = editor.edits + 1]
         /\ calls' = calls \/ calls' = DroppedAll(calls, {"coach"})
  BY <1>1 DEF Save, Edit, EditorStates
<1>5. /\ vault' \in [Providers -> [protected : PossibleKeys, login : PossibleKeys]]
      /\ \A p \in Providers : Owned(vault'[p].protected, p) /\ Owned(vault'[p].login, p)
  <2>1. CASE vault' = vault
    BY <2>1 DEF CloudInv, KeysFit
  <2>2. CASE editor.mode \in Providers /\ vault' \in Written(editor.mode, editor.typed)
    <3>1. editor.typed \in PossibleKeys
      BY <1>1 DEF EditorStates
    <3> QED BY <1>1, <2>2, <3>1, WrittenFits
  <2> QED BY <1>4, <2>1, <2>2
<1>6. editor' \in EditorStates /\ Owned(editor'.typed, editor'.mode)
  <2>1. \/ editor' = EditorWith(editor.open, editor.mode, editor.typed, editor.forget, editor.test, editor.edits + 1)
        \/ editor' = EditorWith(FALSE, editor.mode, editor.typed, editor.forget, editor.test, editor.edits + 1)
    BY <1>1, <1>4 DEF EditorStates, EditorWith
  <2>2. editor' \in EditorStates /\ editor'.typed = editor.typed /\ editor'.mode = editor.mode
    <3>1. CASE editor' = EditorWith(editor.open, editor.mode, editor.typed, editor.forget, editor.test, editor.edits + 1)
      BY <1>1, <3>1, EditorParts DEF EditorStates, EditorWith
    <3>2. CASE editor' = EditorWith(FALSE, editor.mode, editor.typed, editor.forget, editor.test, editor.edits + 1)
      BY <1>1, <3>2, EditorParts DEF EditorStates, EditorWith
    <3> QED BY <2>1, <3>1, <3>2
  <2> QED BY <1>1, <2>2
<1>7. /\ memo' \in [Providers -> KeyLookups \cup {Unasked}]
      /\ \A q \in Providers : memo'[q] # Unasked => Owned(memo'[q].key, q)
  <2>1. /\ memo \in [Providers -> KeyLookups \cup {Unasked}]
        /\ \A q \in Providers : memo[q] # Unasked => Owned(memo[q].key, q)
    BY DEF CloudInv, KeysFit
  <2>2. /\ NoMemo \in [Providers -> KeyLookups \cup {Unasked}]
        /\ \A q \in Providers : NoMemo[q] = Unasked
    BY DEF NoMemo
  <2>3. CASE memo' = memo BY <2>1, <2>3
  <2>4. CASE memo' = NoMemo BY <2>2, <2>4
  <2>5. CASE memo' = [memo EXCEPT ![editor.mode] = Unasked] BY <2>1, <2>5
  <2> QED BY <1>3, <2>3, <2>4, <2>5
<1>8. coach' \in CoachModes
  BY <1>1, <1>4 DEF EditorStates
<1>9. KeysFit'
  BY <1>5, <1>6, <1>7, <1>8 DEF KeysFit, EditorStates
<1>10. CallsFit'
  BY <1>2, <1>4, CallsStay, CallsDropped
<1> QED BY <1>2, <1>9, <1>10, TermsStay DEF CloudInv

-----------------------------------------------------------------------------
(* Every step keeps it. *)
LEMMA CloudStep ==
  ASSUME CloudInv, [CloudNext]_cloudVars PROVE CloudInv'
<1>1. CASE UNCHANGED cloudVars
  <2>1. terms' = terms /\ vault' = vault /\ memo' = memo /\ editor' = editor /\ coach' = coach
        /\ usage' = usage /\ calls' = calls /\ advice' = advice
    BY <1>1 DEF cloudVars
  <2> QED BY <2>1, TermsStay, KeysStay, CallsStay DEF CloudInv
<1>2. ASSUME NEW i \in DOMAIN calls,
             \/ SendRequest(i) \/ WorkFails(i) \/ Cancelled(i) \/ Poll(i)
             \/ \E reply \in ProviderReplies : Respond(i, reply)
      PROVE  CloudInv'
  BY <1>2, WorkersKeepTerms
<1>3. ASSUME NEW bytes \in Bodies, AskCoach(bytes) PROVE CloudInv'
  BY <1>3, AskKeepsTerms
<1>4. ASSUME NEW sound \in BOOLEAN, TypeKey(sound) PROVE CloudInv'
  BY <1>4, TypingKeepsTerms
<1>5. CASE RetireCoach BY <1>5, RetireKeepsTerms
<1>6. CASE EditSettings \/ LeaveEditor BY <1>6, OpeningKeepsTerms
<1>7. CASE SwitchProvider BY <1>7, SwitchingKeepsTerms
<1>8. CASE ForgetStored BY <1>8, ForgettingKeepsTerms
<1>9. CASE Save BY <1>9, SavingKeepsTerms
<1>10. CASE TestApiKey(1) BY <1>10, TestingKeepsTerms
<1> QED BY <1>1, <1>2, <1>3, <1>4, <1>5, <1>6, <1>7, <1>8, <1>9, <1>10 DEF CloudNext

(* No bill exceeds what was reserved for it, so the bills together do not. *)
LEMMA TermsFollow ==
  ASSUME CloudInv PROVE CloudWithinTerms
<1>1. calls \in Seq(Calls) /\ usage.reserved = SumFunction(ReservedFor)
  BY DEF CloudInv, CallsFit
<1> DEFINE bills == [i \in DOMAIN calls |-> Bill(calls[i])]
<1>2. SumFunction(bills) <= usage.reserved
  <2>1. \A i \in DOMAIN calls : calls[i] \in Calls
    BY <1>1
  <2>2. \A i \in DOMAIN calls : calls[i].bytes \in Nat
    BY <2>1 DEF Calls
  <2>3. \A i \in DOMAIN calls : bills[i] \in Int /\ ReservedFor[i] \in Int /\ bills[i] <= ReservedFor[i]
    BY <2>1, <2>2, ReserveEnough DEF CloudInv, ReservedFor
  <2>4. IsFiniteSet(DOMAIN calls)
    <3>1. DOMAIN calls = 1 .. Len(calls) /\ Len(calls) \in Int /\ 1 \in Int
      BY <1>1
    <3> QED BY <3>1, FS_Interval
  <2>5. DOMAIN bills = DOMAIN calls /\ DOMAIN ReservedFor = DOMAIN calls
    BY DEF ReservedFor
  <2> HIDE DEF bills
  <2>6. SumFunctionOnSet(bills, DOMAIN calls) <= SumFunctionOnSet(ReservedFor, DOMAIN calls)
    BY <2>3, <2>4, SumMono
  <2> QED BY <1>1, <2>5, <2>6 DEF SumFunction
<1>3. \A p \in Providers : \A k \in {vault[p].login, vault[p].protected} : k # NoKey => k.for = p
  BY DEF CloudInv, KeysFit, Owned
<1>4. \A reply \in advice : reply.leak = "no" /\ reply.echo /\ Possible(reply.alternative)
  BY DEF CloudInv, CallsFit, Truthful
<1>5. /\ \A i \in DOMAIN calls : calls[i].key.for = calls[i].provider
      /\ terms.budget # 0 => usage.reserved <= terms.budget
  BY DEF CloudInv, CallsFit
<1> QED BY <1>2, <1>3, <1>4, <1>5 DEF CloudWithinTerms

(* A key is only ever sent to the provider it was entered for, what was sent costs
   no more than was reserved and that no more than the budget, and a review that is
   let through holds no key, speaks of its own decision and names an action the
   player had (src/trainer/provider.rs reserve, start, parse_response_for,
   validate_feedback; src/trainer/tui.rs SessionCredentials, the settings editor). *)
THEOREM CloudStaysWithinTerms == CloudSpec => []CloudWithinTerms
<1>1. CloudInit => CloudInv
  BY CloudStart
<1>2. CloudInv /\ [CloudNext]_cloudVars => CloudInv'
  BY CloudStep
<1>3. CloudInv => CloudWithinTerms
  BY TermsFollow
<1> QED BY <1>1, <1>2, <1>3, PTL DEF CloudSpec

-----------------------------------------------------------------------------
(* Reading back: the larger and the smaller of two, and the last of some places. *)
LEMMA LargerInt ==
  ASSUME NEW a \in Int, NEW b \in Int
  PROVE  Max({a, b}) = IF a >= b THEN a ELSE b
<1>1. PICK m \in {a, b} : \A y \in {a, b} : m >= y
  OBVIOUS
<1>2. Max({a, b}) \in {a, b} /\ \A y \in {a, b} : Max({a, b}) >= y
  BY <1>1 DEF Max
<1> QED BY <1>2

(* The smaller of two. *)
LEMMA SmallerInt ==
  ASSUME NEW a \in Int, NEW b \in Int
  PROVE  Min({a, b}) = IF a <= b THEN a ELSE b
<1>1. PICK m \in {a, b} : \A y \in {a, b} : m <= y
  OBVIOUS
<1>2. Min({a, b}) \in {a, b} /\ \A y \in {a, b} : Min({a, b}) <= y
  BY <1>1 DEF Min
<1> QED BY <1>2

(* Some places of a sequence have a last one. *)
LEMMA LastPlace ==
  ASSUME NEW n \in Nat, NEW S \in SUBSET (1 .. n), S # {}
  PROVE  Max(S) \in S /\ \A y \in S : Max(S) >= y
<1> DEFINE D == {n - x : x \in S}
<1>1. D \subseteq Nat /\ D # {}
  OBVIOUS
<1>2. PICK d \in D : \A e \in D : d <= e
  BY <1>1, LeastOf
<1>3. PICK m \in S : d = n - m
  BY <1>2
<1>4. \A y \in S : m >= y
  BY <1>2, <1>3
<1> QED BY <1>4 DEF Max

(* Some places of a sequence can be listed in their order. *)
Listed(s) == \E o \in [1 .. Cardinality(s) -> s] : \A a, b \in DOMAIN o : a < b => o[a] < o[b]
LEMMA PlacesListed ==
  ASSUME NEW n \in Nat, NEW S \in SUBSET (1 .. n)
  PROVE  Listed(S)
<1>1. IsFiniteSet(S)
  <2>1. 1 \in Int /\ n \in Int
    OBVIOUS
  <2> QED BY <2>1, FS_Interval, FS_Subset
<1> DEFINE Bad == {s \in SUBSET S : ~Listed(s)}
<1>2. ASSUME Bad # {} PROVE FALSE
  <2>1. PICK s \in Bad : \A t \in Bad : Cardinality(s) <= Cardinality(t)
    BY ZenonT(60), <1>1, <1>2, SmallestPart
  <2>2. s \in SUBSET S /\ ~Listed(s)
    BY <2>1
  <2>3. CASE s = {}
    <3>1. Cardinality(s) = 0
      BY <2>3, FS_EmptySet
    <3> DEFINE o == [k \in {} |-> 0]
    <3>2. 1 .. Cardinality(s) = {}
      BY <3>1
    <3>3. o \in [1 .. Cardinality(s) -> s] /\ DOMAIN o = {}
      BY <3>2
    <3> QED BY <2>2, <3>3 DEF Listed
  <2>4. CASE s # {}
    <3> DEFINE x == Max(s)
    <3>1. x \in s /\ \A y \in s : x >= y
      BY <2>2, <2>4, LastPlace
    <3> HIDE DEF x
    <3>2. s \ {x} \in SUBSET S /\ Cardinality(s) \in Nat /\ Cardinality(s \ {x}) \in Nat
          /\ Cardinality(s \ {x}) = Cardinality(s) - 1
      BY <1>1, <2>2, <3>1, PartWithout
    <3>3. Listed(s \ {x})
      <4>1. s \ {x} \notin Bad
        <5> HIDE DEF Bad
        <5> QED BY <2>1, <3>2
      <4> QED BY <3>2, <4>1
    <3> DEFINE c == Cardinality(s)
    <3>4. PICK o \in [1 .. c - 1 -> s \ {x}] : \A a, b \in DOMAIN o : a < b => o[a] < o[b]
      BY <3>2, <3>3 DEF Listed
    <3> DEFINE p == [k \in 1 .. c |-> IF k = c THEN x ELSE o[k]]
    <3>5. c \in Nat
      BY <3>2
    <3> HIDE DEF c
    <3>6. p \in [1 .. c -> s]
      BY <3>1, <3>4, <3>5
    <3>7. ASSUME NEW a \in DOMAIN p, NEW b \in DOMAIN p, a < b PROVE p[a] < p[b]
      <4>1. a \in 1 .. c - 1 /\ b \in 1 .. c
        BY <3>5, <3>7
      <4>2. p[a] = o[a] /\ o[a] \in s \ {x} /\ o[a] \in 1 .. n /\ x \in 1 .. n
        <5>1. p[a] = o[a] /\ o[a] \in s \ {x}
          BY <3>4, <3>5, <4>1
        <5> HIDE DEF p
        <5>2. s \subseteq 1 .. n
          BY <2>2
        <5> QED BY <3>1, <5>1, <5>2
      <4>3. CASE b = c
        BY <3>1, <3>5, <4>1, <4>2, <4>3
      <4>4. CASE b # c
        <5>1. b \in 1 .. c - 1 /\ p[b] = o[b]
          BY <3>5, <4>1, <4>4
        <5> QED BY <3>4, <3>7, <4>1, <4>2, <5>1
      <4> QED BY <4>3, <4>4
    <3>8. Listed(s)
      BY <3>6, <3>7 DEF Listed, c
    <3> QED BY <2>2, <3>8
  <2> QED BY <2>3, <2>4
<1>3. S \in SUBSET S
  OBVIOUS
<1> QED BY <1>2, <1>3

-----------------------------------------------------------------------------
(* A record names a decision it has, or none. *)
AtLeastOne(n) == IF n > 0 THEN n ELSE 1
FitRecords == {r \in Records : r.questionable < AtLeastOne(r.decisions)}

(* A record's numbers. *)
LEMMA RecordTypes ==
  ASSUME NEW r \in Records
  PROVE  r.hand \in Nat /\ r.decisions \in Nat /\ r.questionable \in Nat /\ AtLeastOne(r.decisions) \in Nat
BY ReplayAssumption DEF Records, AtLeastOne

(* What is loaded are records of the archive. *)
LEMMA LoadsRecords ==
  ASSUME NEW records \in Seq(FitRecords)
  PROVE  Load(records) \in Seq(FitRecords)
<1> DEFINE latest(i) == Max({j \in DOMAIN records : records[j].hand = records[i].hand})
           first == {i \in DOMAIN records : \A j \in 1 .. i - 1 : records[j].hand # records[i].hand}
           order == CHOOSE o \in [1 .. Cardinality(first) -> first] : \A a, b \in DOMAIN o : a < b => o[a] < o[b]
           n == Len(records)
<1>1. Load(records) = [k \in DOMAIN order |-> records[latest(order[k])]]
  BY DEF Load
<1>2. n \in Nat /\ DOMAIN records = 1 .. n
  OBVIOUS
<1>3. \A i \in 1 .. n : latest(i) \in 1 .. n
  <2> SUFFICES ASSUME NEW i \in 1 .. n PROVE latest(i) \in 1 .. n
    OBVIOUS
  <2> DEFINE S == {j \in DOMAIN records : records[j].hand = records[i].hand}
  <2>1. S \in SUBSET (1 .. n) /\ S # {}
    BY <1>2
  <2>2. Max(S) \in S
    <3> HIDE DEF S, n
    <3> QED BY <1>2, <2>1, LastPlace
  <2> QED BY <2>1, <2>2
<1>4. first \in SUBSET (1 .. n) /\ IsFiniteSet(first)
  <2>1. first \in SUBSET (1 .. n)
    BY <1>2
  <2>2. 1 \in Int /\ n \in Int
    BY <1>2
  <2> HIDE DEF first, n
  <2> QED BY <2>1, <2>2, FS_Interval, FS_Subset
<1> HIDE DEF latest, first, n
<1>5. Listed(first) /\ Cardinality(first) \in Nat
  BY <1>2, <1>4, PlacesListed, FS_CardinalityType
<1>6. order \in [1 .. Cardinality(first) -> first]
  BY <1>5 DEF Listed
<1> HIDE DEF order
<1>7. DOMAIN order = 1 .. Cardinality(first) /\ \A k \in DOMAIN order : order[k] \in 1 .. n
  BY <1>4, <1>6
<1>8. \A k \in DOMAIN order : records[latest(order[k])] \in FitRecords
  BY <1>2, <1>3, <1>7
<1> QED BY <1>1, <1>5, <1>7, <1>8

-----------------------------------------------------------------------------
(* What the variables of the browser's world range over. *)
Results == [decisions : Nat, sets : Nat, attempts : Nat]
HandFiles == [records : Seq(FitRecords), cut : BOOLEAN]
Desks == [progress : Results, unsaved : BOOLEAN, hands : 0 .. MaxReplays]
Sets == [begun : Nat, saved : Nat, passedOver : BOOLEAN]
Marks == SUBSET (Nat \X Nat)

(* A reader has an existing hand selected, and in it a decision the hand has. *)
Readable(v) ==
  /\ v \in Views /\ v.hands \in Seq(FitRecords)
  /\ v.hands # <<>> => /\ v.hand \in 1 .. Len(v.hands)
                       /\ v.detail => v.decision < AtLeastOne(v.hands[v.hand].decisions)

ReplayTypes ==
  /\ handFile \in HandFiles /\ bookmarks \in Marks
  /\ desk \in Desks /\ progressFile \in Results /\ sets \in Sets

(* The file holds every decision that is saved and every set that is not   *)
(* passed over; the table's copy of the sets is behind only while the      *)
(* browser is open.                                                        *)
ResultsKept ==
  /\ progressFile.sets = sets.saved \/ sets.passedOver
  /\ progressFile.decisions = desk.progress.decisions \/ desk.unsaved
  /\ view = Closed => desk.progress.sets = progressFile.sets

ReplayInv == ReplayTypes /\ (view = Closed \/ Readable(view)) /\ ResultsKept

(* An open browser is told from a closed one. *)
LEMMA ViewsOpen == \A v \in Views : v # Closed
BY ReplayAssumption

(* A view whose browser stands on nothing, or on a hand and one of its decisions, is readable. *)
LEMMA ReadingOn ==
  ASSUME NEW hands \in Seq(FitRecords), NEW v \in Views, v.hands = hands,
         hands # <<>> => v.hand \in 1 .. Len(hands),
         \A r \in FitRecords : hands # <<>> /\ r = hands[v.hand] /\ v.detail => v.decision < AtLeastOne(r.decisions)
  PROVE  Readable(v)
BY DEF Readable

(* Nobody starts with results. *)
LEMMA ReplayStarts == ReplayInit => ReplayInv
<1> SUFFICES ASSUME ReplayInit PROVE ReplayInv
  OBVIOUS
<1>1. <<>> \in Seq(FitRecords)
  OBVIOUS
<1>2. MaxReplays \in Nat
  BY ReplayAssumption
<1> QED BY <1>1, <1>2 DEF ReplayInit, ReplayInv, ReplayTypes, HandFiles, Marks, Results, NoResults, Desks, Sets, ResultsKept

(* A record appended to the archive is one of its records. *)
LEMMA AppendsFit ==
  ASSUME NEW f \in HandFiles, NEW r \in FitRecords
  PROVE  Append1(f, r) \in HandFiles /\ CutOff(f) \in HandFiles
<1>1. Append(f.records, r) \in Seq(FitRecords)
  BY DEF HandFiles
<1> QED BY <1>1 DEF Append1, CutOff, HandFiles

(* The larger of a number before this one, and none. *)
LEMMA OneBefore ==
  ASSUME NEW n \in Nat
  PROVE  Max({n - 1, 0}) = (IF n = 0 THEN 0 ELSE n - 1) /\ Max({n, 1}) = AtLeastOne(n)
         /\ Max({n - 1, 1}) = (IF n <= 1 THEN 1 ELSE n - 1)
<1>1. n - 1 \in Int /\ n \in Int /\ 0 \in Int /\ 1 \in Int
  OBVIOUS
<1>2. Max({n - 1, 0}) = (IF n - 1 >= 0 THEN n - 1 ELSE 0)
  BY <1>1, LargerInt
<1>3. Max({n, 1}) = (IF n >= 1 THEN n ELSE 1)
  BY <1>1, LargerInt
<1>4. Max({n - 1, 1}) = (IF n - 1 >= 1 THEN n - 1 ELSE 1)
  BY <1>1, LargerInt
<1> QED BY <1>2, <1>3, <1>4 DEF AtLeastOne

(* The table completes a hand: its copy of the sets is the file's. *)
LEMMA CompletingKeeps == ReplayInv /\ CompleteHand => ReplayInv'
<1> SUFFICES ASSUME ReplayInv, CompleteHand PROVE ReplayInv'
  OBVIOUS
<1>1. PICK r \in Records :
        LET counted == [desk.progress EXCEPT !.decisions = @ + r.decisions]
        IN  /\ r.hand = desk.hands + 1 /\ r.questionable <= Max({r.decisions - 1, 0})
            /\ \E saved \in BOOLEAN :
                 /\ desk' = [progress |-> counted, unsaved |-> ~saved, hands |-> r.hand]
                 /\ progressFile' = IF saved THEN counted ELSE progressFile
            /\ handFile' \in {Append1(handFile, r), CutOff(handFile)}
  BY DEF CompleteHand
<1>2. r.hand \in Nat /\ r.decisions \in Nat /\ r.questionable \in Nat
  BY RecordTypes
<1>3. r \in FitRecords
  <2>1. r.questionable <= Max({r.decisions - 1, 0})
    BY <1>1
  <2>2. Max({r.decisions - 1, 0}) = (IF r.decisions = 0 THEN 0 ELSE r.decisions - 1)
    BY <1>2, OneBefore
  <2> QED BY <1>2, <2>1, <2>2 DEF FitRecords, AtLeastOne
<1>4. handFile' \in HandFiles
  BY <1>1, <1>3, AppendsFit DEF ReplayInv, ReplayTypes
<1>5. view = Closed /\ view' = Closed /\ bookmarks' = bookmarks /\ sets' = sets /\ desk.hands < MaxReplays
  BY DEF CompleteHand
<1>6. r.hand \in 0 .. MaxReplays /\ MaxReplays \in Nat
  BY <1>1, <1>5, ReplayAssumption DEF Records
<1>7. progressFile' \in Results /\ desk' \in Desks
  BY <1>1, <1>2, <1>6 DEF ReplayInv, ReplayTypes, Results, Desks
<1>8. ReplayTypes'
  BY <1>4, <1>5, <1>7 DEF ReplayInv, ReplayTypes
<1>9. ResultsKept'
  <2> DEFINE counted == [desk.progress EXCEPT !.decisions = @ + r.decisions]
  <2>1. PICK saved \in BOOLEAN :
          /\ desk' = [progress |-> counted, unsaved |-> ~saved, hands |-> r.hand]
          /\ progressFile' = IF saved THEN counted ELSE progressFile
    BY <1>1
  <2>2. counted.sets = desk.progress.sets
    BY DEF ReplayInv, ReplayTypes, Results, Desks
  <2> HIDE DEF counted
  <2> QED BY <1>5, <2>1, <2>2 DEF ReplayInv, ResultsKept
<1> QED BY <1>5, <1>8, <1>9 DEF ReplayInv

(* The table saves its copy: under an open browser, that is the exception. *)
LEMMA SavingKeeps == ReplayInv /\ SaveAgain => ReplayInv'
BY DEF ReplayInv, ReplayTypes, ResultsKept, SaveAgain, Desks, Sets, Readable

(* A reload under the reader leaves an existing hand and decision selected. *)
LEMMA RefreshReadable ==
  ASSUME NEW v, Readable(v), NEW hands \in Seq(FitRecords), NEW marks \in Marks
  PROVE  Readable(Refreshed(v, hands, marks))
<1> DEFINE chosen == IF v.hands = <<>> THEN 0 ELSE v.hands[v.hand].hand
           at == {i \in DOMAIN hands : hands[i].hand = chosen}
           hand == IF at = {} THEN Max({Len(hands), 1}) ELSE CHOOSE i \in at : TRUE
           count == IF hand \in DOMAIN hands THEN hands[hand].decisions ELSE 0
           decision == Min({v.decision, Max({count - 1, 0})})
           w == [v EXCEPT !.hands = hands, !.marks = marks, !.hand = hand, !.decision = decision]
<1>1. Refreshed(v, hands, marks) = w
  BY DEF Refreshed
<1>2. DOMAIN hands = 1 .. Len(hands) /\ Len(hands) \in Nat /\ \A i \in DOMAIN hands : hands[i] \in FitRecords
  OBVIOUS
<1>3. hand \in Nat /\ (hands # <<>> => hand \in 1 .. Len(hands))
  <2>1. CASE at = {}
    <3>1. hand = AtLeastOne(Len(hands))
      BY <1>2, <2>1, OneBefore
    <3> HIDE DEF hand
    <3>2. hands # <<>> => Len(hands) > 0
      BY <1>2
    <3> QED BY <1>2, <3>1, <3>2 DEF AtLeastOne
  <2>2. CASE at # {}
    <3>1. hand \in at
      BY <2>2
    <3> HIDE DEF hand
    <3> QED BY <1>2, <3>1
  <2> QED BY <2>1, <2>2
<1> HIDE DEF at, hand
<1>4. count \in Nat
  BY <1>2, RecordTypes DEF FitRecords
<1>5. hand \in DOMAIN hands => count = hands[hand].decisions
  OBVIOUS
<1> HIDE DEF count
<1>6. v.decision \in Nat /\ v \in Views
  BY DEF Readable, Views
<1>7. decision \in Nat /\ decision < AtLeastOne(count)
  <2>1. Max({count - 1, 0}) = (IF count = 0 THEN 0 ELSE count - 1)
    BY <1>4, OneBefore
  <2> DEFINE m == Max({count - 1, 0})
  <2>2. m \in Nat /\ m < AtLeastOne(count)
    BY <1>4, <2>1 DEF AtLeastOne
  <2> HIDE DEF m
  <2>3. Min({v.decision, m}) = IF v.decision <= m THEN v.decision ELSE m
    BY <1>6, <2>2, SmallerInt
  <2>4. Min({v.decision, m}) \in Nat /\ Min({v.decision, m}) <= m
    BY <1>6, <2>2, <2>3
  <2>5. AtLeastOne(count) \in Nat
    BY <1>4 DEF AtLeastOne
  <2>6. decision = Min({v.decision, m})
    BY DEF m
  <2> HIDE DEF decision
  <2> QED BY <2>2, <2>4, <2>5, <2>6
<1> HIDE DEF decision
<1>8. hands \in Seq(Records)
  BY DEF FitRecords
<1>9. w \in Views /\ w.hands = hands /\ w.hand = hand /\ w.decision = decision
  BY <1>3, <1>6, <1>7, <1>8 DEF Views, Marks
<1> HIDE DEF w
<1> QED BY <1>1, <1>2, <1>3, <1>5, <1>7, <1>9 DEF Readable

(* A late review amends a hand. *)
LEMMA AmendingKeeps == ReplayInv /\ AmendHand => ReplayInv'
<1> SUFFICES ASSUME ReplayInv, AmendHand PROVE ReplayInv'
  OBVIOUS
<1>1. PICK i \in DOMAIN handFile.records : \E q \in 0 .. Max({handFile.records[i].decisions - 1, 0}) :
        LET file == Append1(handFile, [handFile.records[i] EXCEPT !.questionable = q])
        IN  /\ handFile' = file
            /\ view' = IF view = Closed THEN view
                       ELSE Refreshed(view, Load(file.records), bookmarks)
  BY DEF AmendHand
<1> DEFINE old == handFile.records[i]
<1>2. old \in FitRecords /\ old \in Records
  BY DEF ReplayInv, ReplayTypes, HandFiles, FitRecords
<1>3. PICK q \in 0 .. Max({old.decisions - 1, 0}) :
        LET file == Append1(handFile, [old EXCEPT !.questionable = q])
        IN  /\ handFile' = file
            /\ view' = IF view = Closed THEN view
                       ELSE Refreshed(view, Load(file.records), bookmarks)
  BY <1>1
<1> HIDE DEF old
<1> DEFINE r == [old EXCEPT !.questionable = q]
<1>4. r \in FitRecords
  <2>1. old.decisions \in Nat /\ old.decisions \in 0 .. MaxDecisions /\ MaxDecisions \in Nat
    BY <1>2, ReplayAssumption DEF Records
  <2>2. Max({old.decisions - 1, 0}) = (IF old.decisions = 0 THEN 0 ELSE old.decisions - 1)
    BY <2>1, OneBefore
  <2>3. q \in 0 .. MaxDecisions /\ q < AtLeastOne(old.decisions)
    BY <2>1, <2>2 DEF AtLeastOne
  <2>4. r \in Records /\ r.questionable = q /\ r.decisions = old.decisions
    BY <1>2, <2>3 DEF Records
  <2> HIDE DEF r
  <2> QED BY <2>3, <2>4 DEF FitRecords
<1> HIDE DEF r
<1>5. handFile' \in HandFiles /\ handFile' = Append1(handFile, r)
  BY <1>3, <1>4, AppendsFit DEF ReplayInv, ReplayTypes, r
<1>6. UNCHANGED <<bookmarks, desk, progressFile, sets>>
  BY DEF AmendHand
<1>7. ReplayTypes'
  BY <1>5, <1>6 DEF ReplayInv, ReplayTypes
<1>8. CASE view = Closed
  BY <1>3, <1>6, <1>7, <1>8 DEF ReplayInv, ResultsKept
<1>9. CASE view # Closed
  <2>1. view' = Refreshed(view, Load(handFile'.records), bookmarks)
    BY <1>3, <1>9
  <2>2. Load(handFile'.records) \in Seq(FitRecords)
    BY <1>5, LoadsRecords DEF HandFiles
  <2>3. Readable(view')
    BY <1>9, <2>1, <2>2, RefreshReadable DEF ReplayInv, ReplayTypes
  <2>4. view' # Closed
    BY <2>3, ViewsOpen DEF Readable
  <2>5. ResultsKept'
    BY <1>6, <2>4 DEF ReplayInv, ResultsKept
  <2> QED BY <1>7, <2>3, <2>5 DEF ReplayInv
<1> QED BY <1>8, <1>9

(* The browser opens on the last hand of the archive. *)
LEMMA OpeningKeeps == ReplayInv /\ Open => ReplayInv'
<1> SUFFICES ASSUME ReplayInv, Open PROVE ReplayInv'
  OBVIOUS
<1> DEFINE hands == Load(handFile.records)
<1>1. hands \in Seq(FitRecords)
  BY LoadsRecords DEF ReplayInv, ReplayTypes, HandFiles
<1>2. view' = [hands |-> hands, marks |-> bookmarks, hand |-> Max({Len(hands), 1}),
               decision |-> 0, detail |-> FALSE, outcome |-> FALSE, practice |-> Closed]
      /\ UNCHANGED <<handFile, bookmarks, desk, progressFile, sets>>
  BY DEF Open
<1> HIDE DEF hands
<1>3. Max({Len(hands), 1}) = AtLeastOne(Len(hands)) /\ Len(hands) \in Nat
  <2>1. Len(hands) \in Nat
    BY <1>1
  <2> QED BY <2>1, OneBefore
<1>4. hands \in Seq(Records)
  BY <1>1 DEF FitRecords
<1>5. AtLeastOne(Len(hands)) \in Nat /\ (hands # <<>> => AtLeastOne(Len(hands)) \in 1 .. Len(hands))
  BY <1>1, <1>3 DEF AtLeastOne
<1>6. view' \in Views /\ view'.hands = hands /\ view'.hand = AtLeastOne(Len(hands)) /\ ~view'.detail
  BY <1>2, <1>3, <1>4, <1>5 DEF ReplayInv, ReplayTypes, Marks, Views
<1>7. Readable(view')
  BY <1>1, <1>5, <1>6 DEF Readable
<1>8. view' # Closed
  BY <1>6, ViewsOpen
<1> QED BY <1>2, <1>7, <1>8 DEF ReplayInv, ReplayTypes, ResultsKept

(* Closing takes the sets of the file over: the copies agree again. *)
LEMMA ClosingKeeps == ReplayInv /\ Close => ReplayInv'
<1> SUFFICES ASSUME ReplayInv, Close PROVE ReplayInv'
  OBVIOUS
<1>1. /\ view' = Closed /\ UNCHANGED <<handFile, bookmarks, progressFile, sets>>
      /\ desk' = [desk EXCEPT !.progress = Synced(@),
                              !.unsaved = @ \/ Synced(desk.progress) # desk.progress]
  BY DEF Close
<1>2. desk \in Desks /\ progressFile \in Results
  BY DEF ReplayInv, ReplayTypes
<1>3. Synced(desk.progress) \in Results /\ Synced(desk.progress).sets = progressFile.sets
      /\ Synced(desk.progress).decisions = desk.progress.decisions
  BY <1>2 DEF Synced, Results, Desks
<1>4. desk' \in Desks /\ desk'.progress = Synced(desk.progress) /\ (desk.unsaved => desk'.unsaved)
  BY <1>1, <1>2, <1>3 DEF Desks
<1> QED BY <1>1, <1>3, <1>4 DEF ReplayInv, ReplayTypes, ResultsKept

(* A turn of the browser to something readable. *)
LEMMA TurningKeeps ==
  ASSUME ReplayInv, view # Closed, NEW v, Readable(v), Turn(v)
  PROVE  ReplayInv'
<1>1. view' = v /\ UNCHANGED <<handFile, bookmarks, desk, progressFile, sets>>
  BY DEF Turn
<1>2. v # Closed
  BY ViewsOpen DEF Readable
<1> QED BY <1>1, <1>2 DEF ReplayInv, ReplayTypes, ResultsKept

(* What the reader stands on. *)
LEMMA Reads ==
  ASSUME ReplayInv, Reading
  PROVE  /\ view # Closed /\ Readable(view) /\ view.hand \in Nat /\ view.decision \in Nat
         /\ Len(view.hands) \in Nat /\ view.hand \in 1 .. Len(view.hands)
         /\ view.hands[view.hand] \in FitRecords /\ Decisions \in Nat
         /\ view.hands[view.hand].hand \in Nat /\ view.hands[view.hand].questionable \in Nat
<1>1. view # Closed /\ Readable(view) /\ view.hands # <<>>
  BY DEF ReplayInv, Reading
<1>2. view.hand \in 1 .. Len(view.hands) /\ view.hands \in Seq(FitRecords) /\ view.hand \in Nat
      /\ view.decision \in Nat
  BY <1>1 DEF Readable, Views
<1>3. view.hands[view.hand] \in FitRecords
  BY <1>2
<1>4. view.hands[view.hand] \in Records
  BY <1>3 DEF FitRecords
<1> QED BY <1>1, <1>2, <1>3, <1>4, RecordTypes DEF Decisions

(* Choosing a hand, and opening it at its questionable decision. *)
LEMMA BrowsingKeeps == ReplayInv /\ Browse => ReplayInv'
<1> SUFFICES ASSUME ReplayInv, Browse PROVE ReplayInv'
  OBVIOUS
<1>1. Reading /\ ~view.detail
  BY DEF Browse
<1>2. view # Closed /\ Readable(view) /\ view.hand \in 1 .. Len(view.hands) /\ Len(view.hands) \in Nat
      /\ view.hands[view.hand] \in FitRecords /\ view.hands[view.hand].questionable \in Nat
  BY <1>1, Reads
<1>3. view \in Views
  BY <1>2 DEF Readable
<1>4. CASE Turn([view EXCEPT !.hand = Max({@ - 1, 1})])
  <2> DEFINE v == [view EXCEPT !.hand = Max({view.hand - 1, 1})]
  <2>1. Max({view.hand - 1, 1}) \in 1 .. Len(view.hands)
    <3>1. Max({view.hand - 1, 1}) = (IF view.hand <= 1 THEN 1 ELSE view.hand - 1)
      <4>1. view.hand \in Nat
        BY <1>2
      <4> QED BY <4>1, OneBefore
    <3> QED BY <1>2, <3>1
  <2>2. v \in Views /\ v.hands = view.hands /\ v.hand \in 1 .. Len(view.hands) /\ v.detail = view.detail
    BY <1>2, <1>3, <2>1 DEF Views
  <2>3. Turn(v)
    BY <1>4
  <2> HIDE DEF v
  <2>4. Readable(v)
    BY <1>1, <1>2, <2>2 DEF Readable
  <2> QED BY <1>2, <2>3, <2>4, TurningKeeps
<1>5. CASE Turn([view EXCEPT !.hand = Min({@ + 1, Len(view.hands)})])
  <2> DEFINE v == [view EXCEPT !.hand = Min({view.hand + 1, Len(view.hands)})]
  <2>1. Min({view.hand + 1, Len(view.hands)}) \in 1 .. Len(view.hands)
    <3>1. Min({view.hand + 1, Len(view.hands)}) = (IF view.hand + 1 <= Len(view.hands) THEN view.hand + 1 ELSE Len(view.hands))
      BY <1>2, SmallerInt
    <3> QED BY <1>2, <3>1
  <2>2. v \in Views /\ v.hands = view.hands /\ v.hand \in 1 .. Len(view.hands) /\ v.detail = view.detail
    BY <1>2, <1>3, <2>1 DEF Views
  <2>3. Turn(v)
    BY <1>5
  <2> HIDE DEF v
  <2>4. Readable(v)
    BY <1>1, <1>2, <2>2 DEF Readable
  <2> QED BY <1>2, <2>3, <2>4, TurningKeeps
<1>6. CASE Turn([view EXCEPT !.detail = TRUE, !.outcome = FALSE, !.decision = view.hands[view.hand].questionable])
  <2> DEFINE v == [view EXCEPT !.detail = TRUE, !.outcome = FALSE, !.decision = view.hands[view.hand].questionable]
  <2>1. v \in Views /\ v.hands = view.hands /\ v.hand = view.hand /\ v.decision = view.hands[view.hand].questionable
    BY <1>2, <1>3 DEF Views
  <2>2. v.decision < AtLeastOne(view.hands[view.hand].decisions)
    BY <1>2, <2>1 DEF FitRecords
  <2>3. Turn(v)
    BY <1>6
  <2> HIDE DEF v
  <2>4. Readable(v)
    BY <1>2, <2>1, <2>2 DEF Readable
  <2> QED BY <1>2, <2>3, <2>4, TurningKeeps
<1> QED BY <1>4, <1>5, <1>6 DEF Browse

(* Moving between the decisions of a hand. *)
LEMMA StudyingKeeps == ReplayInv /\ Study => ReplayInv'
<1> SUFFICES ASSUME ReplayInv, Study PROVE ReplayInv'
  OBVIOUS
<1>1. Reading /\ view.detail
  BY DEF Study
<1>2. view # Closed /\ Readable(view) /\ view.hand \in 1 .. Len(view.hands)
      /\ view.decision \in Nat /\ Decisions \in Nat
  BY <1>1, Reads
<1>3. view \in Views /\ view.decision < AtLeastOne(Decisions)
  BY <1>1, <1>2 DEF Readable, Decisions, Reading
<1>4. CASE Turn([view EXCEPT !.detail = FALSE, !.outcome = FALSE])
  <2> DEFINE v == [view EXCEPT !.detail = FALSE, !.outcome = FALSE]
  <2>1. v \in Views /\ v.hands = view.hands /\ v.hand = view.hand /\ ~v.detail
    BY <1>3 DEF Views
  <2>2. Turn(v)
    BY <1>4
  <2> HIDE DEF v
  <2>3. Readable(v)
    BY <1>2, <2>1 DEF Readable
  <2> QED BY <1>2, <2>2, <2>3, TurningKeeps
<1>5. CASE Turn([view EXCEPT !.outcome = ~@])
  <2> DEFINE v == [view EXCEPT !.outcome = ~view.outcome]
  <2>1. v \in Views /\ v.hands = view.hands /\ v.hand = view.hand /\ v.decision = view.decision /\ v.detail = view.detail
    BY <1>3 DEF Views
  <2>2. Turn(v)
    BY <1>5
  <2> HIDE DEF v
  <2>3. Readable(v)
    BY <1>2, <2>1 DEF Readable
  <2> QED BY <1>2, <2>2, <2>3, TurningKeeps
<1>6. ASSUME NEW d \in Nat, d < AtLeastOne(Decisions), Turn([view EXCEPT !.decision = d]) PROVE ReplayInv'
  <2> DEFINE v == [view EXCEPT !.decision = d]
  <2>1. v \in Views /\ v.hands = view.hands /\ v.hand = view.hand /\ v.decision = d /\ v.detail = view.detail
    BY <1>3 DEF Views
  <2>2. Turn(v)
    BY <1>6
  <2> HIDE DEF v
  <2>3. Readable(v)
    BY <1>2, <1>6, <2>1 DEF Readable, Decisions
  <2> QED BY <1>2, <2>2, <2>3, TurningKeeps
<1>7. CASE Turn([view EXCEPT !.decision = Max({@ - 1, 0})])
  <2>1. Max({view.decision - 1, 0}) = (IF view.decision = 0 THEN 0 ELSE view.decision - 1)
    BY <1>2, OneBefore
  <2> DEFINE d == Max({view.decision - 1, 0})
  <2>2. d \in Nat /\ d < AtLeastOne(Decisions)
    BY <1>2, <1>3, <2>1 DEF AtLeastOne
  <2>3. Turn([view EXCEPT !.decision = d])
    BY <1>7
  <2> HIDE DEF d
  <2> QED BY <1>6, <2>2, <2>3
<1>8. CASE Decisions > 0 /\ Turn([view EXCEPT !.decision = Min({@ + 1, Decisions - 1})])
  <2>1. Min({view.decision + 1, Decisions - 1})
        = (IF view.decision + 1 <= Decisions - 1 THEN view.decision + 1 ELSE Decisions - 1)
    BY <1>2, SmallerInt
  <2> DEFINE d == Min({view.decision + 1, Decisions - 1})
  <2>2. d \in Nat /\ d < AtLeastOne(Decisions)
    BY <1>2, <1>3, <1>8, <2>1 DEF AtLeastOne
  <2>3. Turn([view EXCEPT !.decision = d])
    BY <1>8
  <2> HIDE DEF d
  <2> QED BY <1>6, <2>2, <2>3
<1> QED BY <1>4, <1>5, <1>7, <1>8 DEF Study

(* Marking a decision, whether or not the bookmarks are saved. *)
LEMMA MarkingKeeps == ReplayInv /\ ToggleBookmark => ReplayInv'
<1> SUFFICES ASSUME ReplayInv, ToggleBookmark PROVE ReplayInv'
  OBVIOUS
<1> DEFINE mark == <<view.hands[view.hand].hand, view.decision>>
           marks == SymDiff(view.marks, {mark})
<1>1. Reading /\ view' = [view EXCEPT !.marks = marks] /\ bookmarks' \in {marks, bookmarks}
      /\ UNCHANGED <<handFile, desk, progressFile, sets>>
  BY DEF ToggleBookmark
<1>2. Readable(view) /\ view # Closed /\ view.hands[view.hand].hand \in Nat /\ view.decision \in Nat
  BY <1>1, Reads
<1>3. view \in Views /\ view.marks \in Marks
  BY <1>2 DEF Readable, Views, Marks
<1>4. mark \in Nat \X Nat
  BY <1>2
<1>5. marks \in Marks
  <2> HIDE DEF mark
  <2> QED BY <1>3, <1>4 DEF Marks, SymDiff
<1> HIDE DEF marks
<1>6. view' \in Views /\ view'.hands = view.hands /\ view'.hand = view.hand /\ view'.decision = view.decision
      /\ view'.detail = view.detail
  BY <1>1, <1>3, <1>5 DEF Views, Marks
<1>7. Readable(view') /\ view' # Closed
  BY <1>2, <1>6, ViewsOpen DEF Readable
<1>8. bookmarks' \in Marks
  BY <1>1, <1>5 DEF ReplayInv, ReplayTypes
<1> QED BY <1>1, <1>2, <1>7, <1>8 DEF ReplayInv, ReplayTypes, ResultsKept

(* Practice leaves the reader where it was. *)
LEMMA PractisingReads ==
  ASSUME Readable(view), NEW p \in Quizzes \cup {Closed}
  PROVE  Readable([view EXCEPT !.practice = p])
<1> DEFINE v == [view EXCEPT !.practice = p]
<1>1. view \in Views
  BY DEF Readable
<1>2. v \in Views /\ v.hands = view.hands /\ v.hand = view.hand /\ v.decision = view.decision /\ v.detail = view.detail
  BY <1>1 DEF Views
<1> HIDE DEF v
<1>3. Readable(v)
  BY <1>2 DEF Readable
<1> QED BY <1>3 DEF v

(* A practice set is begun. *)
LEMMA BeginningKeeps == ReplayInv /\ BeginPractice => ReplayInv'
<1> SUFFICES ASSUME ReplayInv, BeginPractice PROVE ReplayInv'
  OBVIOUS
<1> DEFINE p == [question |-> 1, answered |-> FALSE, results |-> 0, complete |-> FALSE]
<1>1. Reading /\ view' = [view EXCEPT !.practice = p] /\ sets' = [sets EXCEPT !.begun = @ + 1]
      /\ UNCHANGED <<handFile, bookmarks, desk, progressFile>>
  BY DEF BeginPractice
<1>2. Readable(view) /\ view # Closed
  BY <1>1, Reads
<1>3. p \in Quizzes
  BY DEF Quizzes
<1>4. Readable(view')
  <2> HIDE DEF p
  <2> QED BY <1>1, <1>2, <1>3, PractisingReads
<1>5. view' # Closed
  BY <1>4, ViewsOpen DEF Readable
<1>6. sets' \in Sets /\ sets'.saved = sets.saved /\ sets'.passedOver = sets.passedOver
  BY <1>1 DEF ReplayInv, ReplayTypes, Sets
<1> QED BY <1>1, <1>2, <1>4, <1>5, <1>6 DEF ReplayInv, ReplayTypes, ResultsKept

(* A learner who practises. *)
LEMMA Practises ==
  ASSUME ReplayInv, Practising
  PROVE  view # Closed /\ Readable(view) /\ view.practice \in Quizzes
BY DEF ReplayInv, Practising, Readable, Views

(* An answer, the next question and leaving turn to what is readable. *)
LEMMA PractisingKeeps == ReplayInv /\ (AnswerQuestion \/ NextQuestion \/ LeavePractice) => ReplayInv'
<1> SUFFICES ASSUME ReplayInv, AnswerQuestion \/ NextQuestion \/ LeavePractice PROVE ReplayInv'
  OBVIOUS
<1>1. Practising
  BY DEF AnswerQuestion, NextQuestion, LeavePractice
<1>2. view # Closed /\ Readable(view) /\ view.practice \in Quizzes /\ view \in Views
  BY <1>1, Practises DEF Readable
<1>3. ASSUME NEW p \in Quizzes \cup {Closed}, Turn([view EXCEPT !.practice = p]) PROVE ReplayInv'
  BY <1>2, <1>3, PractisingReads, TurningKeeps
<1>4. CASE AnswerQuestion
  <2> DEFINE p == [view.practice EXCEPT !.answered = TRUE]
  <2>1. Turn([view EXCEPT !.practice = p])
    <3>1. [view EXCEPT !.practice.answered = TRUE] = [view EXCEPT !.practice = p]
      BY <1>2 DEF Views, Quizzes
    <3> QED BY <1>4, <3>1 DEF AnswerQuestion
  <2>2. p \in Quizzes
    BY <1>2 DEF Quizzes
  <2> HIDE DEF p
  <2> QED BY <1>3, <2>1, <2>2
<1>5. CASE NextQuestion
  <2> DEFINE p == [view.practice EXCEPT !.question = @ + 1, !.answered = FALSE, !.results = @ + 1]
  <2>1. Turn([view EXCEPT !.practice = p])
    BY <1>5 DEF NextQuestion
  <2>2. p \in Quizzes
    <3>1. view.practice.question + 1 \in Nat /\ view.practice.results + 1 \in Nat
      BY <1>2 DEF Quizzes
    <3> QED BY <1>2, <3>1 DEF Quizzes
  <2> HIDE DEF p
  <2> QED BY <1>3, <2>1, <2>2
<1>6. CASE LeavePractice
  BY <1>3, <1>6 DEF LeavePractice
<1> QED BY <1>4, <1>5, <1>6

(* The set that is finished is in the file when it is shown complete. *)
LEMMA FinishingKeeps == ReplayInv /\ FinishSet => ReplayInv'
<1> SUFFICES ASSUME ReplayInv, FinishSet PROVE ReplayInv'
  OBVIOUS
<1> DEFINE results == view.practice.results + 1
           p == [view.practice EXCEPT !.results = results]
           done == [p EXCEPT !.complete = TRUE]
<1>1. view # Closed /\ Readable(view) /\ view.practice \in Quizzes /\ view \in Views
  BY Practises DEF FinishSet, Readable
<1>2. results \in Nat /\ p \in Quizzes /\ done \in Quizzes
  <2>1. results \in Nat
    BY <1>1 DEF Quizzes
  <2> HIDE DEF results
  <2>2. p \in Quizzes
    BY <1>1, <2>1 DEF Quizzes
  <2> HIDE DEF p
  <2>3. done \in Quizzes
    BY <2>2 DEF Quizzes
  <2> QED BY <2>1, <2>2, <2>3
<1>3. [view EXCEPT !.practice.results = results] = [view EXCEPT !.practice = p]
      /\ [view EXCEPT !.practice.results = results, !.practice.complete = TRUE] = [view EXCEPT !.practice = done]
  BY <1>1 DEF Views, Quizzes
<1>4. \/ /\ progressFile' = Recorded(progressFile, results) /\ sets' = [sets EXCEPT !.saved = @ + 1]
         /\ view' = [view EXCEPT !.practice = done]
      \/ view' = [view EXCEPT !.practice = p] /\ UNCHANGED <<progressFile, sets>>
  BY <1>3 DEF FinishSet
<1>5. UNCHANGED <<handFile, bookmarks, desk>>
  BY DEF FinishSet
<1> HIDE DEF results, p, done
<1>6. Readable(view')
  BY <1>1, <1>2, <1>4, PractisingReads
<1>7. view' # Closed
  BY <1>6, ViewsOpen DEF Readable
<1>8. ReplayTypes'
  <2>1. progressFile \in Results /\ sets \in Sets
    BY DEF ReplayInv, ReplayTypes
  <2>2. Recorded(progressFile, results) \in Results
    <3>1. progressFile.sets + 1 \in Nat /\ progressFile.attempts + results \in Nat
      BY <1>2, <2>1 DEF Results
    <3> QED BY <2>1, <3>1 DEF Results, Recorded
  <2>3. progressFile' \in Results /\ sets' \in Sets
    BY <1>4, <2>1, <2>2 DEF Sets
  <2> QED BY <1>5, <2>3 DEF ReplayInv, ReplayTypes
<1>9. ResultsKept'
  BY <1>2, <1>4, <1>5, <1>7 DEF ReplayInv, ReplayTypes, ResultsKept, Results, Recorded, Sets
<1> QED BY <1>6, <1>8, <1>9 DEF ReplayInv

(* The browser keeps the results: no completed practice set and no         *)
(* reviewed decision is overwritten by the other writer's copy, but for    *)
(* the exception that ReviewKeepsResults names, and the reader always      *)
(* stands on an existing hand and decision, whatever is amended, cut off   *)
(* or fails to be saved meanwhile (src/trainer/tui.rs save_progress,       *)
(* sync_practice_progress, replay_ui.rs refresh).                          *)
THEOREM BrowsingKeepsResults == ReplaySpec => []ReviewKeepsResults
<1>1. ReplayInv /\ [ReplayNext]_replayVars => ReplayInv'
  <2>1. ReplayInv /\ UNCHANGED replayVars => ReplayInv'
    BY DEF replayVars, ReplayInv, ReplayTypes, ResultsKept
  <2> QED BY <2>1, CompletingKeeps, SavingKeeps, AmendingKeeps, OpeningKeeps, ClosingKeeps, BrowsingKeeps, StudyingKeeps,
             MarkingKeeps, BeginningKeeps, PractisingKeeps, FinishingKeeps DEF ReplayNext
<1>2. ReplayInv => ReviewKeepsResults
  <2> SUFFICES ASSUME ReplayInv PROVE ReviewKeepsResults
    OBVIOUS
  <2>1. /\ progressFile.sets = sets.saved \/ sets.passedOver
        /\ progressFile.decisions = desk.progress.decisions \/ desk.unsaved
    BY DEF ReplayInv, ResultsKept
  <2>2. ASSUME view # Closed, view.hands # <<>>
        PROVE  view.hand \in DOMAIN view.hands /\ (view.detail => view.decision < Max({Decisions, 1}))
    <3>1. Readable(view)
      BY <2>2 DEF ReplayInv
    <3>2. view.hand \in 1 .. Len(view.hands) /\ view.hands \in Seq(FitRecords)
          /\ (view.detail => view.decision < AtLeastOne(Decisions))
      BY <2>2, <3>1 DEF Readable, Decisions
    <3>3. view.hands[view.hand] \in Records
      BY <3>2 DEF FitRecords
    <3>4. Decisions \in Nat
      BY <3>3, RecordTypes DEF Decisions
    <3>5. Max({Decisions, 1}) = AtLeastOne(Decisions)
      BY <3>4, OneBefore
    <3> QED BY <3>2, <3>5
  <2> QED BY <2>1, <2>2 DEF ReviewKeepsResults
<1> QED BY <1>1, <1>2, ReplayStarts, PTL DEF ReplaySpec

-----------------------------------------------------------------------------
(* River practice: the threads, of which one solves at a time and answers  *)
(* with its scenario or with nothing.                                      *)
Solvers == {t \in [scenario : Scenarios, cancel : BOOLEAN, at : {"waiting", "solving", "sent"},
                   answer : Scenarios \cup {None}] : t.answer \in {None, t.scenario}}
OneSolves(ts) == \A i, j \in DOMAIN ts : ts[i].at = "solving" /\ ts[j].at = "solving" => i = j

(* The screen: what it shows solved, what it waits for, and what it has started. *)
PaneFits(p, ts) ==
  /\ p \in Panes /\ p.scenario \in Scenarios /\ p.worker \in 0 .. Len(ts)
  /\ p.solution # Nil => p.solution = p.scenario /\ p.worker = 0 /\ p.combo < Combos[p.solution]
  /\ (p.solution = Nil /\ ~p.error) <=> p.worker # 0
  /\ p.queued => p.worker # 0
  /\ p.worker # 0 => p.queued \/ (ts[p.worker].scenario = p.scenario /\ p.combo = 0)
  /\ p.answered # Nil => p.solution # Nil
RiverInv ==
  /\ threads \in Seq(Solvers) /\ OneSolves(threads)
  /\ pane = Nil \/ PaneFits(pane, threads)

(* A screen that fits is open. *)
LEMMA PanesOpen == ASSUME NEW p, NEW ts, PaneFits(p, ts) PROVE p # Nil
BY RiverAssumption DEF PaneFits

(* The scenarios are numbered. *)
LEMMA ScenariosNumbered ==
  /\ Len(Combos) \in Nat \ {0} /\ Scenarios = 1 .. Len(Combos) /\ Cardinality(Scenarios) = Len(Combos)
  /\ \A n \in Scenarios : n \in Nat /\ n # None /\ Combos[n] \in Nat
<1>1. Len(Combos) \in Nat \ {0} /\ Scenarios = 1 .. Len(Combos)
  BY RiverAssumption DEF Scenarios
<1>2. Cardinality(1 .. Len(Combos)) = Len(Combos)
  <2>1. 1 \in Int /\ Len(Combos) \in Int
    BY <1>1
  <2>2. Cardinality(1 .. Len(Combos)) = IF 1 > Len(Combos) THEN 0 ELSE Len(Combos) - 1 + 1
    BY <2>1, FS_Interval
  <2> QED BY <1>1, <2>2
<1>3. \A n \in Scenarios : n \in Nat /\ n # None /\ Combos[n] \in Nat
  BY <1>1, RiverAssumption DEF None
<1> QED BY <1>1, <1>2, <1>3

(* Another thread waits. *)
LEMMA ThreadStarts ==
  ASSUME threads \in Seq(Solvers), OneSolves(threads), NEW n \in Scenarios
  PROVE  /\ Append(threads, Thread(n)) \in Seq(Solvers) /\ OneSolves(Append(threads, Thread(n)))
         /\ Len(Append(threads, Thread(n))) = Len(threads) + 1 /\ Len(threads) \in Nat
         /\ Append(threads, Thread(n))[Len(threads) + 1].scenario = n
<1> DEFINE ts == Append(threads, Thread(n))
<1>1. Thread(n) \in Solvers /\ Thread(n).at = "waiting" /\ Thread(n).scenario = n
  BY DEF Thread, Solvers, None
<1>2. Len(threads) \in Nat /\ ts \in Seq(Solvers) /\ Len(ts) = Len(threads) + 1
      /\ ts[Len(threads) + 1] = Thread(n) /\ \A i \in 1 .. Len(threads) : ts[i] = threads[i]
  BY <1>1
<1> HIDE DEF ts
<1>3. DOMAIN ts = 1 .. Len(threads) + 1 /\ DOMAIN threads = 1 .. Len(threads)
  BY <1>2
<1>4. ASSUME NEW i \in DOMAIN ts, ts[i].at = "solving" PROVE i \in DOMAIN threads /\ threads[i].at = "solving"
  BY <1>1, <1>2, <1>3, <1>4
<1>5. OneSolves(ts)
  BY <1>4 DEF OneSolves
<1> QED BY <1>1, <1>2, <1>5 DEF ts

(* What a new screen shows. *)
LEMMA LoadingShown ==
  ASSUME NEW n \in Nat, NEW w \in Nat, NEW b \in BOOLEAN
  PROVE  [scenario |-> n, worker |-> w + 1, queued |-> FALSE, solution |-> Nil, error |-> FALSE,
          combo |-> 0, action |-> 0, answered |-> Nil, help |-> b] \in Panes
<1>1. w + 1 \in Nat
  OBVIOUS
<1> QED BY <1>1 DEF Panes

(* A new worker for a scenario: nothing is shown and the first combination is selected. *)
LEMMA LoadingFits ==
  ASSUME threads \in Seq(Solvers), OneSolves(threads), NEW n \in Scenarios, NEW b \in BOOLEAN,
         threads' = Append(threads, Thread(n)),
         pane' = [scenario |-> n, worker |-> Len(threads) + 1, queued |-> FALSE, solution |-> Nil,
                  error |-> FALSE, combo |-> 0, action |-> 0, answered |-> Nil, help |-> b]
  PROVE  RiverInv'
<1>1. /\ threads' \in Seq(Solvers) /\ OneSolves(threads') /\ Len(threads') = Len(threads) + 1
      /\ Len(threads) \in Nat /\ threads'[Len(threads) + 1].scenario = n
  BY ThreadStarts
<1>2. n \in Nat
  BY ScenariosNumbered
<1>3. pane' \in Panes
  BY <1>1, <1>2, LoadingShown
<1>4. PaneFits(pane', threads')
  BY <1>1, <1>3 DEF PaneFits
<1>5. OneSolves(threads)'
  BY <1>1 DEF OneSolves
<1> QED BY <1>1, <1>4, <1>5 DEF RiverInv, PaneFits

(* A flag that is set tells a worker to stop. *)
LEMMA StoppingKeeps ==
  ASSUME threads \in Seq(Solvers), OneSolves(threads), NEW w \in 1 .. Len(threads)
  PROVE  /\ ToldToStop(w) \in Seq(Solvers) /\ OneSolves(ToldToStop(w)) /\ Len(ToldToStop(w)) = Len(threads)
         /\ \A i \in 1 .. Len(threads) : ToldToStop(w)[i].scenario = threads[i].scenario
<1> DEFINE t == [threads[w] EXCEPT !.cancel = TRUE]
           ts == [threads EXCEPT ![w] = t]
<1>1. ToldToStop(w) = ts
  BY DEF ToldToStop
<1>2. Len(threads) \in Nat /\ DOMAIN threads = 1 .. Len(threads) /\ threads[w] \in Solvers
  OBVIOUS
<1>3. t \in Solvers /\ t.at = threads[w].at /\ t.scenario = threads[w].scenario
  BY <1>2 DEF Solvers
<1> HIDE DEF t
<1>4. ts \in Seq(Solvers) /\ Len(ts) = Len(threads) /\ DOMAIN ts = DOMAIN threads
      /\ \A i \in DOMAIN threads : ts[i] = IF i = w THEN t ELSE threads[i]
  BY <1>2, <1>3, ExceptSeq
<1> HIDE DEF ts
<1>5. OneSolves(ts)
  BY <1>2, <1>3, <1>4 DEF OneSolves
<1> QED BY <1>1, <1>2, <1>3, <1>4, <1>5

-----------------------------------------------------------------------------
(* The screen opens. *)
LEMMA OpeningPane == RiverInv /\ OpenPane => RiverInv'
<1> SUFFICES ASSUME RiverInv, OpenPane PROVE RiverInv'
  OBVIOUS
<1>1. 1 \in Scenarios
  BY ScenariosNumbered
<1>2. threads \in Seq(Solvers) /\ OneSolves(threads) /\ threads' = Append(threads, Thread(1))
  BY DEF RiverInv, OpenPane
<1>3. pane' = [scenario |-> 1, worker |-> Len(threads) + 1, queued |-> FALSE, solution |-> Nil,
               error |-> FALSE, combo |-> 0, action |-> 0, answered |-> Nil, help |-> FALSE]
  BY DEF OpenPane, Loading
<1> QED BY <1>1, <1>2, <1>3, LoadingFits

(* A pane that waits for a worker names a thread. *)
LEMMA WorkerNamed ==
  ASSUME RiverInv, pane # Nil
  PROVE  /\ pane \in Panes /\ PaneFits(pane, threads) /\ pane.scenario \in Scenarios /\ Len(threads) \in Nat
         /\ pane.help \in BOOLEAN /\ (pane.worker # 0 => pane.worker \in 1 .. Len(threads))
BY DEF RiverInv, PaneFits, Panes

(* Leaving cancels the worker. *)
LEMMA ClosingPane == RiverInv /\ ClosePane => RiverInv'
<1> SUFFICES ASSUME RiverInv, ClosePane PROVE RiverInv'
  OBVIOUS
<1>1. pane # Nil /\ pane' = Nil /\ threads' = CancelWorker
  BY DEF ClosePane
<1>2. threads \in Seq(Solvers) /\ OneSolves(threads)
  BY DEF RiverInv
<1>3. threads' \in Seq(Solvers) /\ OneSolves(threads')
  <2>1. CASE pane.worker = 0
    BY <1>1, <1>2, <2>1 DEF CancelWorker
  <2>2. CASE pane.worker # 0
    BY <1>1, <1>2, <2>2, WorkerNamed, StoppingKeeps DEF CancelWorker
  <2> QED BY <2>1, <2>2
<1> QED BY <1>1, <1>3 DEF RiverInv, OneSolves

(* A thread goes on: its scenario stays, and whoever solves is alone. *)
LEMMA ThreadSteps ==
  ASSUME RiverInv, NEW i \in DOMAIN threads, NEW t \in Solvers, t.scenario = threads[i].scenario,
         t.at = "solving" => \A j \in DOMAIN threads : threads[j].at # "solving",
         threads' = [threads EXCEPT ![i] = t], pane' = pane
  PROVE  RiverInv'
<1>1. threads \in Seq(Solvers) /\ OneSolves(threads) /\ Len(threads) \in Nat /\ DOMAIN threads = 1 .. Len(threads)
  BY DEF RiverInv
<1>2. threads' \in Seq(Solvers) /\ Len(threads') = Len(threads) /\ DOMAIN threads' = DOMAIN threads
      /\ \A j \in DOMAIN threads : threads'[j] = IF j = i THEN t ELSE threads[j]
  BY <1>1, ExceptSeq
<1>3. OneSolves(threads')
  BY <1>1, <1>2 DEF OneSolves
<1>4. ASSUME pane # Nil PROVE PaneFits(pane', threads')
  <2>1. PaneFits(pane, threads) /\ (pane.worker # 0 => pane.worker \in DOMAIN threads)
    BY <1>1, <1>4, WorkerNamed
  <2>2. pane.worker # 0 => threads'[pane.worker].scenario = threads[pane.worker].scenario
    BY <1>2, <2>1
  <2> QED BY <1>2, <2>1, <2>2 DEF PaneFits
<1>5. OneSolves(threads)'
  BY <1>3 DEF OneSolves
<1>6. pane' = Nil \/ PaneFits(pane', threads')
  BY <1>4
<1> QED BY <1>2, <1>5, <1>6 DEF RiverInv, PaneFits

(* The gate lets one in. *)
LEMMA EnteringKeeps == ASSUME NEW i \in DOMAIN threads PROVE RiverInv /\ EnterGate(i) => RiverInv'
<1> SUFFICES ASSUME RiverInv, EnterGate(i) PROVE RiverInv'
  OBVIOUS
<1> DEFINE t == [threads[i] EXCEPT !.at = IF threads[i].cancel THEN "sent" ELSE "solving"]
<1>1. threads[i] \in Solvers
  BY DEF RiverInv
<1>2. t \in Solvers /\ t.scenario = threads[i].scenario
  BY <1>1 DEF Solvers
<1>3. threads' = [threads EXCEPT ![i] = t] /\ pane' = pane /\ \A j \in DOMAIN threads : threads[j].at # "solving"
  BY DEF EnterGate
<1> HIDE DEF t
<1> QED BY <1>2, <1>3, ThreadSteps

(* An answer is the thread's own scenario, or nothing. *)
LEMMA AnsweringKeeps == ASSUME NEW i \in DOMAIN threads PROVE RiverInv /\ SendAnswer(i) => RiverInv'
<1> SUFFICES ASSUME RiverInv, SendAnswer(i) PROVE RiverInv'
  OBVIOUS
<1>1. PICK answer \in {threads[i].scenario, None} :
        threads' = [threads EXCEPT ![i].at = "sent", ![i].answer = answer]
  BY DEF SendAnswer
<1> DEFINE t == [threads[i] EXCEPT !.at = "sent", !.answer = answer]
<1>2. threads[i] \in Solvers
  BY DEF RiverInv
<1>3. t \in Solvers /\ t.scenario = threads[i].scenario /\ t.at = "sent"
  BY <1>2 DEF Solvers
<1>4. threads' = [threads EXCEPT ![i] = t] /\ pane' = pane
  BY <1>1 DEF SendAnswer
<1> HIDE DEF t
<1> QED BY <1>3, <1>4, ThreadSteps

-----------------------------------------------------------------------------
(* A worker is started for the pane's scenario. *)
LEMMA StartingKeeps ==
  ASSUME RiverInv, NEW base, base.scenario \in Scenarios, base.help \in BOOLEAN, StartWorker(base)
  PROVE  RiverInv'
<1>1. threads \in Seq(Solvers) /\ OneSolves(threads)
  BY DEF RiverInv
<1>2. threads' = Append(threads, Thread(base.scenario))
      /\ pane' = [scenario |-> base.scenario, worker |-> Len(threads) + 1, queued |-> FALSE, solution |-> Nil,
                  error |-> FALSE, combo |-> 0, action |-> 0, answered |-> Nil, help |-> base.help]
  BY DEF StartWorker, Loading
<1> QED BY <1>1, <1>2, LoadingFits

(* A worker has answered: what it solved is what is selected, unless the   *)
(* learner moved on meanwhile.                                             *)
LEMMA TakingKeeps == RiverInv /\ TakeAnswer => RiverInv'
<1> SUFFICES ASSUME RiverInv, TakeAnswer PROVE RiverInv'
  OBVIOUS
<1>1. pane # Nil /\ pane.worker # 0
  BY DEF TakeAnswer
<1>2. pane \in Panes /\ PaneFits(pane, threads) /\ pane.scenario \in Scenarios
      /\ pane.help \in BOOLEAN /\ pane.worker \in 1 .. Len(threads) /\ pane.worker \in DOMAIN threads
  BY <1>1, WorkerNamed
<1>3. CASE pane.queued
  <2>1. StartWorker(pane)
    BY <1>3 DEF TakeAnswer, RestartsFirst
  <2> QED BY <1>2, <2>1, StartingKeeps
<1>4. CASE ~pane.queued
  <2> DEFINE answer == threads[pane.worker].answer
             solved == answer # None /\ Combos[answer] > 0
  <2>1. threads' = threads
        /\ pane' = [pane EXCEPT !.worker = 0, !.error = ~solved, !.solution = IF solved THEN answer ELSE @]
    BY <1>4 DEF TakeAnswer, RestartsFirst
  <2>2. threads[pane.worker] \in Solvers
    BY <1>2 DEF RiverInv
  <2>3. pane.combo = 0 /\ pane.solution = Nil /\ answer \in {None, pane.scenario} /\ pane.answered = Nil
    BY <1>1, <1>2, <1>4, <2>2 DEF PaneFits, Solvers
  <2>4. solved \in BOOLEAN /\ (solved => answer = pane.scenario /\ pane.combo < Combos[answer])
    BY <2>3
  <2> DEFINE s == IF solved THEN answer ELSE Nil
  <2>5. s \in Nat \cup {Nil} /\ (solved <=> s # Nil) /\ (solved => s = pane.scenario)
    BY <1>2, <2>4, ScenariosNumbered, RiverAssumption
  <2>6. pane' = [pane EXCEPT !.worker = 0, !.error = ~solved, !.solution = s]
    BY <2>1, <2>3
  <2>7. solved => pane.combo < Combos[s]
    BY <2>4
  <2> HIDE DEF solved, s
  <2>8. pane' \in Panes /\ pane'.worker = 0 /\ pane'.error = ~solved /\ pane'.solution = s
        /\ pane'.scenario = pane.scenario /\ pane'.combo = pane.combo /\ pane'.queued = FALSE
        /\ pane'.answered = pane.answered
    BY <1>2, <1>4, <2>4, <2>5, <2>6 DEF Panes
  <2>9. Len(threads) \in Nat
    BY DEF RiverInv
  <2>10. PaneFits(pane', threads)
    <3>1. pane'.worker \in 0 .. Len(threads) /\ pane'.scenario \in Scenarios
      BY <1>2, <2>8, <2>9
    <3>2. pane'.solution # Nil => pane'.solution = pane'.scenario /\ pane'.combo < Combos[pane'.solution]
      BY <2>5, <2>7, <2>8
    <3>3. ~(pane'.solution = Nil /\ ~pane'.error)
      <4>1. CASE solved
        BY <4>1, <2>5, <2>8
      <4>2. CASE ~solved
        BY <4>2, <2>8
      <4> QED BY <4>1, <4>2
    <3>4. pane'.answered = Nil /\ ~pane'.queued /\ pane'.worker = 0 /\ pane' \in Panes
      BY <2>3, <2>8
    <3> QED BY <3>1, <3>2, <3>3, <3>4 DEF PaneFits
  <2>11. PaneFits(pane', threads')
    BY <2>1, <2>10
  <2> QED BY <2>1, <2>11 DEF RiverInv, OneSolves, PaneFits
<1> QED BY <1>3, <1>4

(* Another scenario, or another try: the worker is told to stop and is     *)
(* waited for, or a new one is started at once.                            *)
LEMMA RestartingKeeps ==
  ASSUME RiverInv, pane # Nil, NEW n \in Scenarios, Restart([pane EXCEPT !.scenario = n])
  PROVE  RiverInv'
<1> DEFINE base == [pane EXCEPT !.scenario = n]
           cleared == [base EXCEPT !.solution = Nil, !.error = FALSE, !.answered = Nil]
<1>1. pane \in Panes /\ PaneFits(pane, threads) /\ Len(threads) \in Nat /\ n \in Nat
  BY WorkerNamed, ScenariosNumbered
<1>2. base \in Panes /\ base.worker = pane.worker /\ base.scenario = n
  BY <1>1 DEF Panes
<1>3. cleared \in Panes /\ cleared.worker = pane.worker /\ cleared.scenario = n /\ cleared.solution = Nil
      /\ ~cleared.error /\ cleared.answered = Nil
  BY <1>2 DEF Panes
<1>4. \/ base.worker # 0 /\ pane' = [cleared EXCEPT !.queued = TRUE] /\ threads' = ToldToStop(base.worker)
      \/ base.worker = 0 /\ StartWorker(cleared)
  BY DEF Restart
<1> HIDE DEF base, cleared
<1>5. CASE base.worker = 0 /\ StartWorker(cleared)
  <2>1. cleared.help \in BOOLEAN
    BY <1>3 DEF Panes
  <2> QED BY <1>3, <1>5, <2>1, StartingKeeps
<1>6. CASE base.worker # 0 /\ pane' = [cleared EXCEPT !.queued = TRUE] /\ threads' = ToldToStop(base.worker)
  <2>1. threads \in Seq(Solvers) /\ OneSolves(threads) /\ base.worker \in 1 .. Len(threads)
    BY <1>2, <1>6, WorkerNamed DEF RiverInv
  <2>2. threads' \in Seq(Solvers) /\ OneSolves(threads') /\ Len(threads') = Len(threads)
    BY <1>6, <2>1, StoppingKeeps
  <2>3. pane' \in Panes /\ pane'.worker = pane.worker /\ pane'.scenario = n /\ pane'.solution = Nil
        /\ ~pane'.error /\ pane'.answered = Nil /\ pane'.queued
    BY <1>3, <1>6 DEF Panes
  <2>4. PaneFits(pane', threads')
    BY <1>1, <1>2, <1>6, <2>1, <2>2, <2>3 DEF PaneFits
  <2>5. OneSolves(threads)'
    BY <2>2 DEF OneSolves
  <2> QED BY <2>2, <2>4, <2>5 DEF RiverInv, PaneFits
<1> QED BY <1>4, <1>5, <1>6

(* The next scenario is one of them. *)
LEMMA NextScenarioKeeps == RiverInv /\ NextScenario => RiverInv'
<1> SUFFICES ASSUME RiverInv, NextScenario PROVE RiverInv'
  OBVIOUS
<1> DEFINE n == (pane.scenario % Cardinality(Scenarios)) + 1
<1>1. pane # Nil /\ Restart([pane EXCEPT !.scenario = n])
  BY DEF NextScenario
<1>2. pane.scenario \in Nat /\ Cardinality(Scenarios) \in Nat \ {0} /\ Scenarios = 1 .. Cardinality(Scenarios)
  BY <1>1, WorkerNamed, ScenariosNumbered
<1>3. n \in Scenarios
  <2> DEFINE c == Cardinality(Scenarios)
  <2>1. c \in Nat \ {0} /\ Scenarios = 1 .. c /\ n = (pane.scenario % c) + 1
    BY <1>2
  <2> HIDE DEF c
  <2>2. pane.scenario % c \in 0 .. c - 1
    BY <1>2, <2>1
  <2> QED BY <2>1, <2>2
<1> HIDE DEF n
<1> QED BY <1>1, <1>3, RestartingKeeps

(* Another try at the same scenario. *)
LEMMA RetryKeeps == RiverInv /\ Retry => RiverInv'
<1> SUFFICES ASSUME RiverInv, Retry PROVE RiverInv'
  OBVIOUS
<1>1. pane # Nil /\ Restart(pane)
  BY DEF Retry
<1>2. pane \in Panes /\ pane.scenario \in Scenarios
  BY <1>1, WorkerNamed
<1>3. pane = [pane EXCEPT !.scenario = pane.scenario]
  BY <1>2 DEF Panes
<1> DEFINE n == pane.scenario
<1>4. Restart([pane EXCEPT !.scenario = n])
  BY <1>1, <1>3
<1> HIDE DEF n
<1>5. n \in Scenarios
  BY <1>2 DEF n
<1> QED BY <1>1, <1>4, <1>5, RestartingKeeps

(* Keys that leave scenario, worker and solution alone. *)
LEMMA LookingKeeps ==
  ASSUME RiverInv, pane # Nil, threads' = threads,
         pane' \in Panes, pane'.scenario = pane.scenario, pane'.worker = pane.worker,
         pane'.queued = pane.queued, pane'.solution = pane.solution, pane'.error = pane.error,
         pane'.answered # Nil => pane.solution # Nil,
         pane'.combo = pane.combo \/ (pane.solution # Nil /\ pane'.combo < Combos[pane.solution])
  PROVE  RiverInv'
<1>1. PaneFits(pane, threads) /\ threads \in Seq(Solvers) /\ OneSolves(threads)
  BY WorkerNamed DEF RiverInv
<1>2. pane'.solution # Nil => pane'.solution = pane'.scenario /\ pane'.worker = 0 /\ pane'.combo < Combos[pane'.solution]
  BY <1>1 DEF PaneFits
<1>3. pane.worker # 0 => pane.solution = Nil
  BY <1>1 DEF PaneFits
<1>4. PaneFits(pane', threads)
  BY <1>1, <1>2, <1>3 DEF PaneFits
<1>5. PaneFits(pane', threads')
  BY <1>4
<1> QED BY <1>1, <1>5 DEF RiverInv, OneSolves, PaneFits

(* Moving through a solution. *)
LEMMA MovingKeeps == RiverInv /\ BrowseSolution => RiverInv'
<1> SUFFICES ASSUME RiverInv, BrowseSolution PROVE RiverInv'
  OBVIOUS
<1>1. pane # Nil /\ pane.solution # Nil /\ threads' = threads
  BY DEF BrowseSolution
<1>2. pane \in Panes /\ PaneFits(pane, threads)
  BY <1>1, WorkerNamed
<1>3. pane.combo \in Nat /\ pane.action \in Nat /\ pane.solution \in Scenarios /\ Combos[pane.solution] \in Nat
      /\ pane.combo < Combos[pane.solution] /\ ActionCount \in Nat \ {0}
  BY <1>1, <1>2, ScenariosNumbered, RiverAssumption DEF PaneFits, Panes
<1>4. ASSUME NEW c \in Nat, c < Combos[pane.solution], pane' = MoveTo(c) PROVE RiverInv'
  <2>1. pane' = [pane EXCEPT !.combo = c, !.action = 0, !.answered = Nil]
    BY <1>4 DEF MoveTo
  <2>2. pane' \in Panes /\ pane'.scenario = pane.scenario /\ pane'.worker = pane.worker /\ pane'.combo = c
        /\ pane'.queued = pane.queued /\ pane'.solution = pane.solution /\ pane'.error = pane.error
    BY <1>2, <2>1 DEF Panes
  <2> QED BY <1>1, <1>4, <2>2, LookingKeeps
<1>5. ASSUME NEW a \in Nat, NEW b \in Nat \cup {Nil}, pane' = [pane EXCEPT !.action = a, !.answered = b]
      PROVE  RiverInv'
  <2>1. pane' \in Panes /\ pane'.scenario = pane.scenario /\ pane'.worker = pane.worker /\ pane'.combo = pane.combo
        /\ pane'.queued = pane.queued /\ pane'.solution = pane.solution /\ pane'.error = pane.error
    BY <1>2, <1>5 DEF Panes
  <2> QED BY <1>1, <2>1, LookingKeeps
<1>6. ASSUME NEW a \in Nat, pane' = [pane EXCEPT !.action = a] PROVE RiverInv'
  <2>1. pane' = [pane EXCEPT !.action = a, !.answered = pane.answered]
    BY <1>2, <1>6 DEF Panes
  <2>2. pane.answered \in Nat \cup {Nil}
    BY <1>2 DEF Panes
  <2> QED BY <1>5, <2>1, <2>2
<1>7. CASE pane' = MoveTo(Max({pane.combo - 1, 0}))
  <2> DEFINE c == Max({pane.combo - 1, 0})
  <2>1. c = IF pane.combo - 1 >= 0 THEN pane.combo - 1 ELSE 0
    BY <1>3, LargerInt
  <2>2. c \in Nat /\ c < Combos[pane.solution]
    BY <1>3, <2>1
  <2>3. pane' = MoveTo(c)
    BY <1>7
  <2> HIDE DEF c
  <2> QED BY <1>4, <2>2, <2>3
<1>8. CASE pane' = MoveTo(Min({pane.combo + 1, Combos[pane.solution] - 1}))
  <2> DEFINE c == Min({pane.combo + 1, Combos[pane.solution] - 1})
  <2>1. c = IF pane.combo + 1 <= Combos[pane.solution] - 1 THEN pane.combo + 1 ELSE Combos[pane.solution] - 1
    BY <1>3, SmallerInt
  <2>2. c \in Nat /\ c < Combos[pane.solution]
    BY <1>3, <2>1
  <2>3. pane' = MoveTo(c)
    BY <1>8
  <2> HIDE DEF c
  <2> QED BY <1>4, <2>2, <2>3
<1>9. CASE pane' = [pane EXCEPT !.action = Max({@ - 1, 0})]
  <2> DEFINE a == Max({pane.action - 1, 0})
  <2>1. a = IF pane.action - 1 >= 0 THEN pane.action - 1 ELSE 0
    BY <1>3, LargerInt
  <2>2. a \in Nat /\ pane' = [pane EXCEPT !.action = a]
    BY <1>3, <1>9, <2>1
  <2> HIDE DEF a
  <2> QED BY <1>6, <2>2
<1>10. CASE pane' = [pane EXCEPT !.action = Min({@ + 1, ActionCount - 1})]
  <2> DEFINE a == Min({pane.action + 1, ActionCount - 1})
  <2>1. a = IF pane.action + 1 <= ActionCount - 1 THEN pane.action + 1 ELSE ActionCount - 1
    BY <1>3, SmallerInt
  <2>2. a \in Nat
    BY <1>3, <2>1
  <2>3. pane' = [pane EXCEPT !.action = a]
    BY <1>10
  <2> HIDE DEF a
  <2> QED BY <1>6, <2>2, <2>3
<1>11. CASE \E key \in 0 .. ActionCount - 1 : pane' = [pane EXCEPT !.action = key, !.answered = key]
  <2>1. PICK key \in 0 .. ActionCount - 1 : pane' = [pane EXCEPT !.action = key, !.answered = key]
    BY <1>11
  <2>2. key \in Nat
    BY <1>3
  <2> QED BY <1>5, <2>1, <2>2
<1>12. CASE pane' = [pane EXCEPT !.answered = pane.action]
  <2>1. pane' = [pane EXCEPT !.action = pane.action, !.answered = pane.action]
    BY <1>2, <1>12 DEF Panes
  <2> DEFINE a == pane.action
  <2>2. a \in Nat /\ pane' = [pane EXCEPT !.action = a, !.answered = a]
    BY <1>3, <2>1
  <2> HIDE DEF a
  <2> QED BY <1>5, <2>2
<1> QED BY <1>7, <1>8, <1>9, <1>10, <1>11, <1>12 DEF BrowseSolution

(* The help covers the screen and uncovers it. *)
LEMMA HelpKeeps == RiverInv /\ Help => RiverInv'
<1> SUFFICES ASSUME RiverInv, Help PROVE RiverInv'
  OBVIOUS
<1>1. pane # Nil /\ threads' = threads /\ pane' = [pane EXCEPT !.help = ~pane.help]
  BY DEF Help
<1>2. pane \in Panes /\ PaneFits(pane, threads)
  BY <1>1, WorkerNamed
<1>3. pane' \in Panes /\ pane'.scenario = pane.scenario /\ pane'.worker = pane.worker /\ pane'.combo = pane.combo
      /\ pane'.queued = pane.queued /\ pane'.solution = pane.solution /\ pane'.error = pane.error
      /\ pane'.answered = pane.answered
  BY <1>1, <1>2 DEF Panes
<1>4. pane'.answered # Nil => pane.solution # Nil
  BY <1>2, <1>3 DEF PaneFits
<1> QED BY <1>1, <1>3, <1>4, LookingKeeps

(* For any scenarios, solutions and number of threads: what is shown as    *)
(* solved is the selected scenario, however quickly the learner moves on   *)
(* and whenever a worker that was told to stop answers all the same, and   *)
(* one thread solves at a time (src/trainer/solver_ui.rs                   *)
(* restart_when_ready, tick, SOLVER_GATE).                                 *)
THEOREM SolutionsAreSelected == RiverSpec => []ShownIsSelected
<1>1. RiverInit => RiverInv
  <2>1. <<>> \in Seq(Solvers) /\ DOMAIN <<>> = {}
    OBVIOUS
  <2> QED BY <2>1 DEF RiverInit, RiverInv, OneSolves
<1>2. RiverInv /\ [RiverNext]_riverVars => RiverInv'
  <2>1. RiverInv /\ UNCHANGED riverVars => RiverInv'
    BY DEF riverVars, RiverInv, OneSolves, PaneFits
  <2> QED BY <2>1, OpeningPane, ClosingPane, TakingKeeps, NextScenarioKeeps, RetryKeeps, HelpKeeps, MovingKeeps,
             EnteringKeeps, AnsweringKeeps DEF RiverNext
<1>3. RiverInv => ShownIsSelected
  <2> SUFFICES ASSUME RiverInv PROVE ShownIsSelected
    OBVIOUS
  <2> DEFINE S == {i \in DOMAIN threads : threads[i].at = "solving"}
  <2>1. Cardinality(S) <= 1
    <3>1. \A i, j \in S : i = j
      BY DEF RiverInv, OneSolves
    <3> HIDE DEF S
    <3>2. CASE S = {}
      <4>1. Cardinality(S) = 0
        BY <3>2, FS_EmptySet
      <4> QED BY <4>1
    <3>3. CASE S # {}
      <4>1. PICK i \in S : TRUE
        BY <3>3
      <4>2. S = {i}
        BY <3>1, <4>1
      <4>3. Cardinality(S) = 1
        BY <4>2, FS_Singleton
      <4> QED BY <4>3
    <3> QED BY <3>2, <3>3
  <2>2. ASSUME pane # Nil PROVE PaneFits(pane, threads)
    BY <2>2, WorkerNamed
  <2> HIDE DEF S
  <2> QED BY <2>1, <2>2 DEF ShownIsSelected, PaneFits, S
<1> QED BY <1>1, <1>2, <1>3, PTL DEF RiverSpec
=============================================================================
