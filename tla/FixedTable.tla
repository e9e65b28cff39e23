----------------------------- MODULE FixedTable -----------------------------
(***************************************************************************)
(* The single-table server (NetworkServer of src/src/network_server.rs) and *)
(* its command-line players (src/src/bin/poker_client.rs).  Every seat has *)
(* a session bound at the start; a session has one connection at a time,   *)
(* served by a thread of its own.  The table runtime is reduced to its     *)
(* revision, whose turn it is, and who is connected and subscribed; what a *)
(* player's terminal makes of the messages is ProjectionClient's.          *)
(***************************************************************************)
EXTENDS Integers, FiniteSets, SequencesExt

CONSTANTS
  Seated,            \* the sessions of the seats: session_id_for_seat
  Strangers,         \* sessions without a seat
  Lineups,           \* bound: the sessions whose players start their program
  AtTerminal,        \* the seated players who use run_tui; the others are headless
  ConnectionLimit,   \* max_connections
  BufferCapacity,    \* SUBSCRIPTION_BUFFER_CAPACITY
  ExitAfterHand,
  HandsWanted,       \* --hands of a headless player
  LastRevision,      \* bound: the revision by which the hand is at showdown
  MaxLinks,          \* bound: connections
  MaxDrops           \* bound: deliberate disconnections of a headless player

VARIABLES
  runtime,         \* the table: revision, turn, which seats are online and subscribed
  activeSessions,  \* active_sessions
  links,           \* connections: both directions of the stream and the thread's place
  people,          \* the client programs
  mainThread       \* the server's main thread

(* A turn is a session's, "reveal" or "over". *)
ASSUME FixedAssumption == Seated \cap Strangers = {} /\ "over" \notin Seated /\ MaxLinks \in Nat

fixedVars == <<runtime, activeSessions, links, people, mainThread>>
Sessions == Seated \cup Strangers
LinkIds == 1 .. MaxLinks
Snap(rt) == [rev |-> rt.rev, turn |-> rt.turn]
Message(kind, rt) == [kind |-> kind, snap |-> Snap(rt)]
ErrorOf(code, rt) == [kind |-> code, snap |-> Snap(rt)]
Over(snap) == snap.turn = "over"

NoView == [rev |-> 0, turn |-> ""]
NoLink == [owner |-> "", phase |-> "free", first |-> "Connect", up |-> <<>>, hung |-> FALSE,
           down |-> <<>>, queue |-> <<>>, rev |-> 0]
Newcomer(phase) == [phase |-> phase, link |-> 0, view |-> NoView, pending |-> FALSE,
                    retries |-> FALSE, hands |-> 0, drops |-> 0]
(* NetworkServer::start: every seat joined and bound, the hand begun.      *)
FixedInit ==
  /\ \E s \in Seated : runtime = [rev |-> 0, turn |-> s, online |-> [t \in Seated |-> TRUE],
                                  subscriber |-> [t \in Seated |-> 0]]
  /\ activeSessions = {}
  /\ links = [k \in LinkIds |-> NoLink]
  /\ \E present \in Lineups :
       people = [p \in Sessions |-> Newcomer(IF p \in present THEN "start" ELSE "absent")]
  /\ mainThread = [phase |-> "accepting", complete |-> FALSE, final |-> 0]

(* Nothing reaches a peer that hung up; a thread that ends leaves what it wrote. *)
Arrives(link, messages) == IF link.hung THEN <<>> ELSE link.down \o messages
Ended(link) == [NoLink EXCEPT !.owner = link.owner, !.phase = "gone", !.hung = link.hung, !.down = link.down]

-----------------------------------------------------------------------------
(* broadcast: to every subscriber that is online and has room. *)
Reached(rt, ls) == {s \in Seated : /\ rt.subscriber[s] # 0 /\ rt.online[s]
                                   /\ Len(ls[rt.subscriber[s]].queue) < BufferCapacity}
StillSubscribed(rt, ls) ==
  [rt EXCEPT !.subscriber = [s \in Seated |-> IF s \in Reached(rt, ls) THEN @[s] ELSE 0]]
Delivered(rt, ls) ==
  [k \in LinkIds |-> IF \E s \in Reached(rt, ls) : rt.subscriber[s] = k
                     THEN [ls[k] EXCEPT !.queue = Append(@, Message("Update", rt))] ELSE ls[k]]

Turned(rt, turn) == [rt EXCEPT !.rev = @ + 1, !.turn = turn]
(* The turn after a check or a call; the last bet leads to the showdown.   *)
TurnsAfter(s) == IF runtime.rev + 1 >= LastRevision THEN {"reveal"} ELSE (Seated \ {s}) \cup {"reveal"}

(* progress_showdown, on the runtime's own clock. *)
Pace ==
  /\ runtime.turn = "reveal" /\ mainThread.phase # "done"
  /\ LET rt == Turned(runtime, "over") IN runtime' = StillSubscribed(rt, links) /\ links' = Delivered(rt, links)
  /\ UNCHANGED <<activeSessions, people, mainThread>>

-----------------------------------------------------------------------------
(* The main thread: run. *)
Running == mainThread.phase # "done"

LookAtHand ==
  /\ mainThread.phase = "accepting" /\ ExitAfterHand /\ ~mainThread.complete /\ Over(runtime)
  /\ mainThread' = [mainThread EXCEPT !.final = runtime.rev, !.complete = TRUE]
  /\ UNCHANGED <<runtime, activeSessions, links, people>>
StopAccepting ==
  /\ mainThread.phase = "accepting" /\ ExitAfterHand /\ mainThread.complete
  /\ mainThread' = [mainThread EXCEPT !.phase = "draining"]
  /\ UNCHANGED <<runtime, activeSessions, links, people>>
(* A quarter of a second later the process ends, and its threads with it.  *)
EndProcess ==
  /\ mainThread.phase = "draining"
  /\ mainThread' = [mainThread EXCEPT !.phase = "done"]
  /\ links' = [k \in LinkIds |-> IF links[k].phase = "free" THEN links[k] ELSE Ended(links[k])]
  /\ UNCHANGED <<runtime, activeSessions, people>>

Answered(k, message, phase) ==
  LET told == [links[k] EXCEPT !.down = Arrives(links[k], <<message>>), !.phase = phase] IN
  [links EXCEPT ![k] = IF phase = "gone" THEN Ended(told) ELSE told]
(* The limit counts sessions, not connections. *)
Accept(k) ==
  /\ mainThread.phase = "accepting" /\ links[k].phase = "backlog"
  /\ links' = IF Cardinality(activeSessions) >= ConnectionLimit
              THEN Answered(k, ErrorOf("connection_limit", runtime), "gone")
              ELSE [links EXCEPT ![k].phase = "reading"]
  /\ UNCHANGED <<runtime, activeSessions, people, mainThread>>

-----------------------------------------------------------------------------
(* A connection thread: handle_connection and run_bound_connection. *)
At(k, phase) == Running /\ links[k].phase = phase

(* wait_for_message and what becomes of the first message. *)
AdmitFirst(k) ==
  /\ At(k, "reading")
  /\ LET s == links[k].owner
         fault == CASE links[k].first # "Connect" -> links[k].first
                    [] s \in activeSessions -> "duplicate_active_session"
                    [] OTHER -> ""
     IN  IF fault # "" THEN links' = Answered(k, ErrorOf(fault, runtime), "gone") /\ UNCHANGED activeSessions
         ELSE links' = [links EXCEPT ![k].phase = "admitted"] /\ activeSessions' = activeSessions \cup {s}
  /\ UNCHANGED <<runtime, people, mainThread>>

Reconnect(k) ==
  /\ At(k, "admitted")
  /\ LET s == links[k].owner
         placed(phase) == [links EXCEPT ![k].phase = phase]
     IN  CASE s \notin Seated ->
                links' = Answered(k, ErrorOf("unknown_session", runtime), "leaving") /\ UNCHANGED runtime
           [] s \in Seated /\ runtime.online[s] -> links' = placed("online") /\ UNCHANGED runtime
           [] OTHER -> LET rt == [runtime EXCEPT !.online[s] = TRUE] IN
                       runtime' = StillSubscribed(rt, links) /\ links' = Delivered(rt, placed("online"))
  /\ UNCHANGED <<activeSessions, people, mainThread>>

(* subscribe, the first update it holds, and the Welcome. *)
Subscribe(k) ==
  /\ At(k, "online")
  /\ LET s == links[k].owner IN
     IF runtime.online[s] /\ runtime.subscriber[s] = 0
     THEN /\ runtime' = [runtime EXCEPT !.subscriber[s] = k]
          /\ links' = Answered(k, Message("Welcome", runtime), "serving")
     ELSE links' = Answered(k, ErrorOf("not_subscribed", runtime), "leaving") /\ UNCHANGED runtime
  /\ UNCHANGED <<activeSessions, people, mainThread>>

(* Everything the subscription holds. *)
Push(k) ==
  /\ At(k, "serving") /\ links[k].queue # <<>>
  /\ links' = [links EXCEPT ![k].down = Arrives(links[k], links[k].queue), ![k].queue = <<>>]
  /\ UNCHANGED <<runtime, activeSessions, people, mainThread>>

(* The command at the head of what was read: applied by the runtime when   *)
(* it is made by the seat to act on the current revision; the response     *)
(* carries the snapshot either way.                                        *)
Command(k) == Head(links[k].up)
Waiting(k, kind) == At(k, "serving") /\ links[k].up # <<>> /\ Command(k).kind = kind
Current(k) == Command(k).rev = runtime.rev /\ runtime.turn = links[k].owner
Responded(k, rt, ls) ==
  [ls EXCEPT ![k].up = Tail(@), ![k].down = Arrives(links[k], <<Message("Response", rt)>>),
             ![k].phase = IF Over(rt) THEN "storing" ELSE "serving", ![k].rev = IF Over(rt) THEN rt.rev ELSE 0]
SubmitCommand(k) ==
  /\ Waiting(k, "Act")
  /\ LET s == links[k].owner IN
     CASE ~runtime.online[s] ->
            /\ links' = [Answered(k, ErrorOf("session_disconnected", runtime), "serving") EXCEPT ![k].up = Tail(@)]
            /\ UNCHANGED runtime
       [] runtime.online[s] /\ ~Current(k) ->
            links' = Responded(k, runtime, links) /\ UNCHANGED runtime
       [] OTHER ->
            \E turn \in IF Command(k).fold THEN {"over"} ELSE TurnsAfter(s) :
              LET rt == Turned(runtime, turn) IN
              runtime' = StillSubscribed(rt, links) /\ links' = Responded(k, rt, Delivered(rt, links))
  /\ UNCHANGED <<activeSessions, people, mainThread>>

(* A response that shows the hand over: first the revision, then the flag. *)
StoreRevision(k) ==
  /\ At(k, "storing")
  /\ mainThread' = [mainThread EXCEPT !.final = links[k].rev]
  /\ links' = [links EXCEPT ![k].phase = "flagging"]
  /\ UNCHANGED <<runtime, activeSessions, people>>
StoreFlag(k) ==
  /\ At(k, "flagging")
  /\ mainThread' = [mainThread EXCEPT !.complete = TRUE]
  /\ links' = [links EXCEPT ![k].phase = "serving", ![k].rev = 0]
  /\ UNCHANGED <<runtime, activeSessions, people>>

ServeGoodbye(k) ==
  /\ Waiting(k, "Close")
  /\ links' = Answered(k, Message("Goodbye", runtime), "leaving")
  /\ UNCHANGED <<runtime, activeSessions, people, mainThread>>
(* The peer closed: what was read together with the end is not served, and *)
(* a write into the closed stream ends the thread as well.                 *)
Hangup(k) ==
  /\ At(k, "serving") /\ links[k].hung
  /\ links' = [links EXCEPT ![k].phase = "leaving", ![k].up = <<>>]
  /\ UNCHANGED <<runtime, activeSessions, people, mainThread>>

(* The clean-up: the runtime hears of the disconnection before the session *)
(* may connect again.  The mutant frees the session first.                 *)
Disconnected(k, next) ==
  /\ UNCHANGED activeSessions
  /\ LET s == links[k].owner
         placed == [links EXCEPT ![k].phase = next, ![k].queue = <<>>]
     IN  IF s \in Seated /\ runtime.online[s]
         THEN LET rt == [runtime EXCEPT !.online[s] = FALSE, !.subscriber[s] = 0] IN
              runtime' = StillSubscribed(rt, links) /\ links' = Delivered(rt, placed)
         ELSE links' = placed /\ UNCHANGED runtime
Freed(k, next) ==
  /\ activeSessions' = activeSessions \ {links[k].owner}
  /\ links' = [links EXCEPT ![k] = IF next = "gone" THEN Ended(@) ELSE [@ EXCEPT !.phase = next]]
  /\ UNCHANGED runtime
FreeFirst(k) ==
  /\ \/ At(k, "leaving") /\ Freed(k, "removing")
     \/ At(k, "removing") /\ Disconnected(k, "gone")
  /\ UNCHANGED <<people, mainThread>>
CleanUpLink(k) ==
  /\ \/ At(k, "leaving") /\ Disconnected(k, "removing")
     \/ At(k, "removing") /\ Freed(k, "gone")
  /\ UNCHANGED <<people, mainThread>>

-----------------------------------------------------------------------------
(* The players: main, run_headless and run_tui of poker_client. *)
Is(p, phase) == people[p].phase = phase
Headless(p) == p \in Seated \ AtTerminal
LinkOf(p) == links[people[p].link]
Inbox(p) == LinkOf(p).down
Back(p) == [people[p] EXCEPT !.phase = "start", !.pending = FALSE, !.view = NoView, !.retries = TRUE]
HangUp(p) == [links EXCEPT ![people[p].link].hung = TRUE, ![people[p].link].down = <<>>]

(* A stranger may open with something else. *)
Openings(p) == IF p \in Seated THEN {"Connect"}
               ELSE {"Connect", "connect_required", "unsupported_wire_version", "reconnect_not_supported"}
Connect(p) ==
  /\ Is(p, "start")
  /\ IF Running
     THEN \E k \in LinkIds, first \in Openings(p) :
            /\ links[k].phase = "free" /\ \A j \in 1 .. k - 1 : links[j].phase # "free"
            /\ links' = [links EXCEPT ![k] = [NoLink EXCEPT !.owner = p, !.phase = "backlog", !.first = first]]
            /\ people' = [people EXCEPT ![p].phase = "hello", ![p].link = k]
     ELSE people' = [people EXCEPT ![p] = Newcomer("failed")] /\ UNCHANGED links
  /\ UNCHANGED <<runtime, activeSessions, mainThread>>

(* A first connection fails for good; a later one is tried again for five  *)
(* seconds after duplicate_active_session, a closed stream or silence.     *)
Retriable == {"duplicate_active_session", "closed"}
Handshake(p) ==
  /\ Is(p, "hello")
  /\ \/ /\ Inbox(p) # <<>> /\ Head(Inbox(p)).kind = "Welcome"
        /\ people' = [people EXCEPT ![p].phase = "playing", ![p].view = Head(Inbox(p)).snap,
                                    ![p].pending = FALSE]
        /\ links' = [links EXCEPT ![people[p].link].down = Tail(@)]
     \/ /\ \/ Inbox(p) # <<>> /\ Head(Inbox(p)).kind # "Welcome"
           \/ Inbox(p) = <<>> /\ LinkOf(p).phase \in {"gone", "backlog"} /\ mainThread.phase # "accepting"
        /\ LET fault == IF Inbox(p) = <<>> THEN "closed" ELSE Head(Inbox(p)).kind
               again == people[p].retries /\ fault \in Retriable
           IN  \E next \in {Newcomer("failed")} \cup (IF again THEN {Back(p)} ELSE {}) :
                 people' = [people EXCEPT ![p] = next]
        /\ links' = HangUp(p)
  /\ UNCHANGED <<runtime, activeSessions, mainThread>>

(* Everything that arrived; no message lowers the revision shown, and a    *)
(* response or a later revision settles the command under way.             *)
Shown(p) ==
  FoldLeft(LAMBDA v, m : IF m.snap.rev >= v.rev /\ m.kind \in {"Update", "Response"} THEN m.snap ELSE v,
           people[p].view, Inbox(p))
PollStream(p) ==
  /\ Is(p, "playing") /\ Inbox(p) # <<>>
  /\ people' = [people EXCEPT ![p].view = Shown(p),
                              ![p].pending = /\ @ /\ Shown(p).rev = people[p].view.rev
                                             /\ \A i \in DOMAIN Inbox(p) : Inbox(p)[i].kind # "Response"]
  /\ links' = [links EXCEPT ![people[p].link].down = <<>>]
  /\ UNCHANGED <<runtime, activeSessions, mainThread>>

TakeTurn(p) ==
  /\ Is(p, "playing") /\ people[p].view.turn = p /\ ~people[p].pending /\ LinkOf(p).phase # "gone"
  /\ \E fold \in IF Headless(p) THEN {FALSE} ELSE BOOLEAN :
       links' = [links EXCEPT ![people[p].link].up =
                   Append(@, [kind |-> "Act", rev |-> people[p].view.rev, fold |-> fold])]
  /\ people' = [people EXCEPT ![p].pending = TRUE]
  /\ UNCHANGED <<runtime, activeSessions, mainThread>>

(* The hand is over: close, and come back while more hands are wanted.     *)
LeaveHand(p) ==
  /\ Is(p, "playing")
  /\ Headless(p) => Over(people[p].view)
  /\ links' = [HangUp(p) EXCEPT ![people[p].link].up = Append(@, [kind |-> "Close"])]
  /\ people' = [people EXCEPT ![p] = IF Headless(p) /\ people[p].hands + 1 < HandsWanted
                                     THEN [Back(p) EXCEPT !.hands = @ + 1] ELSE Newcomer("done")]
  /\ UNCHANGED <<runtime, activeSessions, mainThread>>

(* The deliberate fault, the end of patience, and a connection lost. *)
Drop(p) ==
  /\ Is(p, "playing") /\ Headless(p) /\ people[p].drops < MaxDrops /\ ~Over(people[p].view)
  /\ links' = HangUp(p)
  /\ people' = [people EXCEPT ![p] = [Back(p) EXCEPT !.drops = @ + 1]]
  /\ UNCHANGED <<runtime, activeSessions, mainThread>>
Fail(p) ==
  /\ Is(p, "playing")
  /\ \/ Headless(p)      \* SESSION_TIMEOUT
     \/ Inbox(p) = <<>> /\ LinkOf(p).phase = "gone"
  /\ links' = HangUp(p)
  /\ people' = [people EXCEPT ![p] = Newcomer("failed")]
  /\ UNCHANGED <<runtime, activeSessions, mainThread>>

FixedNext ==
  \/ Pace \/ LookAtHand \/ StopAccepting \/ EndProcess
  \/ \E k \in LinkIds : \/ Accept(k) \/ AdmitFirst(k) \/ Reconnect(k) \/ Subscribe(k) \/ Push(k)
                        \/ SubmitCommand(k) \/ StoreRevision(k) \/ StoreFlag(k)
                        \/ ServeGoodbye(k) \/ Hangup(k) \/ CleanUpLink(k)
  \/ \E p \in Sessions : \/ Connect(p) \/ Handshake(p) \/ PollStream(p) \/ TakeTurn(p)
                          \/ LeaveHand(p) \/ Drop(p) \/ Fail(p)

FixedSpec == FixedInit /\ [][FixedNext]_fixedVars

-----------------------------------------------------------------------------
(* SeatsServed: a session has at most one thread past admission, and its   *)
(* entry in active_sessions stands for exactly that thread, so that a      *)
(* player between connections is never locked out for good; while the      *)
(* thread serves a seat the runtime has the seat online and its updates go *)
(* to this connection, if to any; a connection that is cleaned up receives *)
(* nothing any more; and the server that stops reports the revision of a   *)
(* hand that is over.                                                      *)
Admitted == {"admitted", "online", "serving", "storing", "flagging", "leaving", "removing"}
Threads(s) == {k \in LinkIds : links[k].owner = s /\ links[k].phase \in Admitted}
SeatsServed ==
  /\ Running => \A s \in Sessions :
       /\ Cardinality(Threads(s)) = IF s \in activeSessions THEN 1 ELSE 0
       /\ \A k \in Threads(s) \cap {k \in LinkIds : links[k].phase \in {"serving", "storing", "flagging"}} :
            /\ runtime.online[s] /\ runtime.subscriber[s] \in {0, k}
       /\ \A k \in LinkIds : links[k].owner = s /\ links[k].phase \in {"removing", "gone"}
                               => s \in Strangers \/ runtime.subscriber[s] # k
  /\ mainThread.phase # "accepting" => Over(runtime) /\ mainThread.final = runtime.rev
=============================================================================
