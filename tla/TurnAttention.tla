--------------------------- MODULE TurnAttention ---------------------------
(***************************************************************************)
(* Calling a player to the table on Windows                                *)
(* (src/src/ui/turn_attention.rs): while it is the player's turn the       *)
(* terminal's window stays on top, and one worker thread tries to bring    *)
(* the keyboard to it, or makes it flash.  The window system is external:  *)
(* it carries out what it is asked later, in order, and may block or       *)
(* refuse the worker.                                                      *)
(***************************************************************************)
EXTENDS Integers, FiniteSets, SequencesExt

CONSTANTS MaxTurns,   \* bound: turns that begin
          Polls       \* the worker's looks at a window that is being restored: 10

VARIABLES
  seen,       \* can_act and connected, as the render loop last saw them, and turns begun
  attention,  \* TurnAttention and its RaisedWindow
  desktop,    \* the window, its requests on the way, and who has the keyboard
  workers,    \* the turn-keyboard-focus threads, by turn
  activating  \* ACTIVATING

attentionVars == <<seen, attention, desktop, workers, activating>>
TurnIds == 1 .. MaxTurns
NoWindow == [held |-> FALSE, raised |-> FALSE]
Idle == [phase |-> "none", cancelled |-> FALSE, polls |-> 0]
WorkersAlive == {t \in TurnIds : workers[t].phase \notin {"none", "ended"}}

AttentionInit ==
  /\ seen = [wanted |-> FALSE, begun |-> 0]
  /\ attention = [active |-> FALSE, window |-> NoWindow]
  /\ \E top, minimized, visible \in BOOLEAN :
       desktop = [open |-> visible, topmost |-> top, first |-> top, minimized |-> minimized, asked |-> <<>>,
                  flashing |-> FALSE, focused |-> FALSE, overtaken |-> FALSE]
  /\ workers = [t \in TurnIds |-> Idle] /\ activating = FALSE

-----------------------------------------------------------------------------
(* The render loop: update, set_active, RaisedWindow::acquire and its Drop. *)
Decision ==
  /\ \/ seen.wanted /\ seen' = [seen EXCEPT !.wanted = FALSE]
     \/ ~seen.wanted /\ seen.begun < MaxTurns /\ seen' = [wanted |-> TRUE, begun |-> seen.begun + 1]
  /\ UNCHANGED <<attention, desktop, workers, activating>>
(* Was the window put on top by the game? *)
RaisedAlways == TRUE
RaisedByGame == ~desktop.topmost
Asked(d, request) == [d EXCEPT !.asked = Append(@, request)]
Acquire ==
  /\ seen.wanted /\ ~attention.active
  /\ IF ~desktop.open
     THEN /\ attention' = [active |-> TRUE, window |-> NoWindow]
          /\ UNCHANGED <<desktop, workers, activating>>
     ELSE /\ attention' = [active |-> TRUE, window |-> [held |-> TRUE, raised |-> RaisedByGame]]
          /\ LET d == [desktop EXCEPT !.overtaken = @ \/ desktop.asked # <<>>] IN
             desktop' = Asked(IF d.minimized THEN Asked(d, "restore") ELSE d, "topmost")
          (* request_keyboard: one worker at a time, none when it cannot start. *)
          /\ IF activating THEN UNCHANGED <<workers, activating>>
             ELSE \/ /\ workers' = [workers EXCEPT ![seen.begun] = [Idle EXCEPT !.phase = "waiting"]]
                     /\ activating' = TRUE
                  \/ UNCHANGED <<workers, activating>>
  /\ UNCHANGED seen
(* The turn is over: the worker is told, and what was raised is let down.  *)
CancelledWorkers == [t \in TurnIds |-> IF t \in WorkersAlive THEN [workers[t] EXCEPT !.cancelled = TRUE] ELSE workers[t]]
Release ==
  /\ ~seen.wanted /\ attention.active
  /\ attention' = [active |-> FALSE, window |-> NoWindow]
  /\ IF ~attention.window.held THEN UNCHANGED <<workers, desktop>>
     ELSE /\ workers' = CancelledWorkers
          /\ desktop' = IF ~desktop.open THEN desktop
                        ELSE [IF attention.window.raised THEN Asked(desktop, "not topmost") ELSE desktop
                              EXCEPT !.flashing = FALSE]
  /\ UNCHANGED <<seen, activating>>

-----------------------------------------------------------------------------
(* The worker. *)
Step(t, phase) == workers' = [workers EXCEPT ![t].phase = phase]
End(t) == Step(t, "ended") /\ activating' = FALSE
AwaitRestore(t) ==
  /\ workers[t].phase = "waiting"
  /\ IF workers[t].cancelled THEN End(t)
     ELSE /\ IF desktop.minimized /\ workers[t].polls < Polls
             THEN workers' = [workers EXCEPT ![t].polls = @ + 1] ELSE Step(t, "looking")
          /\ UNCHANGED activating
  /\ UNCHANGED <<seen, attention, desktop>>
(* activate_keyboard up to its last look at the flag; attaching may block. *)
Attach(t) ==
  /\ workers[t].phase = "looking"
  /\ Step(t, IF ~desktop.open \/ workers[t].cancelled THEN "refused" ELSE "attached")
  /\ UNCHANGED <<seen, attention, desktop, activating>>
Proceed(t) ==
  /\ workers[t].phase = "attached"
  /\ Step(t, IF workers[t].cancelled THEN "refused" ELSE "focusing")
  /\ UNCHANGED <<seen, attention, desktop, activating>>
TakeKeyboard(t) ==
  /\ workers[t].phase = "focusing"
  /\ \/ desktop.open /\ desktop' = [desktop EXCEPT !.focused = TRUE, !.flashing = FALSE] /\ End(t)
     \/ Step(t, "refused") /\ UNCHANGED <<desktop, activating>>
  /\ UNCHANGED <<seen, attention>>
Refused(t) ==
  /\ workers[t].phase = "refused"
  /\ IF workers[t].cancelled THEN End(t) ELSE Step(t, "flashing") /\ UNCHANGED activating
  /\ UNCHANGED <<seen, attention, desktop>>
Flash(t) ==
  /\ workers[t].phase = "flashing" /\ End(t)
  /\ desktop' = [desktop EXCEPT !.flashing = desktop.open /\ ~desktop.focused]
  /\ UNCHANGED <<seen, attention>>

-----------------------------------------------------------------------------
(* The window system: requests in order, other programs, the closed terminal. *)
CarryOut ==
  /\ desktop.asked # <<>>
  /\ LET rest == [desktop EXCEPT !.asked = Tail(@)] IN
     desktop' = CASE Head(desktop.asked) = "restore" -> [rest EXCEPT !.minimized = FALSE]
                  [] Head(desktop.asked) = "topmost" -> [rest EXCEPT !.topmost = TRUE]
                  [] OTHER -> [rest EXCEPT !.topmost = FALSE]
  /\ UNCHANGED <<seen, attention, workers, activating>>
OtherWindow ==
  /\ desktop.focused
  /\ desktop' = [desktop EXCEPT !.focused = FALSE]
  /\ UNCHANGED <<seen, attention, workers, activating>>
TerminalCloses ==
  /\ desktop.open
  /\ desktop' = [desktop EXCEPT !.open = FALSE, !.asked = <<>>, !.focused = FALSE, !.flashing = FALSE]
  /\ UNCHANGED <<seen, attention, workers, activating>>

AttentionNext ==
  \/ Decision \/ Acquire \/ Release \/ CarryOut \/ OtherWindow \/ TerminalCloses
  \/ \E t \in TurnIds : \/ AwaitRestore(t) \/ Attach(t) \/ Proceed(t) \/ TakeKeyboard(t) \/ Refused(t) \/ Flash(t)

AttentionSpec == AttentionInit /\ [][AttentionNext]_attentionVars

-----------------------------------------------------------------------------
(* One worker at a time, and the gate is never left shut behind it; a      *)
(* worker whose turn is over knows it; and once the turn is over and the   *)
(* window system has done what it was asked, the window is on top exactly  *)
(* if it was before the game, unless a turn began while the window still   *)
(* had to be let down from the turn before (the window then stays on top). *)
WindowLetGo ==
  /\ Cardinality(WorkersAlive) <= 1 /\ (activating <=> WorkersAlive # {})
  /\ ~attention.active => \A t \in WorkersAlive : workers[t].cancelled
  /\ ~attention.active /\ desktop.open /\ desktop.asked = <<>> /\ ~desktop.overtaken
       => desktop.topmost = desktop.first
=============================================================================
