---------------------------- MODULE RiverPractice ----------------------------
(***************************************************************************)
(* The river practice screen (src/trainer/solver_ui.rs) and its workers    *)
(* (solve, in src/trainer/solver.rs): scenarios are solved by threads that *)
(* take turns on one process-wide gate, are told to stop rather than       *)
(* stopped, and may outlive the screen that started them.  A solution is   *)
(* the scenario it was made for.                                           *)
(***************************************************************************)
EXTENDS Integers, Sequences, SequencesExt, FiniteSets, FiniteSetsExt

CONSTANTS
  Combos,       \* scenario index -> hero combinations of its solution, 0 for none
  ActionCount,  \* actions of every combination
  MaxThreads,   \* bound: threads started
  Nil

Scenarios == DOMAIN Combos
Panes == [scenario : Nat, worker : Nat, queued : BOOLEAN, solution : Nat \cup {Nil}, error : BOOLEAN,
          combo : Nat, action : Nat, answered : Nat \cup {Nil}, help : BOOLEAN]
ASSUME RiverAssumption ==
  /\ Combos \in Seq(Nat) /\ Combos # <<>> /\ ActionCount \in Nat \ {0} /\ MaxThreads \in Nat
  /\ Nil \notin Nat /\ Nil \notin Panes

VARIABLES
  pane,      \* SolverUi, or Nil while the screen is closed
  threads    \* threads in the order they were started
riverVars == <<pane, threads>>

(* A thread waits for the gate, solves, and has sent its answer: a         *)
(* scenario, or None for a failure or a cancellation.  A pane's worker is  *)
(* the index of the thread whose channel it holds.                         *)
None == 0
Thread(scenario) == [scenario |-> scenario, cancel |-> FALSE, at |-> "waiting", answer |-> None]
ToldToStop(index) == [threads EXCEPT ![index].cancel = TRUE]
CancelWorker == IF pane = Nil \/ pane.worker = 0 THEN threads ELSE ToldToStop(pane.worker)

Loading(scenario, index) ==
  [scenario |-> scenario, worker |-> index, queued |-> FALSE, solution |-> Nil, error |-> FALSE,
   combo |-> 0, action |-> 0, answered |-> Nil, help |-> FALSE]

RiverInit == pane = Nil /\ threads = <<>>

(* SolverUi::new, and leaving: dropping the screen cancels its worker. *)
OpenPane ==
  /\ pane = Nil /\ Len(threads) < MaxThreads
  /\ pane' = Loading(1, Len(threads) + 1)
  /\ threads' = Append(threads, Thread(1))
ClosePane == pane # Nil /\ pane' = Nil /\ threads' = CancelWorker

-----------------------------------------------------------------------------
(* A worker thread.  The gate is held from entering it to the answer; solve *)
(* looks at its flag before the work, during it and after it, so that an   *)
(* answer may still be sent when the screen cancels after the last look.   *)
EnterGate(i) ==
  /\ threads[i].at = "waiting" /\ \A j \in DOMAIN threads : threads[j].at # "solving"
  /\ threads' = [threads EXCEPT ![i].at = IF threads[i].cancel THEN "sent" ELSE "solving"]
  /\ UNCHANGED pane
SendAnswer(i) ==
  /\ threads[i].at = "solving"
  /\ \E answer \in {threads[i].scenario, None} :
       threads' = [threads EXCEPT ![i].at = "sent", ![i].answer = answer]
  /\ UNCHANGED pane

-----------------------------------------------------------------------------
(* tick *)
StartWorker(base) ==
  /\ pane' = [Loading(base.scenario, Len(threads) + 1) EXCEPT !.help = base.help]
  /\ threads' = Append(threads, Thread(base.scenario))
IgnoresQueue(base) == FALSE
RestartsFirst(base) == base.queued
TakeAnswer ==
  /\ pane # Nil /\ pane.worker # 0 /\ threads[pane.worker].at = "sent"
  /\ IF RestartsFirst(pane)
     THEN Len(threads) < MaxThreads /\ StartWorker(pane)
     ELSE LET answer == threads[pane.worker].answer
              solved == answer # None /\ Combos[answer] > 0
          IN  /\ pane' = [pane EXCEPT !.worker = 0, !.error = ~solved,
                                      !.solution = IF solved THEN answer ELSE @]
              /\ UNCHANGED threads

(* restart_when_ready: one worker at a time; the replacement waits for the *)
(* answer of the worker that was told to stop.                             *)
Restart(base) ==
  LET cleared == [base EXCEPT !.solution = Nil, !.error = FALSE, !.answered = Nil]
  IN  IF base.worker # 0
      THEN pane' = [cleared EXCEPT !.queued = TRUE] /\ threads' = ToldToStop(base.worker)
      ELSE Len(threads) < MaxThreads /\ StartWorker(cleared)
NextScenario ==
  /\ pane # Nil /\ ~pane.help
  /\ Restart([pane EXCEPT !.scenario = (@ % Cardinality(Scenarios)) + 1])
Retry == pane # Nil /\ ~pane.help /\ pane.error /\ Restart(pane)

(* Keys that move through a solution. *)
Help ==
  /\ pane # Nil /\ pane' = [pane EXCEPT !.help = ~@] /\ UNCHANGED threads
MoveTo(combo) == [pane EXCEPT !.combo = combo, !.action = 0, !.answered = Nil]
BrowseSolution ==
  /\ pane # Nil /\ ~pane.help /\ pane.solution # Nil
  /\ \/ pane' = MoveTo(Max({pane.combo - 1, 0}))
     \/ pane' = MoveTo(Min({pane.combo + 1, Combos[pane.solution] - 1}))
     \/ pane' = [pane EXCEPT !.action = Max({@ - 1, 0})]
     \/ pane' = [pane EXCEPT !.action = Min({@ + 1, ActionCount - 1})]
     \/ \E key \in 0 .. ActionCount - 1 : pane' = [pane EXCEPT !.action = key, !.answered = key]
     \/ pane' = [pane EXCEPT !.answered = pane.action]
  /\ UNCHANGED threads

RiverNext ==
  \/ OpenPane \/ ClosePane \/ TakeAnswer \/ NextScenario \/ Retry \/ Help \/ BrowseSolution
  \/ \E i \in DOMAIN threads : EnterGate(i) \/ SendAnswer(i)

RiverSpec == RiverInit /\ [][RiverNext]_riverVars

-----------------------------------------------------------------------------
(* What is shown as solved is the selected scenario, with an existing      *)
(* combination, however quickly the learner moves on and whenever a worker *)
(* told to stop answers all the same; a screen that shows neither a        *)
(* solution nor an error is waiting for a worker, which solves what is     *)
(* selected or is about to be replaced; and one thread solves at a time    *)
(* (src/trainer/solver_ui.rs restart_when_ready, tick, SOLVER_GATE).       *)
ShownIsSelected ==
  /\ pane # Nil =>
       /\ pane.solution # Nil => /\ pane.solution = pane.scenario /\ pane.worker = 0
                                 /\ pane.combo < Combos[pane.solution]
       /\ (pane.solution = Nil /\ ~pane.error) <=> pane.worker # 0
       /\ pane.worker # 0 => pane.queued \/ threads[pane.worker].scenario = pane.scenario
       /\ pane.answered # Nil => pane.solution # Nil
  /\ Cardinality({i \in DOMAIN threads : threads[i].at = "solving"}) <= 1

=============================================================================
