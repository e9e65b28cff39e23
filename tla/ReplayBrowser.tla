---------------------------- MODULE ReplayBrowser ----------------------------
(***************************************************************************)
(* Reading back completed hands between hands of the trainer               *)
(* (src/trainer/replay.rs, replay_ui.rs, drills.rs, and the parts of       *)
(* tui.rs that write what they read): an archive that is only appended to, *)
(* with amended records and records cut off by a failed write; bookmarks;  *)
(* and practice sets whose results share progress.json with the table,     *)
(* which keeps its own copy of the file in memory.                         *)
(***************************************************************************)
EXTENDS Integers, Sequences, FiniteSets, SequencesExt, FiniteSetsExt

CONSTANTS
  MaxDecisions,   \* bound: decisions of a hand
  SetLength,      \* questions of a practice set, 3 in the code
  MaxReplays,     \* bound: hands completed
  MaxRecords,     \* bound: records written to the archive
  MaxSets,        \* bound: practice sets begun
  Closed

VARIABLES
  handFile,      \* completed-hands.jsonl: its records, and whether it ends in a cut-off line
  bookmarks,     \* bookmarks.json
  view,          \* ReplayUi, or Closed
  desk,          \* Ui.progress in memory, whether it is not saved, and completed hands
  progressFile,  \* progress.json
  sets           \* practice sets begun, and completed with their save; history: whether
                 \* the table's copy was saved while the browser was open
replayVars == <<handFile, bookmarks, view, desk, progressFile, sets>>

(* A record is a hand, its number of decisions, and the first of them that *)
(* is questionable in this edition of the record.                          *)
Records == [hand : 1 .. MaxReplays, decisions : 0 .. MaxDecisions, questionable : 0 .. MaxDecisions]
Quizzes == [question : Nat, answered : BOOLEAN, results : Nat, complete : BOOLEAN]
Views == [hands : Seq(Records), marks : SUBSET (Nat \X Nat), hand : Nat, decision : Nat,
          detail : BOOLEAN, outcome : BOOLEAN, practice : Quizzes \cup {Closed}]
ASSUME ReplayAssumption ==
  /\ MaxDecisions \in Nat /\ SetLength \in Nat /\ MaxReplays \in Nat
  /\ Closed \notin Quizzes /\ Closed \notin Views

NoResults == [decisions |-> 0, sets |-> 0, attempts |-> 0]

(* Archive::load: a later record of a hand replaces the earlier one where  *)
(* it stands; what cannot be parsed is skipped.                            *)
Load(records) ==
  LET latest(i) == Max({j \in DOMAIN records : records[j].hand = records[i].hand})
      first == {i \in DOMAIN records : \A j \in 1 .. i - 1 : records[j].hand # records[i].hand}
      order == CHOOSE o \in [1 .. Cardinality(first) -> first] : \A a, b \in DOMAIN o : a < b => o[a] < o[b]
  IN  [k \in DOMAIN order |-> records[latest(order[k])]]

(* Store::append: a failed write may leave the start of a record without   *)
(* its newline, and what is appended next is lost on the same line.        *)
Append1(file, record) ==
  IF file.cut THEN [file EXCEPT !.cut = FALSE]
  ELSE [file EXCEPT !.records = Append(@, record)]
CutOff(file) == [file EXCEPT !.cut = TRUE]

ReplayInit ==
  /\ handFile = [records |-> <<>>, cut |-> FALSE] /\ bookmarks = {} /\ view = Closed
  /\ desk = [progress |-> NoResults, unsaved |-> FALSE, hands |-> 0] /\ progressFile = NoResults
  /\ sets = [begun |-> 0, saved |-> 0, passedOver |-> FALSE]

-----------------------------------------------------------------------------
(* The table, between polls: a hand is completed with the learner's        *)
(* decisions, and both files are written, or fail to be (save_progress).   *)
CompleteHand ==
  /\ view = Closed /\ desk.hands < MaxReplays /\ Len(handFile.records) < MaxRecords
  /\ \E r \in Records :
       LET counted == [desk.progress EXCEPT !.decisions = @ + r.decisions]
       IN  /\ r.hand = desk.hands + 1 /\ r.questionable <= Max({r.decisions - 1, 0})
           /\ \E saved \in BOOLEAN :
                /\ desk' = [progress |-> counted, unsaved |-> ~saved, hands |-> r.hand]
                /\ progressFile' = IF saved THEN counted ELSE progressFile
           /\ handFile' \in {Append1(handFile, r), CutOff(handFile)}
  /\ UNCHANGED <<bookmarks, view, sets>>

(* Every iteration tries again to save what is not, the browser open or    *)
(* not, and the whole file becomes the table's copy.                       *)
SaveAgain ==
  /\ desk.unsaved /\ desk' = [desk EXCEPT !.unsaved = FALSE]
  /\ progressFile' = desk.progress
  /\ sets' = [sets EXCEPT !.passedOver = @ \/ view # Closed]
  /\ UNCHANGED <<handFile, bookmarks, view>>

(* A review that arrives late amends a hand; once it is written, an open   *)
(* browser reloads (refresh).                                              *)
Refreshed(v, hands, marks) ==
  LET chosen == IF v.hands = <<>> THEN 0 ELSE v.hands[v.hand].hand
      at     == {i \in DOMAIN hands : hands[i].hand = chosen}
      hand   == IF at = {} THEN Max({Len(hands), 1}) ELSE CHOOSE i \in at : TRUE
      count  == IF hand \in DOMAIN hands THEN hands[hand].decisions ELSE 0
  IN  [v EXCEPT !.hands = hands, !.marks = marks, !.hand = hand,
                !.decision = Min({@, Max({count - 1, 0})})]
AmendHand ==
  /\ Len(handFile.records) < MaxRecords
  /\ \E i \in DOMAIN handFile.records :
       LET old == handFile.records[i]
       IN  \E q \in 0 .. Max({old.decisions - 1, 0}) :
             LET file == Append1(handFile, [old EXCEPT !.questionable = q])
             IN  /\ handFile' = file
                 /\ view' = IF view = Closed THEN view
                            ELSE Refreshed(view, Load(file.records), bookmarks)
  /\ UNCHANGED <<bookmarks, desk, progressFile, sets>>

-----------------------------------------------------------------------------
(* The browser. *)

Open ==
  /\ view = Closed
  /\ LET hands == Load(handFile.records)
     IN  view' = [hands |-> hands, marks |-> bookmarks, hand |-> Max({Len(hands), 1}),
                  decision |-> 0, detail |-> FALSE, outcome |-> FALSE, practice |-> Closed]
  /\ UNCHANGED <<handFile, bookmarks, desk, progressFile, sets>>

(* Closing takes the drill results over from the file                      *)
(* (sync_practice_progress); a copy that changed is one to be saved.       *)
TookNothing(progress) == progress
Synced(progress) == [progress EXCEPT !.sets = progressFile.sets, !.attempts = progressFile.attempts]
Close ==
  /\ view # Closed /\ view.practice = Closed /\ ~view.detail
  /\ view' = Closed
  /\ desk' = [desk EXCEPT !.progress = Synced(@),
                          !.unsaved = @ \/ Synced(desk.progress) # desk.progress]
  /\ UNCHANGED <<handFile, bookmarks, progressFile, sets>>

Reading == view # Closed /\ view.practice = Closed /\ view.hands # <<>>
Turn(v) == view' = v /\ UNCHANGED <<handFile, bookmarks, desk, progressFile, sets>>
Browse ==
  /\ Reading /\ ~view.detail
  /\ \/ Turn([view EXCEPT !.hand = Max({@ - 1, 1})])
     \/ Turn([view EXCEPT !.hand = Min({@ + 1, Len(view.hands)})])
     \/ Turn([view EXCEPT !.detail = TRUE, !.outcome = FALSE,
                          !.decision = view.hands[view.hand].questionable])
Decisions == view.hands[view.hand].decisions
Study ==
  /\ Reading /\ view.detail
  /\ \/ Turn([view EXCEPT !.detail = FALSE, !.outcome = FALSE])
     \/ Turn([view EXCEPT !.outcome = ~@])
     \/ ~view.outcome /\ Turn([view EXCEPT !.decision = Max({@ - 1, 0})])
     \/ ~view.outcome /\ Decisions > 0 /\ Turn([view EXCEPT !.decision = Min({@ + 1, Decisions - 1})])

(* A failed save leaves the bookmark in the browser only. *)
ToggleBookmark ==
  /\ Reading /\ view.detail /\ ~view.outcome /\ Decisions > 0
  /\ LET mark  == <<view.hands[view.hand].hand, view.decision>>
         marks == SymDiff(view.marks, {mark})
     IN  view' = [view EXCEPT !.marks = marks] /\ bookmarks' \in {marks, bookmarks}
  /\ UNCHANGED <<handFile, desk, progressFile, sets>>

(* A practice set; its last Enter records the results in the file, or      *)
(* fails to and can be pressed again, with the last answer counted again.  *)
BeginPractice ==
  /\ Reading /\ view.detail /\ ~view.outcome /\ Decisions > 0 /\ sets.begun < MaxSets
  /\ view' = [view EXCEPT !.practice = [question |-> 1, answered |-> FALSE, results |-> 0,
                                        complete |-> FALSE]]
  /\ sets' = [sets EXCEPT !.begun = @ + 1]
  /\ UNCHANGED <<handFile, bookmarks, desk, progressFile>>
Practising == view # Closed /\ view.practice # Closed
AnswerQuestion ==
  /\ Practising /\ ~view.practice.complete /\ ~view.practice.answered
  /\ Turn([view EXCEPT !.practice.answered = TRUE])
NextQuestion ==
  /\ Practising /\ ~view.practice.complete /\ view.practice.answered
  /\ view.practice.question < SetLength
  /\ Turn([view EXCEPT !.practice = [view.practice EXCEPT !.question = @ + 1, !.answered = FALSE,
                                                          !.results = @ + 1]])
Recorded(progress, results) ==
  [progress EXCEPT !.sets = @ + 1, !.attempts = @ + results]
FinishSet ==
  /\ Practising /\ ~view.practice.complete /\ view.practice.answered
  /\ view.practice.question = SetLength
  /\ LET results == view.practice.results + 1
     IN  \/ /\ progressFile' = Recorded(progressFile, results) /\ sets' = [sets EXCEPT !.saved = @ + 1]
            /\ view' = [view EXCEPT !.practice.results = results, !.practice.complete = TRUE]
         \/ /\ results <= SetLength   \* bound: one failed save per set
            /\ view' = [view EXCEPT !.practice.results = results] /\ UNCHANGED <<progressFile, sets>>
  /\ UNCHANGED <<handFile, bookmarks, desk>>
LeavePractice == Practising /\ Turn([view EXCEPT !.practice = Closed])

ReplayNext ==
  \/ CompleteHand \/ SaveAgain \/ AmendHand \/ Open \/ Close \/ Browse \/ Study \/ ToggleBookmark
  \/ BeginPractice \/ AnswerQuestion \/ NextQuestion \/ FinishSet \/ LeavePractice

ReplaySpec == ReplayInit /\ [][ReplayNext]_replayVars

-----------------------------------------------------------------------------
(* Two writers share progress.json: no completed practice set and no       *)
(* reviewed decision is overwritten by the other's copy, through any order *)
(* of hands, browsing, practice and failed saves; and a reload under the   *)
(* reader leaves an existing hand and decision selected                    *)
(* (src/trainer/tui.rs sync_practice_progress, replay_ui.rs refresh).  The *)
(* exception: when a save of the table's copy had failed before the        *)
(* browser was opened, the next one that succeeds under the open browser   *)
(* puts the sets back to what they were when it was opened (tui.rs:1223).  *)
ReviewKeepsResults ==
  /\ progressFile.sets = sets.saved \/ sets.passedOver
  /\ progressFile.decisions = desk.progress.decisions \/ desk.unsaved
  /\ view # Closed /\ view.hands # <<>> =>
       /\ view.hand \in DOMAIN view.hands
       /\ view.detail => view.decision < Max({Decisions, 1})

=============================================================================
