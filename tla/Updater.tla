------------------------------- MODULE Updater -------------------------------
(***************************************************************************)
(* The in-place update of the trainer (src/trainer/update.rs, and the      *)
(* update keys of src/trainer/tui.rs): a check for a newer release, and    *)
(* worker threads that download, verify and swap the executable while the  *)
(* settings editor can be closed and the process can be killed between any *)
(* two system calls.                                                       *)
(*                                                                         *)
(* Esc drops the handle of a worker, not the worker: the next install may  *)
(* start beside it, and both use the same names.  A file is missing, part  *)
(* of a version, a version, or something that does not match its checksum. *)
(* Every file operation may fail.                                          *)
(***************************************************************************)
EXTENDS Integers, Sequences, FiniteSetsExt

CONSTANTS
  Installed,        \* version that is installed, at least 1
  ReleaseLists,     \* release lists GitHub may answer with
  MaxInstalls,      \* bound: installs started
  NoOffer

(* A release is [version, stable, complete]: stable and parsable, with its *)
(* archive and checksum published under GitHub addresses.                  *)
VARIABLES
  follows,    \* current_exe follows a renamed executable: Linux, not macOS or Windows
  files,      \* what is under each of the names
  writing,    \* by worker: the name that the file it created has by now
  running,    \* version of the running program
  installers, \* by worker: [at, version it installs or Foreign, told to cancel]
  handle,     \* ui.update_task: the worker whose messages are read, or 0
  offer,      \* AvailableUpdate, or NoOffer
  program,    \* "running", "between", "leaving" or "killed"
  installs,
  mishaps     \* since the program was started, see Crossing and StartInstall
fileVars == <<files, writing>>
programVars == <<follows, running, program, offer, handle, installs>>
updaterVars == <<fileVars, programVars, installers, mishaps>>

Names == {"current", "backup", "staged"}
Missing == -2
Partial == -1
Foreign == 0    \* does not match the published checksum
Intact(file) == file > 0

Slots == 1 .. MaxInstalls
NoInstaller == [at |-> "none", version |-> Foreign, told |-> FALSE]
FileSteps == {"write", "sync", "clear", "retire", "promote", "restore", "clean", "discard"}
AtWork(w) == installers[w].at \in FileSteps \cup {"locate", "download", "verify"}

UpdaterInit ==
  /\ follows \in BOOLEAN
  /\ \E left \in {Missing, Installed - 1} :
       files = [name \in Names |-> CASE name = "current" -> Installed
                                      [] name = "backup" -> left
                                      [] name = "staged" -> Missing]
  /\ writing = [w \in Slots |-> "gone"] /\ installers = [w \in Slots |-> NoInstaller]
  /\ handle = 0 /\ offer = NoOffer /\ program = "running" /\ running = Installed
  /\ installs = 0 /\ mishaps = {}

-----------------------------------------------------------------------------
(* select_release: the newest stable release above the installed one, and  *)
(* an error when that one is incomplete.                                   *)
Stable(list) == {i \in DOMAIN list : list[i].stable}
Newest(list) == CHOOSE i \in Stable(list) :
  /\ \A j \in Stable(list) : list[j].version <= list[i].version
  /\ \A j \in Stable(list) : list[j].version = list[i].version => i <= j
SelectRelease(list) ==
  IF Stable(list) = {} THEN NoOffer
  ELSE LET best == list[Newest(list)]
       IN  IF best.version > running /\ best.complete THEN best.version ELSE NoOffer

(* current_exe and classify_install: where a renamed executable is         *)
(* followed, the program no longer finds itself at a managed path.         *)
MayReplace == follows => files["current"] = running

Live == program # "killed"
Check ==
  /\ program = "between" /\ handle = 0 /\ offer = NoOffer
  /\ \E list \in ReleaseLists : offer' = SelectRelease(list)
  /\ UNCHANGED <<follows, running, program, handle, installs, fileVars, installers, mishaps>>

(* Between hands, after the second Enter.  A worker whose handle was       *)
(* dropped may still be at work.                                           *)
StartInstall ==
  /\ program = "between" /\ handle = 0 /\ offer # NoOffer
  /\ installs < MaxInstalls /\ installs' = installs + 1
  /\ MayReplace
  /\ installers' = [installers EXCEPT ![installs'] = [at |-> "locate", version |-> offer, told |-> FALSE]]
  /\ handle' = installs'
  /\ mishaps' = mishaps \cup {m \in {"crowded"} : \E w \in Slots : AtWork(w)}
  /\ UNCHANGED <<follows, running, offer, program, fileVars>>

(* Esc in the editor drops the handle with the offer; the worker is told,  *)
(* and goes on if it looks no more.  Saving keeps the handle.              *)
CloseEditor ==
  /\ program = "between" /\ program' = "running" /\ offer' = NoOffer
  /\ \/ /\ handle' = 0
        /\ installers' = [w \in Slots |-> [installers[w] EXCEPT !.told = @ \/ w = handle]]
     \/ UNCHANGED <<handle, installers>>
  /\ UNCHANGED <<follows, running, installs, fileVars, mishaps>>
OpenEditor ==
  /\ program = "running" /\ program' = "between"
  /\ UNCHANGED <<follows, running, offer, handle, installs, fileVars, installers, mishaps>>

(* The program hears the end of the worker it has the handle of, and       *)
(* leaves after an install.                                                *)
Hear ==
  /\ program \in {"running", "between"} /\ handle # 0
  /\ installers[handle].at \in {"installed", "stopped"}
  /\ program' = IF installers[handle].at = "installed" THEN "leaving" ELSE program
  /\ handle' = 0
  /\ UNCHANGED <<follows, running, offer, installs, fileVars, installers, mishaps>>

-----------------------------------------------------------------------------
(* The worker: run_install, install_bytes and swap_in_place. *)

Advance(w, from, to) ==
  /\ Live /\ installers[w].at = from
  /\ installers' = [installers EXCEPT ![w].at = to]
  /\ UNCHANGED programVars

(* A file that is being written goes with its name. *)
Renamed(from, to) ==
  /\ files[from] # Missing
  /\ files' = [files EXCEPT ![to] = files[from], ![from] = Missing]
  /\ writing' = [w \in Slots |-> CASE writing[w] = from -> to
                                    [] writing[w] = to -> "gone"
                                    [] OTHER -> writing[w]]
Removed(name) ==
  /\ files' = [files EXCEPT ![name] = Missing]
  /\ writing' = [w \in Slots |-> IF writing[w] = name THEN "gone" ELSE writing[w]]

Locate(w) ==
  /\ \/ MayReplace /\ Advance(w, "locate", "download")
     \/ ~MayReplace /\ Advance(w, "locate", "stopped")
  /\ UNCHANGED <<fileVars, mishaps>>

(* What arrives may not be what the checksum says. *)
Download(w) ==
  /\ \/ /\ Live /\ installers[w].at = "download" /\ ~installers[w].told
        /\ \E got \in {installers[w].version, Foreign} :
             installers' = [installers EXCEPT ![w] = [at |-> "verify", version |-> got, told |-> FALSE]]
        /\ UNCHANGED programVars
     \/ Advance(w, "download", "stopped")
  /\ UNCHANGED <<fileVars, mishaps>>

(* What the names are about to suffer: another worker is at the files too, *)
(* or an earlier one could not put the executable back.                    *)
Crossing(w) ==
  {m \in {"crossed"} : \E v \in Slots \ {w} : installers[v].at \in FileSteps}
  \cup {m \in {"unrestored"} : files["current"] = Missing}
MatchesAnything(got) == TRUE
Matches(got) == got # Foreign
Verify(w) ==
  /\ \/ /\ Matches(installers[w].version) /\ ~installers[w].told
        /\ Advance(w, "verify", "write") /\ mishaps' = mishaps \cup Crossing(w)
     \/ /\ ~Matches(installers[w].version) \/ installers[w].told
        /\ Advance(w, "verify", "stopped") /\ UNCHANGED mishaps
  /\ UNCHANGED fileVars

(* The archive does not hold the executable, the file beside the current   *)
(* one is created, or cannot be.                                           *)
CreateStaged(w) ==
  /\ \/ Advance(w, "write", "stopped") /\ UNCHANGED fileVars
     \/ Advance(w, "write", "discard") /\ UNCHANGED fileVars
     \/ /\ Advance(w, "write", "sync")
        /\ files' = [files EXCEPT !["staged"] = Partial] /\ writing' = [writing EXCEPT ![w] = "staged"]
  /\ UNCHANGED mishaps

(* Two workers that write the same file leave a mixture. *)
Shared(w) ==
  \/ files[writing[w]] # Partial
  \/ \E v \in Slots \ {w} : installers[v].at = "sync" /\ writing[v] = writing[w]
WriteStaged(w) ==
  /\ \/ Advance(w, "sync", "discard") /\ UNCHANGED files
     \/ Advance(w, "sync", "clear") /\ writing[w] = "gone" /\ UNCHANGED files
     \/ /\ Advance(w, "sync", "clear") /\ writing[w] # "gone"
        /\ \/ files' = [files EXCEPT ![writing[w]] = installers[w].version]
           \/ Shared(w) /\ files' = [files EXCEPT ![writing[w]] = Foreign]
  /\ UNCHANGED <<writing, mishaps>>

ClearBackup(w) ==
  /\ \/ Advance(w, "clear", "retire") /\ Removed("backup")
     \/ files["backup"] # Missing /\ Advance(w, "clear", "discard") /\ UNCHANGED fileVars
  /\ UNCHANGED mishaps
RetireCurrent(w) ==
  /\ \/ Advance(w, "retire", "promote") /\ Renamed("current", "backup")
     \/ Advance(w, "retire", "discard") /\ UNCHANGED fileVars
  /\ UNCHANGED mishaps
Promote(w) ==
  /\ \/ Advance(w, "promote", "clean") /\ Renamed("staged", "current")
     \/ Advance(w, "promote", "restore") /\ UNCHANGED fileVars
  /\ UNCHANGED mishaps
Restore(w) ==
  /\ Advance(w, "restore", "discard")
  /\ Renamed("backup", "current") \/ UNCHANGED fileVars
  /\ UNCHANGED mishaps
CleanUp(w) ==
  /\ Advance(w, "clean", "installed")
  /\ Removed("backup") \/ UNCHANGED fileVars
  /\ UNCHANGED mishaps

(* After any failure at the files. *)
Discard(w) ==
  /\ Advance(w, "discard", "stopped")
  /\ Removed("staged") \/ UNCHANGED fileVars
  /\ UNCHANGED mishaps

(* The process is killed, or has left, and its threads with it; it can be  *)
(* started again while there is an executable to start.                    *)
Kill ==
  /\ Live /\ program' = "killed" /\ handle' = 0
  /\ installers' = [w \in Slots |-> NoInstaller]
  /\ UNCHANGED <<follows, running, offer, installs, fileVars, mishaps>>
StartAgain ==
  /\ ~Live /\ Intact(files["current"])
  /\ program' = "running" /\ running' = files["current"]
  /\ offer' = NoOffer /\ mishaps' = {}
  /\ UNCHANGED <<follows, handle, installs, fileVars, installers>>

UpdaterNext ==
  \/ Check \/ StartInstall \/ CloseEditor \/ OpenEditor \/ Hear \/ Kill \/ StartAgain
  \/ \E w \in Slots :
       \/ Locate(w) \/ Download(w) \/ Verify(w) \/ CreateStaged(w) \/ WriteStaged(w)
       \/ ClearBackup(w) \/ RetireCurrent(w) \/ Promote(w) \/ Restore(w) \/ CleanUp(w) \/ Discard(w)

UpdaterSpec == UpdaterInit /\ [][UpdaterNext]_updaterVars

-----------------------------------------------------------------------------
(* Whatever fails and whenever the process is killed, a whole, verified    *)
(* executable is on disk, in its place or beside it; what is in its place  *)
(* is never part of a file or a download that did not match its checksum,  *)
(* and never older than the program that installed it                      *)
(* (src/trainer/update.rs swap_in_place).                                  *)
(*                                                                         *)
(* Two exceptions, both since the program was started.  A worker that was  *)
(* given up with Esc goes on, and a second one reaches the files before it *)
(* has left them (src/trainer/tui.rs:407, 558): nothing is promised.  An   *)
(* install begins although an earlier one could not put the executable     *)
(* back: it removes the backup, which is the last one there is             *)
(* (src/trainer/update.rs:553), and only what stands in its place, should  *)
(* there be anything, is promised.  Where the path of the running program  *)
(* follows the rename (Linux) that takes an install that was started while *)
(* another one was alive; on macOS and Windows it does not.                *)
LastOneInReach == "unrestored" \in mishaps /\ (follows => "crowded" \in mishaps)
ExecutableSurvives ==
  "crossed" \in mishaps \/
    IF files["current"] # Missing THEN Intact(files["current"]) /\ files["current"] >= running
    ELSE LastOneInReach \/ (Intact(files["backup"]) /\ files["backup"] >= running)

=============================================================================
