------------------------------- MODULE Shell --------------------------------
(***************************************************************************)
(* The shell around the programs (src/ui/shell.rs and run_shell): a home   *)
(* screen, overlays that return to one remembered route, and a profile     *)
(* that is edited in place and saved as a whole.  Characters of a name     *)
(* are counted, and saved settings are what validation accepts.            *)
(***************************************************************************)
EXTENDS Integers

CONSTANTS
  MaxName,      \* characters of a display name, 24 in the code
  StackCount    \* starting stacks on offer, 4 in the code

VARIABLES
  shell,     \* ShellApp: route, return_route, selections and editing_name
  profile,   \* LocalProfile in memory: length of the name, index of the stack
  saved      \* profile.json
shellVars == <<shell, profile, saved>>

Overlays == {"Help", "Settings", "Error"}
Valid(p) == p.name \in 1 .. MaxName

(* run_shell: a file that cannot be read is left alone and the defaults    *)
(* are used.                                                               *)
ShellInit ==
  /\ shell = [route |-> "Home", back |-> "Home", item |-> 0, setting |-> 0, editing |-> FALSE]
  /\ profile = [name |-> 1, stack |-> 0] /\ saved = profile

At(route) == shell.route = route
Over(to) == [shell EXCEPT !.back = shell.route, !.route = to]

-----------------------------------------------------------------------------
OpenHelp ==
  /\ shell.route \notin {"Help", "QuickPractice"} /\ ~shell.editing
  /\ shell' = Over("Help") /\ UNCHANGED <<profile, saved>>
OpenSettings ==
  /\ ~At("QuickPractice") /\ ~shell.editing
  /\ shell' = [Over("Settings") EXCEPT !.editing = FALSE] /\ UNCHANGED <<profile, saved>>

(* Back: ends the editing of the name, then leaves the overlay.            *)
AfterEsc(s) ==
  IF s.route = "Settings" /\ s.editing THEN [s EXCEPT !.editing = FALSE]
  ELSE [s EXCEPT !.route = IF @ \in Overlays THEN s.back ELSE "Home"]
Esc == shell' = AfterEsc(shell) /\ UNCHANGED <<profile, saved>>

Within(n, top) == IF n < 0 THEN 0 ELSE IF n > top THEN top ELSE n
Move(step) ==
  /\ shell' = CASE At("Home") -> [shell EXCEPT !.item = Within(@ + step, 5)]
                [] At("Settings") /\ ~shell.editing -> [shell EXCEPT !.setting = Within(@ + step, 1)]
                [] OTHER -> shell
  /\ UNCHANGED <<profile, saved>>

(* SaveProfile: an invalid profile or a failed write raises an error over  *)
(* the current route; the profile in memory keeps the change.              *)
Save(p, s) ==
  /\ profile' = p
  /\ \/ Valid(p) /\ saved' = p /\ shell' = s
     \/ saved' = saved /\ shell' = [s EXCEPT !.back = s.route, !.route = "Error"]

ChooseStack(step) ==
  /\ At("Settings") /\ ~shell.editing /\ shell.setting = 1
  /\ Save([profile EXCEPT !.stack = Within(@ + step, StackCount - 1)], shell)

TypeName ==
  /\ At("Settings") /\ shell.editing
  /\ \E length \in {profile.name - 1, profile.name + 1} :
       length \in 0 .. MaxName /\ profile' = [profile EXCEPT !.name = length]
  /\ UNCHANGED <<shell, saved>>

SelectSetting ==
  /\ At("Settings")
  /\ IF shell.setting = 0 /\ ~shell.editing
     THEN shell' = [shell EXCEPT !.editing = TRUE] /\ UNCHANGED <<profile, saved>>
     ELSE Save([profile EXCEPT !.name = IF shell.editing /\ @ = 0 THEN 1 ELSE @],
               [shell EXCEPT !.editing = FALSE])

(* Quick Practice runs to its end before the shell goes on; hosting and    *)
(* joining end, fail or are cancelled.                                     *)
SelectHome ==
  /\ At("Home")
  /\ CASE shell.item = 0 -> shell' = [shell EXCEPT !.route = "QuickPractice"]
       [] shell.item \in {1, 2} -> shell' \in {shell, Over("Error")}
       [] shell.item = 4 -> shell' = [Over("Settings") EXCEPT !.editing = FALSE]
       [] OTHER -> shell' = shell
  /\ UNCHANGED <<profile, saved>>

ShellNext ==
  \/ OpenHelp \/ OpenSettings \/ Esc \/ TypeName \/ SelectSetting \/ SelectHome
  \/ \E step \in {-1, 1} : Move(step) \/ ChooseStack(step)
ShellSpec == ShellInit /\ [][ShellNext]_shellVars

-----------------------------------------------------------------------------
(* EscLeadsHome: from every screen a few presses of Esc lead to the home   *)
(* screen, as the help text of the shell says.  The code remembers one     *)
(* return route: an overlay opened over another one, or an error raised    *)
(* over the settings, returns to a screen that then returns to itself.     *)
EscLeadsHome == AfterEsc(AfterEsc(AfterEsc(shell))).route = "Home"
=============================================================================
