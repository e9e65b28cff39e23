----------------------------- MODULE CommandLog -----------------------------
(***************************************************************************)
(* What a table authority promises to the controllers of its seats,        *)
(* abstracted from revisions, ledgers and error codes (ADR 0001 and 0009): *)
(* every command identity gets at most one decision per hand, the decision *)
(* never changes, and a hand's log only grows by decided commands and by   *)
(* the server's own showdown steps.                                        *)
(***************************************************************************)
EXTENDS Naturals, Sequences

CONSTANTS
  Ids,       \* command identities
  Undecided, \* the decision of an identity that has none
  Accept, Reject, \* the decisions
  Step       \* the log entry of a showdown step

VARIABLES log, decision

logVars == <<log, decision>>

LogInit == /\ log = <<>>
           /\ decision = [i \in Ids |-> Undecided]

(* A fresh identity is accepted and logged, or rejected and not logged. *)
Decide(i) ==
  /\ decision[i] = Undecided
  /\ \/ /\ decision' = [decision EXCEPT ![i] = Accept]
        /\ log' = Append(log, i)
     \/ /\ decision' = [decision EXCEPT ![i] = Reject]
        /\ UNCHANGED log

ServerStep == /\ log' = Append(log, Step)
              /\ UNCHANGED decision

(* The next hand starts with nothing decided. *)
Restart == /\ log' = <<>>
           /\ decision' = [i \in Ids |-> Undecided]

LogNext == (\E i \in Ids : Decide(i)) \/ ServerStep \/ Restart

LogSpec == LogInit /\ [][LogNext]_logVars

=============================================================================
